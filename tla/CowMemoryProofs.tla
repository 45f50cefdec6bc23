--------------------------- MODULE CowMemoryProofs ---------------------------
(***************************************************************************)
(* Proofs about CowMemory, for any number of processes, frames and pages,  *)
(* of programs that do not give back memory they still share: who maps     *)
(* what, the counts, and that each process has its own memory              *)
(* (PrivateMemory).                                                        *)
(***************************************************************************)
EXTENDS CowMemory, FiniteSetTheorems, SequenceTheorems, TLAPS

Forking == {"fork_map", "fork_count"}
Faulting == {"pf_alloc", "pf_count", "pf_map"}
Bare == {"unused", "embryo"}

\* TypeOK, but that a count might be negative.
CowTypes ==
  /\ free \subseteq Frames
  /\ ref \in [Frames -> Int]
  /\ content \in [Frames -> Values]
  /\ pt \in [Procs -> [Pages -> Frames \cup {NoFrame}]]
  /\ writable \in [Procs -> [Pages -> BOOLEAN]]
  /\ sz \in [Procs -> 0..MaxPages]
  /\ pc \in [Procs -> Points]
  /\ page \in [Procs -> 1..MaxPages + 1]
  /\ child \in [Procs -> Procs]
  /\ new \in [Procs -> Frames \cup {NoFrame}]
  /\ panicked \in BOOLEAN

\* The child of a fork is an embryo of its own, and maps the pages that
\* copyuvm has passed.
Forks == \A p \in Procs : pc[p] \in Forking =>
  /\ pc[child[p]] = "embryo"
  /\ page[p] <= sz[p] + 1
  /\ \A v \in Pages : pt[child[p]][v] # NoFrame
       <=> v < page[p] \/ (pc[p] = "fork_count" /\ v = page[p])
  /\ pc[p] = "fork_count" =>
       page[p] <= sz[p] /\ pt[child[p]][page[p]] = pt[p][page[p]]
  /\ \A q \in Procs : pc[q] \in Forking /\ child[q] = child[p] => q = p

\* A process has the pages below sz and no others.
Extents == \A p \in Procs :
  /\ pc[p] \in Bare => sz[p] = 0 /\ \A v \in Pages : ~writable[p][v]
  /\ pc[p] = "unused" => \A v \in Pages : pt[p][v] = NoFrame
  /\ pc[p] \notin Bare => \A v \in Pages : pt[p][v] # NoFrame <=> v <= sz[p]

Places == \A p \in Procs :
  /\ pc[p] \in Bare \cup {"user"} => page[p] = 1
  /\ pc[p] \in Faulting => page[p] <= sz[p] /\ ~writable[p][page[p]]
  /\ pc[p] \in {"pf_count", "pf_map"} => new[p] \in Frames

Layout == CowTypes /\ Forks /\ Extents /\ Places

----------------------------------------------------------------------------
(* Layout *)

LEMMA TimesIs ==
  ASSUME NEW p \in Procs, NEW vs \in SUBSET Pages, NEW f
  PROVE  /\ IsFiniteSet({v \in vs : pt[p][v] = f})
         /\ Times(p, vs, f) \in Nat
<1>1. IsFiniteSet(Pages)
  BY CowAssumption, FS_Interval DEF Pages
<1> QED BY <1>1, FS_Subset, FS_CardinalityType DEF Times

LEMMA Mapped ==
  ASSUME CowTypes, Extents, NEW p \in Procs, pc[p] \notin Bare,
         NEW v \in Pages, v <= sz[p]
  PROVE  pt[p][v] \in Frames
<1>1. pt[p][v] # NoFrame
  BY DEF Extents
<1> QED BY <1>1 DEF CowTypes

LEMMA LayoutInit == Init => Layout
<1> SUFFICES ASSUME Init PROVE Layout
  OBVIOUS
<1> USE CowAssumption DEF Pages
<1>0. PICK p \in Procs, f \in Frames :
       /\ free = Frames \ {f}
       /\ ref = [g \in Frames |-> IF g = f THEN 1 ELSE 0]
       /\ content = [g \in Frames |-> IF g = f THEN Zero ELSE Junk]
       /\ pt = [q \in Procs |-> [NoPages EXCEPT ![1] = IF q = p THEN f ELSE @]]
       /\ writable = [q \in Procs |-> [ReadOnly EXCEPT ![1] = q = p]]
       /\ sz = [q \in Procs |-> IF q = p THEN 1 ELSE 0]
       /\ pc = [q \in Procs |-> IF q = p THEN "user" ELSE "unused"]
       /\ page = [q \in Procs |-> 1]
       /\ child = [q \in Procs |-> p]
       /\ new = [q \in Procs |-> NoFrame]
       /\ panicked = FALSE
  BY DEF Init
<1>1. CowTypes
  <2>1. /\ pt \in [Procs -> [Pages -> Frames \cup {NoFrame}]]
        /\ writable \in [Procs -> [Pages -> BOOLEAN]]
    BY <1>0 DEF NoPages, ReadOnly
  <2>2. pc \in [Procs -> Points] /\ sz \in [Procs -> 0..MaxPages]
    BY <1>0 DEF Points
  <2>3. ref \in [Frames -> Int] /\ content \in [Frames -> Values]
    BY <1>0
  <2>4. page \in [Procs -> 1..MaxPages + 1] /\ child \in [Procs -> Procs]
    BY <1>0
  <2>5. new \in [Procs -> Frames \cup {NoFrame}]
    BY <1>0
  <2>6. free \subseteq Frames /\ panicked \in BOOLEAN
    BY <1>0
  <2> QED BY <2>1, <2>2, <2>3, <2>4, <2>5, <2>6 DEF CowTypes
<1>2. Forks
  BY <1>0 DEF Forks, Forking
<1>3. Extents
  <2>1. \A q \in Procs, v \in Pages :
          pt[q][v] = IF q = p /\ v = 1 THEN f ELSE NoFrame
    BY <1>0 DEF NoPages
  <2>2. \A q \in Procs, v \in Pages : writable[q][v] = (q = p /\ v = 1)
    BY <1>0 DEF ReadOnly
  <2>3. sz[p] = 1 /\ pc[p] = "user" /\ \A v \in Pages : v \in Int /\ v >= 1
    BY <1>0
  <2>4. \A q \in Procs : q # p => sz[q] = 0 /\ pc[q] = "unused"
    BY <1>0
  <2>5. f # NoFrame
    OBVIOUS
  <2>6. \A v \in Pages : pt[p][v] # NoFrame <=> v <= sz[p]
    BY <2>1, <2>3, <2>5
  <2>7. ASSUME NEW q \in Procs, q # p
        PROVE  \A v \in Pages : pt[q][v] = NoFrame /\ ~writable[q][v]
    BY <2>1, <2>2, <2>7
  <2> QED BY <2>3, <2>4, <2>6, <2>7 DEF Extents, Bare
<1>4. Places
  BY <1>0 DEF Places, Bare, Faulting
<1> QED BY <1>1, <1>2, <1>3, <1>4 DEF Layout

LEMMA DropTypes ==
  ASSUME CowTypes, NEW p \in Procs, NEW vs \in SUBSET Pages, Drop(p, vs)
  PROVE  /\ ref' \in [Frames -> Int]
         /\ free' \subseteq Frames
         /\ content' \in [Frames -> Values]
<1>1. \A f \in Frames : Times(p, vs, f) \in Nat
  BY TimesIs
<1>2. ref' \in [Frames -> Int]
  BY <1>1 DEF CowTypes, Drop, Left
<1>3. free' \subseteq Frames
  BY DEF CowTypes, Drop, Freed
<1>4. content' \in [Frames -> Values]
  BY CowAssumption DEF CowTypes, Drop, Junked
<1> QED BY <1>2, <1>3, <1>4

LEMMA LayoutStep ==
  ASSUME Layout, ~ShrinkShared, [Next]_vars
  PROVE  Layout'
<1> USE CowAssumption DEF Layout, At, Goto, tables, locals
<1> USE DEF CowTypes
<1>1. CASE UNCHANGED vars
  BY <1>1 DEF vars, Forks, Extents, Places
<1>2. ASSUME NEW p \in Procs, NEW v \in Pages, NEW x \in Values, Write(p, v, x)
      PROVE  Layout'
  BY <1>2 DEF Write, Forks, Extents, Places
<1>3. ASSUME NEW p \in Procs, NEW v \in Pages, Fault(p, v) PROVE Layout'
  <2>1. pc[p] = "user" /\ v <= sz[p] /\ ~writable[p][v]
    BY <1>3 DEF Fault, Extents, Bare
  <2>2. CASE writable' = [writable EXCEPT ![p][v] = TRUE] /\ UNCHANGED <<pc, page>>
    <3>1. CowTypes'
      BY <1>3, <2>2 DEF Fault
    <3>2. Forks' /\ Extents' /\ Places'
      BY <1>3, <2>1, <2>2 DEF Fault, Forks, Extents, Places, Bare, Faulting
    <3> QED BY <3>1, <3>2
  <2>3. CASE /\ Goto(p, "pf_alloc") /\ page' = [page EXCEPT ![p] = v]
             /\ UNCHANGED writable
    <3>1. CowTypes'
      BY <1>3, <2>3 DEF Fault, Points, Pages
    <3>2. Forks'
      BY <1>3, <2>1, <2>3 DEF Fault, Forks, Forking
    <3>3. Extents' /\ Places'
      BY <1>3, <2>1, <2>3 DEF Fault, Extents, Places, Bare, Faulting
    <3> QED BY <3>1, <3>2, <3>3
  <2> QED BY <1>3, <2>2, <2>3 DEF Fault
<1>4. ASSUME NEW p \in Procs, FaultCopy(p) PROVE Layout'
  <2>1. CASE UNCHANGED <<free, content, new>> /\ Goto(p, "killed")
    <3>1. CowTypes'
      BY <1>4, <2>1 DEF FaultCopy, Points
    <3>2. Forks' /\ Extents' /\ Places'
      BY <1>4, <2>1 DEF FaultCopy, Forks, Extents, Places, Forking, Bare, Faulting
    <3> QED BY <3>1, <3>2
  <2>2. ASSUME NEW f \in free, free' = free \ {f}, Goto(p, "pf_count"),
               new' = [new EXCEPT ![p] = f],
               content' = [content EXCEPT ![f] = content[pt[p][page[p]]]]
        PROVE  Layout'
    <3>1. pt[p][page[p]] \in Frames
      <4>1. pc[p] = "pf_alloc"
        BY <1>4 DEF FaultCopy
      <4>2. page[p] <= sz[p] /\ page[p] \in Pages
        BY <4>1 DEF Places, Faulting, Pages
      <4> QED BY <4>1, <4>2, Mapped DEF Bare
    <3>2. CowTypes'
      BY <1>4, <2>2, <3>1 DEF FaultCopy, Points
    <3>3. Forks' /\ Extents'
      BY <1>4, <2>2 DEF FaultCopy, Forks, Extents, Forking, Bare
    <3>4. Places'
      BY <1>4, <2>2 DEF FaultCopy, Places, Bare, Faulting
    <3> QED BY <3>2, <3>3, <3>4
  <2> QED BY <1>4, <2>1, <2>2 DEF FaultCopy
<1>5. ASSUME NEW p \in Procs, FaultCount(p) PROVE Layout'
  BY <1>5 DEF FaultCount, FaultCounted, Points, Forks, Extents, Places, Forking,
              Bare, Faulting, Pages
<1>6. ASSUME NEW p \in Procs, FaultMap(p) PROVE Layout'
  <2>1. page[p] \in Pages /\ new[p] \in Frames
    BY <1>6 DEF FaultMap, Places, Faulting, Pages
  <2>2. CowTypes'
    BY <1>6, <2>1 DEF FaultMap, Points, Pages
  <2>3. Forks'
    BY <1>6, <2>1 DEF FaultMap, Forks, Forking
  <2>4. Extents'
    BY <1>6, <2>1 DEF FaultMap, Extents, Places, Bare, Faulting
  <2>5. Places'
    BY <1>6, <2>1 DEF FaultMap, Places, Bare, Faulting
  <2> QED BY <2>2, <2>3, <2>4, <2>5
<1>7. ASSUME NEW p \in Procs, NEW q \in Procs, Fork(p, q) PROVE Layout'
  <2>1. CowTypes'
    BY <1>7 DEF Fork, Points
  <2>2. Forks'
    BY <1>7 DEF Fork, Forks, Extents, Places, Forking, Bare, Pages
  <2>3. Extents' /\ Places'
    BY <1>7 DEF Fork, Extents, Places, Bare, Faulting
  <2> QED BY <2>1, <2>2, <2>3
<1>8. ASSUME NEW p \in Procs, ForkMap(p) PROVE Layout'
  <2>1. page[p] \in Pages /\ child[p] \in Procs /\ pc[child[p]] = "embryo"
    BY <1>8 DEF ForkMap, Pages, Forks, Forking
  <2>2. CowTypes'
    BY <1>8, <2>1 DEF ForkMap, Points, ClearedW
  <2>3. Forks'
    BY <1>8, <2>1 DEF ForkMap, Forks, Forking, Extents, Bare, Pages
  <2>4. Extents'
    BY <1>8, <2>1 DEF ForkMap, Extents, Bare, ClearedW
  <2>5. Places'
    BY <1>8, <2>1 DEF ForkMap, Places, Bare, Faulting, ClearedW
  <2> QED BY <2>2, <2>3, <2>4, <2>5
<1>9. ASSUME NEW p \in Procs, ForkCount(p) PROVE Layout'
  <2>1. CowTypes'
    BY <1>9 DEF ForkCount, Shared, Points, Forks, Forking, Pages
  <2>2. Forks'
    BY <1>9 DEF ForkCount, Forks, Forking, Pages
  <2>3. Extents' /\ Places'
    BY <1>9 DEF ForkCount, Extents, Places, Bare, Faulting
  <2> QED BY <2>1, <2>2, <2>3
<1>10. ASSUME NEW p \in Procs, ForkDone(p) PROVE Layout'
  <2>1. /\ child[p] \in Procs /\ pc[child[p]] = "embryo" /\ child[p] # p
        /\ pc[p] = "fork_map" /\ page[p] = sz[p] + 1
    <3>1. pc[p] = "fork_map" /\ page[p] > sz[p]
      BY <1>10 DEF ForkDone
    <3>2. pc[child[p]] = "embryo" /\ page[p] <= sz[p] + 1
      BY <3>1 DEF Forks, Forking
    <3>3. page[p] \in Int /\ sz[p] \in Int /\ child[p] \in Procs
      BY CowAssumption
    <3> HIDE DEF CowTypes, Layout
    <3>4. page[p] = sz[p] + 1
      BY <3>1, <3>2, <3>3
    <3>5. child[p] # p
      BY <3>1, <3>2
    <3> QED BY <3>1, <3>2, <3>3, <3>4, <3>5
  <2>2. CowTypes'
    <3>1. sz' \in [Procs -> 0..MaxPages] /\ page' \in [Procs -> 1..MaxPages + 1]
      BY <1>10, <2>1 DEF ForkDone
    <3>2. pc' \in [Procs -> Points] /\ child' \in [Procs -> Procs]
      BY <1>10, <2>1 DEF ForkDone, Points
    <3> QED BY <1>10, <3>1, <3>2 DEF ForkDone
  <2>3. Forks'
    BY <1>10, <2>1 DEF ForkDone, Forks, Forking
  <2>4. Extents'
    BY <1>10, <2>1 DEF ForkDone, Forks, Forking, Extents, Bare, Pages
  <2>5. Places'
    BY <1>10, <2>1 DEF ForkDone, Places, Bare, Faulting
  <2> QED BY <2>2, <2>3, <2>4, <2>5
<1>11. ASSUME NEW p \in Procs, ForkFail(p) PROVE Layout'
  <2>1. /\ child[p] \in Procs /\ pc[child[p]] = "embryo" /\ child[p] # p
        /\ pc[p] = "fork_map" /\ page[p] \in Pages
    BY <1>11 DEF ForkFail, Forks, Forking, Pages
  <2>2. CowTypes'
    <3>1. /\ ref' \in [Frames -> Int] /\ free' \subseteq Frames
          /\ content' \in [Frames -> Values]
      BY <1>11, <2>1, DropTypes DEF ForkFail
    <3>2. /\ pt' \in [Procs -> [Pages -> Frames \cup {NoFrame}]]
          /\ writable' \in [Procs -> [Pages -> BOOLEAN]]
      BY <1>11, <2>1 DEF ForkFail, NoPages
    <3>3. pc' \in [Procs -> Points] /\ child' \in [Procs -> Procs]
      BY <1>11, <2>1 DEF ForkFail, Points
    <3>4. page' \in [Procs -> 1..MaxPages + 1]
      BY <1>11, <2>1 DEF ForkFail
    <3> QED BY <1>11, <3>1, <3>2, <3>3, <3>4 DEF ForkFail
  <2>3. Forks'
    BY <1>11, <2>1 DEF ForkFail, Forks, Forking
  <2>4. Extents'
    BY <1>11, <2>1 DEF ForkFail, Extents, Bare, NoPages
  <2>5. Places'
    BY <1>11, <2>1 DEF ForkFail, Places, Bare, Faulting
  <2> QED BY <2>2, <2>3, <2>4, <2>5
<1>12. ASSUME NEW p \in Procs, Grow(p) PROVE Layout'
  <2>1. pt[p][sz[p] + 1] = NoFrame /\ sz[p] + 1 \in Pages
    BY <1>12 DEF Grow, Extents, Bare
  <2>2. PICK f \in free :
          /\ free' = free \ {f} /\ content' = [content EXCEPT ![f] = Zero]
          /\ pt' = [pt EXCEPT ![p][sz[p] + 1] = f]
          /\ writable' = [writable EXCEPT ![p][sz[p] + 1] = TRUE]
          /\ ref' = [ref EXCEPT ![f] = @ + 1]
          /\ sz' = [sz EXCEPT ![p] = sz[p] + 1]
    BY <1>12, <2>1 DEF Grow
  <2>3. pc[p] = "user" /\ UNCHANGED <<pc, locals, panicked>>
    BY <1>12, <2>1 DEF Grow
  <2>4. CowTypes'
    BY <2>1, <2>2, <2>3 DEF Pages
  <2>5. Forks'
    BY <2>1, <2>2, <2>3 DEF Forks, Forking
  <2>6. Extents'
    BY <2>1, <2>2, <2>3 DEF Extents, Bare, Pages
  <2>7. Places'
    BY <2>1, <2>2, <2>3 DEF Places, Bare, Faulting
  <2> QED BY <2>4, <2>5, <2>6, <2>7
<1>13. ASSUME NEW p \in Procs, Shrink(p) PROVE Layout'
  <2> DEFINE u == sz[p]
  <2>1. u \in Pages /\ pt[p][u] \in Frames /\ ref[pt[p][u]] = 1 /\ pc[p] = "user"
    <3>1. pc[p] = "user" /\ u > 1 /\ ref[pt[p][u]] = 1
      BY <1>13 DEF Shrink
    <3>2. u \in Pages
      BY <3>1 DEF Pages
    <3>3. u <= sz[p]
      BY <3>2 DEF Pages
    <3>4. pt[p][u] \in Frames
      BY <3>1, <3>2, <3>3, Mapped DEF Bare
    <3> QED BY <3>1, <3>2, <3>4
  <2>2. Times(p, {u}, pt[p][u]) = 1
    <3>1. {w \in {u} : pt[p][w] = pt[p][u]} = {u}
      OBVIOUS
    <3> QED BY <3>1, FS_Singleton DEF Times
  <2>3. ref'[pt[p][u]] = 0
    BY <1>13, <2>1, <2>2 DEF Shrink, Drop, Left
  <2>4. /\ pt' = [pt EXCEPT ![p][u] = NoFrame]
        /\ writable' = [writable EXCEPT ![p][u] = FALSE]
        /\ sz' = [sz EXCEPT ![p] = u - 1]
        /\ UNCHANGED <<pc, locals, panicked>>
    BY <1>13, <2>3 DEF Shrink
  <2>5. CowTypes'
    <3>1. {u} \in SUBSET Pages /\ Drop(p, {u})
      BY <1>13, <2>1 DEF Shrink
    <3>2. /\ ref' \in [Frames -> Int] /\ free' \subseteq Frames
          /\ content' \in [Frames -> Values]
      BY <3>1, DropTypes
    <3> QED BY <2>1, <2>4, <3>2 DEF Pages
  <2>6. Forks'
    BY <2>1, <2>4 DEF Forks, Forking
  <2>7. Extents'
    BY <2>1, <2>4 DEF Extents, Bare, Pages
  <2>8. Places'
    BY <2>1, <2>4 DEF Places, Bare, Faulting
  <2> QED BY <2>5, <2>6, <2>7, <2>8
<1>14. ASSUME NEW p \in Procs, Exec(p) PROVE Layout'
  <2>1. PICK k \in Pages : \E mem \in Injection(1..k, free) :
          /\ pt' = [pt EXCEPT ![p] =
                      [v \in Pages |-> IF v <= k THEN mem[v] ELSE NoFrame]]
          /\ writable' = [writable EXCEPT ![p] = [v \in Pages |-> v <= k]]
          /\ sz' = [sz EXCEPT ![p] = k]
          /\ free' = (free \ Range(mem)) \cup Freed(p, Pages)
          /\ ref' = [f \in Frames |->
                       Left(p, Pages)[f] + IF f \in Range(mem) THEN 1 ELSE 0]
          /\ content' = [f \in Frames |-> IF f \in Range(mem) THEN Zero
                                          ELSE Junked(Freed(p, Pages))[f]]
    BY <1>14 DEF Exec
  <2>9. PICK mem \in Injection(1..k, free) :
          /\ pt' = [pt EXCEPT ![p] =
                      [v \in Pages |-> IF v <= k THEN mem[v] ELSE NoFrame]]
          /\ writable' = [writable EXCEPT ![p] = [v \in Pages |-> v <= k]]
          /\ sz' = [sz EXCEPT ![p] = k]
          /\ free' = (free \ Range(mem)) \cup Freed(p, Pages)
          /\ ref' = [f \in Frames |->
                       Left(p, Pages)[f] + IF f \in Range(mem) THEN 1 ELSE 0]
          /\ content' = [f \in Frames |-> IF f \in Range(mem) THEN Zero
                                          ELSE Junked(Freed(p, Pages))[f]]
    BY <2>1
  <2>2. mem \in [1..k -> free]
    BY <2>9 DEF Injection
  <2>3. pc[p] = "user" /\ UNCHANGED <<pc, locals, panicked>>
    BY <1>14 DEF Exec
  <2>4. ref' \in [Frames -> Int]
    <3>1. \A f \in Frames : Times(p, Pages, f) \in Nat
      BY TimesIs
    <3>2. \A f \in Frames : Left(p, Pages)[f] \in Int
      BY <3>1 DEF Left
    <3> QED BY <2>9, <3>2
  <2>5. CowTypes'
    BY <2>9, <2>2, <2>3, <2>4 DEF Freed, Junked, Pages
  <2>6. Forks'
    BY <2>9, <2>3 DEF Forks, Forking
  <2>7. Extents'
    BY <2>9, <2>2, <2>3 DEF Extents, Bare, Pages
  <2>8. Places'
    BY <2>9, <2>3 DEF Places, Bare, Faulting
  <2> QED BY <2>5, <2>6, <2>7, <2>8
<1>15. ASSUME NEW p \in Procs, Exit(p) PROVE Layout'
  <2>1. CowTypes'
    BY <1>15, DropTypes DEF Exit, Points, NoPages, ReadOnly, Pages
  <2>2. Forks'
    BY <1>15 DEF Exit, Forks, Forking
  <2>3. Extents'
    BY <1>15 DEF Exit, Extents, Bare, NoPages, ReadOnly, Pages
  <2>4. Places'
    BY <1>15 DEF Exit, Places, Bare, Faulting
  <2> QED BY <2>1, <2>2, <2>3, <2>4
<1> QED
  BY <1>1, <1>2, <1>3, <1>4, <1>5, <1>6, <1>7, <1>8, <1>9, <1>10, <1>11, <1>12,
     <1>13, <1>14, <1>15 DEF Next

----------------------------------------------------------------------------
(* Counting mappings *)

\* The page v of q is to be counted by a process in copyuvm.
Pending(q, v) ==
  \E p \in Procs : pc[p] = "fork_count" /\ child[p] = q /\ page[p] = v

CountedAt(q, v, f) == FrameOf(q, v) = f /\ ~Pending(q, v)
Counted(f) == {m \in Procs \X Pages : CountedAt(m[1], m[2], f)}

RefRight == \A f \in Frames : ref[f] = Cardinality(Counted(f))

LEMMA MappingsFinite == IsFiniteSet(Procs \X Pages)
<1>1. IsFiniteSet(Pages)
  BY CowAssumption, FS_Interval DEF Pages
<1> QED BY <1>1, CowAssumption, FS_Product

LEMMA CountedFinite ==
  \A f : IsFiniteSet(Counted(f)) /\ Cardinality(Counted(f)) \in Nat
<1> SUFFICES ASSUME NEW f
             PROVE  IsFiniteSet(Counted(f)) /\ Cardinality(Counted(f)) \in Nat
  OBVIOUS
<1>1. Counted(f) \in SUBSET (Procs \X Pages)
  BY DEF Counted
<1> QED BY <1>1, MappingsFinite, FS_Subset, FS_CardinalityType

LEMMA CountSame ==
  ASSUME NEW f,
         \A q \in Procs, v \in Pages : CountedAt(q, v, f)' <=> CountedAt(q, v, f)
  PROVE  Counted(f)' = Counted(f)
BY DEF Counted

LEMMA CountMore ==
  ASSUME NEW f, NEW p \in Procs, NEW w \in Pages, ~CountedAt(p, w, f),
         \A q \in Procs, v \in Pages :
           CountedAt(q, v, f)' <=> (CountedAt(q, v, f) \/ (q = p /\ v = w))
  PROVE  Cardinality(Counted(f)') = Cardinality(Counted(f)) + 1
<1>1. Counted(f)' = Counted(f) \cup {<<p, w>>} /\ <<p, w>> \notin Counted(f)
  BY DEF Counted
<1> QED BY <1>1, CountedFinite, FS_AddElement

LEMMA CountLess ==
  ASSUME NEW f, NEW p \in Procs, NEW w \in Pages, CountedAt(p, w, f),
         \A q \in Procs, v \in Pages :
           CountedAt(q, v, f)' <=> (CountedAt(q, v, f) /\ ~(q = p /\ v = w))
  PROVE  Cardinality(Counted(f)') = Cardinality(Counted(f)) - 1
<1>1. Counted(f)' = Counted(f) \ {<<p, w>>} /\ <<p, w>> \in Counted(f)
  BY DEF Counted
<1> QED BY <1>1, CountedFinite, FS_RemoveElement

\* deallocuvm of the pages vs of p counts down by as many as map f.
LEMMA CountDrop ==
  ASSUME NEW f, NEW p \in Procs, NEW vs \in SUBSET Pages,
         \A v \in vs : CountedAt(p, v, f) <=> pt[p][v] = f,
         \A q \in Procs, v \in Pages :
           CountedAt(q, v, f)' <=> (CountedAt(q, v, f) /\ ~(q = p /\ v \in vs))
  PROVE  Cardinality(Counted(f)') = Cardinality(Counted(f)) - Times(p, vs, f)
<1> DEFINE V == {v \in vs : pt[p][v] = f}
           R == {<<p, v>> : v \in V}
           g == [v \in V |-> <<p, v>>]
<1>1. IsFiniteSet(V) /\ Times(p, vs, f) = Cardinality(V)
  BY TimesIs DEF Times
<1>2. g \in Bijection(V, R)
  BY DEF Bijection, Injection, Surjection, IsInjective
<1>3. IsFiniteSet(R) /\ Cardinality(R) = Cardinality(V)
  <2> HIDE DEF V, R, g
  <2> QED BY <1>1, <1>2, FS_Bijection DEF ExistsBijection
<1>4. R \subseteq Counted(f) /\ Counted(f)' = Counted(f) \ R
  BY DEF Counted
<1>5. Counted(f) \cap R = R
  BY <1>4
<1>6. Cardinality(Counted(f)') = Cardinality(Counted(f)) - Cardinality(R)
  <2> HIDE DEF R
  <2> QED BY <1>4, <1>5, CountedFinite, FS_Difference
<1> QED BY <1>1, <1>3, <1>6

\* Where nothing is counted nothing is mapped: a mapping that is not counted
\* yet is a copy of the parent's.
NoneCounted ==
  \A f \in Frames : Counted(f) = {} =>
    \A q \in Procs, v \in Pages : FrameOf(q, v) # f

LEMMA PendingParent ==
  ASSUME Layout, NEW f \in Frames, NEW q \in Procs, NEW v \in Pages,
         FrameOf(q, v) = f, ~CountedAt(q, v, f)
  PROVE  \E r \in Procs : /\ pc[r] = "fork_count" /\ child[r] = q
                          /\ page[r] \in Pages /\ CountedAt(r, page[r], f)
<1>1. PICK r \in Procs : pc[r] = "fork_count" /\ child[r] = q /\ page[r] = v
  BY DEF CountedAt, Pending
<1>2. pc[q] = "embryo" /\ pt[q][v] = pt[r][v]
  BY <1>1 DEF Layout, Forks, Forking
<1>3. FrameOf(r, v) = f
  BY <1>1, <1>2 DEF FrameOf
<1>4. ~Pending(r, v)
  BY <1>1 DEF Pending, Layout, Forks, Forking
<1> QED BY <1>1, <1>3, <1>4 DEF CountedAt

LEMMA UncountedUnmapped == Layout => NoneCounted
<1> SUFFICES ASSUME Layout, NEW f \in Frames, Counted(f) = {},
                    NEW q \in Procs, NEW v \in Pages, FrameOf(q, v) = f
             PROVE  FALSE
  BY DEF NoneCounted
<1>1. ASSUME NEW r \in Procs, NEW w \in Pages, CountedAt(r, w, f) PROVE FALSE
  <2>1. <<r, w>> \in Counted(f)
    BY <1>1 DEF Counted
  <2> QED BY <2>1
<1> QED BY <1>1, PendingParent

\* Who is not an embryo has nothing pending.
LEMMA Settled ==
  ASSUME Layout, NEW p \in Procs, pc[p] # "embryo", NEW v \in Pages
  PROVE  ~Pending(p, v)
BY DEF Layout, Forks, Forking, Pending

\* A writable page is not one that a copy is to replace.
LEMMA WritableFrame ==
  ASSUME Layout, NEW p \in Procs, NEW v \in Pages, writable[p][v]
  PROVE  FrameOf(p, v) = pt[p][v]
BY DEF Layout, Places, Faulting, FrameOf

----------------------------------------------------------------------------
(* Free frames, copies and writable pages *)

FreeUnmapped == \A f \in free, q \in Procs, v \in Pages : FrameOf(q, v) # f

\* The copy of a fault is nobody else's.
Copies == \A p \in Procs :
  /\ pc[p] \in {"pf_count", "pf_map"} => new[p] \notin free
  /\ pc[p] = "pf_count" =>
       /\ \A q \in Procs, v \in Pages : FrameOf(q, v) # new[p]
       /\ \A q \in Procs : pc[q] = "pf_count" /\ new[q] = new[p] => q = p
  /\ pc[p] = "pf_map" =>
       \A q \in Procs, v \in Pages :
         FrameOf(q, v) = new[p] => q = p /\ v = page[p]

Alone == \A p \in Procs, v \in Pages :
  writable[p][v] /\ pt[p][v] # NoFrame =>
    \A q \in Procs, w \in Pages : FrameOf(q, w) = pt[p][v] => q = p /\ w = v

Sharing == FreeUnmapped /\ Copies /\ Alone

LEMMA RefSame ==
  ASSUME RefRight, UNCHANGED ref,
         \A q \in Procs, v \in Pages : FrameOf(q, v)' = FrameOf(q, v),
         \A q \in Procs, v \in Pages : Pending(q, v)' <=> Pending(q, v)
  PROVE  RefRight'
<1>1. \A f : Counted(f)' = Counted(f)
  BY CountSame DEF CountedAt
<1> QED BY <1>1 DEF RefRight

\* deallocuvm of the pages vs of p, whose ptes are then cleared.
Cleared(p, vs) ==
  /\ Drop(p, vs)
  /\ \A v \in vs : FrameOf(p, v) = pt[p][v] /\ ~Pending(p, v)
  /\ \A q \in Procs, v \in Pages :
       /\ FrameOf(q, v)' = IF q = p /\ v \in vs THEN NoFrame ELSE FrameOf(q, v)
       /\ Pending(q, v)' <=> Pending(q, v)

LEMMA RefCleared ==
  ASSUME CowTypes, RefRight, NEW p \in Procs, NEW vs \in SUBSET Pages,
         Cleared(p, vs)
  PROVE  RefRight'
<1> SUFFICES ASSUME NEW f \in Frames
             PROVE  ref'[f] = Cardinality(Counted(f)')
  BY DEF RefRight
<1>1. ref'[f] = ref[f] - Times(p, vs, f)
  BY DEF Cleared, Drop, Left
<1>2. \A v \in vs : CountedAt(p, v, f) <=> pt[p][v] = f
  BY DEF Cleared, CountedAt
<1>3. \A q \in Procs, v \in Pages :
        CountedAt(q, v, f)' <=> (CountedAt(q, v, f) /\ ~(q = p /\ v \in vs))
  BY CowAssumption DEF Cleared, CountedAt
<1> QED BY <1>1, <1>2, <1>3, CountDrop DEF RefRight

\* What deallocuvm frees was mapped before and is not mapped any more.
LEMMA FreedMapped ==
  ASSUME CowTypes, NEW p \in Procs, NEW vs \in SUBSET Pages,
         NEW f \in Freed(p, vs)
  PROVE  f \in Frames /\ \E v \in vs : pt[p][v] = f
<1>1. f \in Frames /\ Times(p, vs, f) # 0
  BY TimesIs DEF Freed, CowTypes
<1>2. CASE \A v \in vs : pt[p][v] # f
  <2>1. {v \in vs : pt[p][v] = f} = {}
    BY <1>2
  <2> QED BY <1>1, <2>1, FS_EmptySet DEF Times
<1> QED BY <1>1, <1>2

LEMMA FreedUnmapped ==
  ASSUME Layout, Layout', RefRight', NEW p \in Procs, NEW vs \in SUBSET Pages,
         NEW f \in Freed(p, vs), ref'[f] = Left(p, vs)[f],
         NEW q \in Procs, NEW v \in Pages
  PROVE  FrameOf(q, v)' # f
<1>0. Times(p, vs, f) \in Nat
  BY TimesIs
<1>1. f \in Frames /\ Times(p, vs, f) \in Nat /\ ref[f] <= Times(p, vs, f)
  BY <1>0 DEF Freed, Layout, CowTypes
<1>2. ref[f] \in Int /\ ref'[f] = ref[f] - Times(p, vs, f)
  BY <1>1 DEF Left, Layout, CowTypes
<1>3. Counted(f)' \in SUBSET (Procs \X Pages)
  BY DEF Counted
<1>4. IsFiniteSet(Counted(f)') /\ Cardinality(Counted(f)') \in Nat
  BY <1>3, MappingsFinite, FS_Subset, FS_CardinalityType
<1>5. Cardinality(Counted(f)') = 0
  BY <1>1, <1>2, <1>4 DEF RefRight
<1>6. Counted(f)' = {}
  BY <1>4, <1>5, FS_EmptySet
<1>7. NoneCounted'
  BY UncountedUnmapped, PTL
<1> QED BY <1>1, <1>6, <1>7 DEF NoneCounted

LEMMA SharingCleared ==
  ASSUME Layout, Layout', RefRight', Sharing, NEW p \in Procs,
         NEW vs \in SUBSET Pages, Cleared(p, vs),
         \A r \in Procs : pc'[r] \in {"pf_count", "pf_map"} =>
           pc'[r] = pc[r] /\ new'[r] = new[r] /\ page'[r] = page[r],
         \A r \in Procs, v \in Pages :
           writable'[r][v] => writable[r][v] /\ pt'[r][v] \in {pt[r][v], NoFrame}
  PROVE  Sharing'
<1>1. \A q \in Procs, v \in Pages : FrameOf(q, v)' \in {FrameOf(q, v), NoFrame}
  BY DEF Cleared
<1>2. free' = free \cup Freed(p, vs) /\ free \subseteq Frames
  BY DEF Cleared, Drop, Layout, CowTypes
<1>3. \A f \in Freed(p, vs) : ref'[f] = Left(p, vs)[f]
  BY DEF Cleared, Drop
<1>4. \A f \in Freed(p, vs), q \in Procs, v \in Pages : FrameOf(q, v)' # f
  BY <1>3, FreedUnmapped
<1>5. \A f \in Freed(p, vs) : \E v \in vs : FrameOf(p, v) = f
  BY FreedMapped DEF Cleared, Layout
<1>6. FreeUnmapped'
  BY <1>1, <1>2, <1>4, CowAssumption DEF Sharing, FreeUnmapped
<1>7. Copies'
  <2> SUFFICES ASSUME NEW r \in Procs, pc'[r] \in {"pf_count", "pf_map"}
               PROVE  /\ new'[r] \notin free'
                      /\ pc'[r] = "pf_count" =>
                           /\ \A q \in Procs, v \in Pages : FrameOf(q, v)' # new'[r]
                           /\ \A q \in Procs :
                                pc'[q] = "pf_count" /\ new'[q] = new'[r] => q = r
                      /\ pc'[r] = "pf_map" =>
                           \A q \in Procs, v \in Pages :
                             FrameOf(q, v)' = new'[r] => q = r /\ v = page'[r]
    BY DEF Copies
  <2>1. pc'[r] = pc[r] /\ new'[r] = new[r] /\ page'[r] = page[r]
    OBVIOUS
  <2>2. new[r] \in Frames /\ new[r] \notin free
    BY <2>1 DEF Sharing, Copies, Layout, Places
  <2>3. new[r] \notin Freed(p, vs)
    <3>1. CASE pc[r] = "pf_count"
      BY <3>1, <1>5 DEF Sharing, Copies
    <3>2. CASE pc[r] = "pf_map"
      <4>1. page[r] \in Pages
        <5>1. page[r] \in 1..MaxPages + 1 /\ sz[r] \in 0..MaxPages
          BY DEF Layout, CowTypes
        <5>2. page[r] <= sz[r]
          BY <3>2 DEF Layout, Places, Faulting
        <5> QED BY <5>1, <5>2, CowAssumption DEF Pages
      <4>2. FrameOf(r, page[r])' = new[r]
        BY <2>1, <3>2 DEF FrameOf
      <4> QED BY <4>1, <4>2, <1>4
    <3> QED BY <2>1, <3>1, <3>2
  <2>4. new'[r] \notin free'
    BY <1>2, <2>1, <2>2, <2>3
  <2>5. new[r] # NoFrame
    BY <2>2, CowAssumption
  <2> QED BY <1>1, <2>1, <2>4, <2>5 DEF Sharing, Copies
<1>8. Alone'
  BY <1>1 DEF Sharing, Alone
<1> QED BY <1>6, <1>7, <1>8 DEF Sharing

----------------------------------------------------------------------------
(* The invariant *)

CowInv == Layout /\ RefRight /\ Sharing

LEMMA FaultKeeps ==
  ASSUME CowInv, Layout', NEW p \in Procs, NEW v \in Pages, Fault(p, v)
  PROVE  CowInv'
<1> DEFINE f == pt[p][v]
<1>1. /\ pc[p] = "user" /\ f \in Frames /\ ~writable[p][v]
      /\ UNCHANGED <<free, ref, pt, child, new>>
  BY Mapped, CowAssumption DEF Fault, At, CowInv, Layout, CowTypes
<1>2. FrameOf(p, v) = f /\ CountedAt(p, v, f)
  BY <1>1, Settled DEF FrameOf, CountedAt, CowInv
<1>3. /\ \A q \in Procs : q # p => pc'[q] = pc[q] /\ page'[q] = page[q]
      /\ pc'[p] \in {"user", "pf_alloc"}
  BY <1>1 DEF Fault, Goto, CowInv, Layout, CowTypes
<1>4. \A q \in Procs, w \in Pages : FrameOf(q, w)' = FrameOf(q, w)
  BY <1>1, <1>3 DEF FrameOf
<1>5. \A q \in Procs, w \in Pages : Pending(q, w)' <=> Pending(q, w)
  BY <1>1, <1>3 DEF Pending
<1>6. RefRight'
  BY <1>1, <1>4, <1>5, RefSame DEF CowInv
<1>7. FreeUnmapped'
  BY <1>1, <1>4 DEF CowInv, Sharing, FreeUnmapped
<1>8. Copies'
  BY <1>1, <1>3, <1>4 DEF CowInv, Sharing, Copies
<1>9. CASE UNCHANGED writable
  <2>1. Alone'
    BY <1>1, <1>4, <1>9 DEF CowInv, Sharing, Alone
  <2> QED BY <1>6, <1>7, <1>8, <2>1 DEF CowInv, Sharing
<1>10. CASE LastMapping(f) /\ writable' = [writable EXCEPT ![p][v] = TRUE]
  \* One mapping is counted, so it is this one; a mapping that is not counted
  \* yet would have a second that is.
  <2>1. Cardinality(Counted(f)) = 1
    BY <1>1, <1>10 DEF LastMapping, CowInv, RefRight
  <2>2. PICK x : Counted(f) = {x}
    BY <2>1, CountedFinite, FS_Singleton
  <2>3. ASSUME NEW q \in Procs, NEW w \in Pages, CountedAt(q, w, f)
        PROVE  q = p /\ w = v
    <3>1. <<q, w>> \in Counted(f) /\ <<p, v>> \in Counted(f)
      BY <1>2, <2>3 DEF Counted
    <3> QED BY <2>2, <3>1
  <2>4. ASSUME NEW q \in Procs, NEW w \in Pages, FrameOf(q, w) = f
        PROVE  q = p /\ w = v
    <3>1. CASE CountedAt(q, w, f)
      BY <2>3, <3>1
    <3>2. CASE ~CountedAt(q, w, f)
      <4>1. PICK r \in Procs : /\ pc[r] = "fork_count" /\ page[r] \in Pages
                               /\ CountedAt(r, page[r], f)
        BY <1>1, <2>4, <3>2, PendingParent DEF CowInv
      <4> QED BY <1>1, <2>3, <4>1
    <3> QED BY <3>1, <3>2
  <2>5. \A q \in Procs, w \in Pages :
          writable'[q][w] => writable[q][w] \/ (q = p /\ w = v)
    BY <1>10 DEF CowInv, Layout, CowTypes
  <2>6. Alone'
    BY <1>1, <1>4, <2>4, <2>5 DEF CowInv, Sharing, Alone
  <2> QED BY <1>6, <1>7, <1>8, <2>6 DEF CowInv, Sharing
<1> QED BY <1>9, <1>10 DEF Fault

LEMMA FaultCopyKeeps ==
  ASSUME CowInv, Layout', NEW p \in Procs, FaultCopy(p)
  PROVE  CowInv'
<1>1. /\ pc[p] = "pf_alloc" /\ pc'[p] \in {"pf_count", "killed"}
      /\ UNCHANGED <<ref, pt, writable, page, child>>
      /\ \A q \in Procs : q # p => pc'[q] = pc[q] /\ new'[q] = new[q]
      /\ free' \subseteq free
  BY DEF FaultCopy, At, Goto, tables, CowInv, Layout, CowTypes
<1>2. \A q \in Procs, w \in Pages : FrameOf(q, w)' = FrameOf(q, w)
  BY <1>1 DEF FrameOf
<1>3. \A q \in Procs, w \in Pages : Pending(q, w)' <=> Pending(q, w)
  BY <1>1 DEF Pending
<1>4. RefRight'
  BY <1>1, <1>2, <1>3, RefSame DEF CowInv
<1>5. FreeUnmapped' /\ Alone'
  BY <1>1, <1>2 DEF CowInv, Sharing, FreeUnmapped, Alone
<1>6. pc'[p] = "pf_count" => new'[p] \in free /\ new'[p] \notin free'
  BY DEF FaultCopy, Goto, CowInv, Layout, CowTypes
<1>7. Copies'
  BY <1>1, <1>2, <1>6 DEF CowInv, Sharing, Copies, FreeUnmapped
<1> QED BY <1>4, <1>5, <1>7 DEF CowInv, Sharing

LEMMA FaultCountKeeps ==
  ASSUME CowInv, Layout', NEW p \in Procs, FaultCount(p)
  PROVE  CowInv'
<1> DEFINE f == pt[p][page[p]]
           n == new[p]
<1>1. /\ pc[p] = "pf_count" /\ pc'[p] = "pf_map"
      /\ \A q \in Procs : q # p => pc'[q] = pc[q]
      /\ UNCHANGED <<free, pt, writable, page, child, new>>
      /\ ref' = [ref EXCEPT ![f] = @ - 1, ![n] = @ + 1]
  BY DEF FaultCount, FaultCounted, At, Goto, tables, locals, CowInv, Layout,
         CowTypes
<1>2. page[p] \in Pages /\ page[p] <= sz[p] /\ ~writable[p][page[p]]
  <2>1. page[p] \in 1..MaxPages + 1 /\ sz[p] \in 0..MaxPages
    BY DEF CowInv, Layout, CowTypes
  <2>2. page[p] <= sz[p] /\ ~writable[p][page[p]]
    BY <1>1 DEF CowInv, Layout, Places, Faulting
  <2> QED BY <2>1, <2>2, CowAssumption DEF Pages
<1>3. f \in Frames
  BY <1>1, <1>2, Mapped DEF CowInv, Layout, Bare
<1>4. n \in Frames /\ FrameOf(p, page[p]) = f
  BY <1>1 DEF CowInv, Layout, Places, FrameOf
<1>5. n # f /\ \A q \in Procs, w \in Pages : FrameOf(q, w) # n
  BY <1>1, <1>2, <1>4 DEF CowInv, Sharing, Copies
<1>6. \A q \in Procs, w \in Pages :
        FrameOf(q, w)' = IF q = p /\ w = page[p] THEN n ELSE FrameOf(q, w)
  BY <1>1 DEF FrameOf
<1>7. \A q \in Procs, w \in Pages : Pending(q, w)' <=> Pending(q, w)
  BY <1>1 DEF Pending
<1>8. ~Pending(p, page[p])
  BY <1>1, <1>2, Settled DEF CowInv
<1>9. RefRight'
  <2> SUFFICES ASSUME NEW g \in Frames
               PROVE  ref'[g] = Cardinality(Counted(g)')
    BY DEF RefRight
  <2>1. ref[g] = Cardinality(Counted(g)) /\ ref \in [Frames -> Int]
    BY DEF CowInv, RefRight, Layout, CowTypes
  <2>2. CASE g = n
    <3>1. Cardinality(Counted(g)') = Cardinality(Counted(g)) + 1
      <4>1. ~CountedAt(p, page[p], g)
        BY <1>2, <1>5, <2>2 DEF CountedAt
      <4>2. \A q \in Procs, w \in Pages :
              CountedAt(q, w, g)' <=> (CountedAt(q, w, g) \/ (q = p /\ w = page[p]))
        BY <1>2, <1>5, <1>6, <1>7, <1>8, <2>2 DEF CountedAt
      <4> QED BY <1>2, <4>1, <4>2, CountMore
    <3> QED BY <1>1, <1>3, <1>4, <1>5, <2>1, <2>2, <3>1
  <2>3. CASE g = f
    <3>1. Cardinality(Counted(g)') = Cardinality(Counted(g)) - 1
      <4>1. CountedAt(p, page[p], g)
        BY <1>4, <1>8, <2>3 DEF CountedAt
      <4>2. \A q \in Procs, w \in Pages :
              CountedAt(q, w, g)' <=> (CountedAt(q, w, g) /\ ~(q = p /\ w = page[p]))
        BY <1>2, <1>5, <1>6, <1>7, <1>8, <2>3 DEF CountedAt
      <4> QED BY <1>2, <4>1, <4>2, CountLess
    <3> QED BY <1>1, <1>3, <1>4, <1>5, <2>1, <2>3, <3>1
  <2>4. CASE g # n /\ g # f
    <3>1. Counted(g)' = Counted(g)
      <4>1. \A q \in Procs, w \in Pages : CountedAt(q, w, g)' <=> CountedAt(q, w, g)
        BY <1>4, <1>6, <1>7, <2>4 DEF CountedAt
      <4> QED BY <4>1, CountSame
    <3> QED BY <1>1, <2>1, <2>4, <3>1
  <2> QED BY <2>2, <2>3, <2>4
<1>10. FreeUnmapped'
  BY <1>1, <1>6 DEF CowInv, Sharing, FreeUnmapped, Copies
<1>11. Copies'
  <2>1. ASSUME NEW r \in Procs, r # p, pc[r] = "pf_count"
        PROVE  /\ \A q \in Procs, w \in Pages : FrameOf(q, w)' # new[r]
               /\ \A q \in Procs : pc'[q] = "pf_count" /\ new[q] = new[r] => q = r
    BY <1>1, <1>6, <2>1 DEF CowInv, Sharing, Copies
  <2>2. ASSUME NEW r \in Procs, r # p, pc[r] = "pf_map",
               NEW q \in Procs, NEW w \in Pages, FrameOf(q, w)' = new[r]
        PROVE  q = r /\ w = page[r]
    <3>1. page[r] \in Pages
      <4>1. page[r] \in 1..MaxPages + 1 /\ sz[r] \in 0..MaxPages
        BY DEF CowInv, Layout, CowTypes
      <4>2. page[r] <= sz[r]
        BY <2>2 DEF CowInv, Layout, Places, Faulting
      <4> QED BY <4>1, <4>2, CowAssumption DEF Pages
    <3>2. FrameOf(r, page[r]) = new[r]
      BY <2>2 DEF FrameOf
    <3>3. new[r] # n
      BY <1>5, <3>1, <3>2
    <3> QED BY <1>6, <2>2, <3>3 DEF CowInv, Sharing, Copies
  <2>3. \A q \in Procs, w \in Pages : FrameOf(q, w)' = n => q = p /\ w = page[p]
    BY <1>5, <1>6
  <2> QED BY <1>1, <2>1, <2>2, <2>3 DEF CowInv, Sharing, Copies
<1>12. Alone'
  <2> SUFFICES ASSUME NEW q \in Procs, NEW w \in Pages, writable[q][w],
                      pt[q][w] # NoFrame,
                      NEW r \in Procs, NEW x \in Pages, FrameOf(r, x)' = pt[q][w]
               PROVE  r = q /\ x = w
    BY <1>1 DEF Alone
  <2>1. FrameOf(q, w) = pt[q][w]
    BY WritableFrame DEF CowInv
  <2>2. pt[q][w] # n
    BY <1>5, <2>1
  <2> QED BY <1>6, <2>2 DEF CowInv, Sharing, Alone
<1> QED BY <1>9, <1>10, <1>11, <1>12 DEF CowInv, Sharing

LEMMA FaultMapKeeps ==
  ASSUME CowInv, Layout', NEW p \in Procs, FaultMap(p)
  PROVE  CowInv'
<1>1. /\ pc[p] = "pf_map" /\ pc'[p] = "user"
      /\ \A q \in Procs : q # p => /\ pc'[q] = pc[q] /\ page'[q] = page[q]
                                   /\ new'[q] = new[q]
      /\ UNCHANGED <<free, ref, child>>
      /\ pt' = [pt EXCEPT ![p][page[p]] = new[p]]
      /\ writable' = [writable EXCEPT ![p][page[p]] = TRUE]
  BY DEF FaultMap, At, Goto, CowInv, Layout, CowTypes
<1>2. pt \in [Procs -> [Pages -> Frames \cup {NoFrame}]]
  BY DEF CowInv, Layout, CowTypes
<1>3. \A q \in Procs, w \in Pages :
        pt'[q][w] = IF q = p /\ w = page[p] THEN new[p] ELSE pt[q][w]
  BY <1>1, <1>2
<1>4. \A q \in Procs, w \in Pages :
        writable'[q][w] => writable[q][w] \/ (q = p /\ w = page[p])
  BY <1>1 DEF CowInv, Layout, CowTypes
<1>5. \A q \in Procs, w \in Pages : FrameOf(q, w)' = FrameOf(q, w)
  BY <1>1, <1>3 DEF FrameOf
<1>6. \A q \in Procs, w \in Pages : Pending(q, w)' <=> Pending(q, w)
  BY <1>1 DEF Pending
<1>7. RefRight'
  BY <1>1, <1>5, <1>6, RefSame DEF CowInv
<1>8. FreeUnmapped'
  BY <1>1, <1>5 DEF CowInv, Sharing, FreeUnmapped
<1>9. Copies'
  BY <1>1, <1>5 DEF CowInv, Sharing, Copies
<1>10. Alone'
  BY <1>1, <1>3, <1>4, <1>5 DEF CowInv, Sharing, Copies, Alone
<1> QED BY <1>7, <1>8, <1>9, <1>10 DEF CowInv, Sharing

LEMMA ForkKeeps ==
  ASSUME CowInv, Layout', NEW p \in Procs,
         (\E q \in Procs : Fork(p, q)) \/ ForkDone(p)
  PROVE  CowInv'
<1>1. PICK q \in Procs :
        /\ pc[p] \in {"user", "fork_map"} /\ pc[q] \in {"unused", "embryo"}
        /\ pc'[p] \in {"user", "fork_map"} /\ pc'[q] \in {"user", "embryo"}
        /\ \A r \in Procs : r \notin {p, q} => pc'[r] = pc[r]
        /\ \A r \in Procs : r # p => page'[r] = page[r] /\ child'[r] = child[r]
        /\ UNCHANGED <<free, ref, pt, writable, new>>
  <2>1. ASSUME NEW q \in Procs, Fork(p, q)
        PROVE  /\ pc[p] = "user" /\ pc[q] = "unused"
               /\ pc'[p] = "fork_map" /\ pc'[q] = "embryo"
               /\ \A r \in Procs : r \notin {p, q} => pc'[r] = pc[r]
               /\ \A r \in Procs :
                    r # p => page'[r] = page[r] /\ child'[r] = child[r]
               /\ UNCHANGED <<free, ref, pt, writable, new>>
    BY <2>1 DEF Fork, At, tables, CowInv, Layout, CowTypes
  <2>2. ASSUME ForkDone(p)
        PROVE  /\ pc[p] = "fork_map" /\ pc[child[p]] = "embryo"
               /\ child[p] \in Procs
               /\ pc'[p] = "user" /\ pc'[child[p]] = "user"
               /\ \A r \in Procs : r \notin {p, child[p]} => pc'[r] = pc[r]
               /\ \A r \in Procs :
                    r # p => page'[r] = page[r] /\ child'[r] = child[r]
               /\ UNCHANGED <<free, ref, pt, writable, new>>
    <3>1. pc[p] = "fork_map" /\ child[p] \in Procs
      BY <2>2 DEF ForkDone, At, CowInv, Layout, CowTypes
    <3>2. pc[child[p]] = "embryo"
      BY <3>1 DEF CowInv, Layout, Forks, Forking
    <3>3. child[p] # p
      BY <3>1, <3>2
    <3> QED BY <2>2, <3>1, <3>2, <3>3 DEF ForkDone, CowInv, Layout, CowTypes
  <2>3. CASE \E q \in Procs : Fork(p, q)
    BY <2>1, <2>3
  <2>4. CASE ForkDone(p)
    BY <2>2, <2>4
  <2> QED BY <2>3, <2>4
<1>2. \A r \in Procs, w \in Pages : FrameOf(r, w)' = FrameOf(r, w)
  BY <1>1 DEF FrameOf
<1>3. \A r \in Procs, w \in Pages : Pending(r, w)' <=> Pending(r, w)
  BY <1>1 DEF Pending
<1>4. RefRight'
  BY <1>1, <1>2, <1>3, RefSame DEF CowInv
<1>5. FreeUnmapped' /\ Alone'
  BY <1>1, <1>2 DEF CowInv, Sharing, FreeUnmapped, Alone
<1>6. Copies'
  BY <1>1, <1>2 DEF CowInv, Sharing, Copies
<1> QED BY <1>4, <1>5, <1>6 DEF CowInv, Sharing

LEMMA ForkMapKeeps ==
  ASSUME CowInv, Layout', NEW p \in Procs, ForkMap(p)
  PROVE  CowInv'
<1> DEFINE v == page[p]
           c == child[p]
           f == pt[p][v]
<1>1. /\ pc[p] = "fork_map" /\ v <= sz[p] /\ pc'[p] = "fork_count"
      /\ \A q \in Procs : q # p => pc'[q] = pc[q]
      /\ UNCHANGED <<free, ref, page, child, new>>
      /\ pt' = [pt EXCEPT ![c][v] = f]
      /\ writable' = [writable EXCEPT ![p][v] = FALSE]
  BY DEF ForkMap, ClearedW, At, Goto, locals, CowInv, Layout, CowTypes
<1>2. v \in Pages /\ c \in Procs
  <2>1. page[p] \in 1..MaxPages + 1 /\ sz[p] \in 0..MaxPages /\ child[p] \in Procs
    BY DEF CowInv, Layout, CowTypes
  <2> QED BY <1>1, <2>1, CowAssumption DEF Pages
<1>3. /\ pc[c] = "embryo" /\ c # p
      /\ \A q \in Procs : pc[q] \in Forking /\ child[q] = c => q = p
  BY <1>1, <1>2 DEF CowInv, Layout, Forks, Forking
<1>4. f \in Frames
  BY <1>1, <1>2, Mapped DEF CowInv, Layout, Bare
<1>5. pt[c][v] = NoFrame
  <2>1. v \in Int /\ ~(v < v)
    BY <1>2 DEF Pages
  <2> QED BY <1>1, <1>2, <2>1 DEF CowInv, Layout, Forks, Forking
<1>6. \A q \in Procs, w \in Pages :
        pt'[q][w] = IF q = c /\ w = v THEN f ELSE pt[q][w]
  BY <1>1, <1>2 DEF CowInv, Layout, CowTypes
<1>7. \A q \in Procs, w \in Pages :
        FrameOf(q, w)' = IF q = c /\ w = v THEN f ELSE FrameOf(q, w)
  BY <1>1, <1>3, <1>6 DEF FrameOf
<1>8. \A q \in Procs, w \in Pages :
        Pending(q, w)' <=> (Pending(q, w) \/ (q = c /\ w = v))
  BY <1>1 DEF Pending
<1>9. FrameOf(c, v) = NoFrame /\ FrameOf(p, v) = f
  BY <1>1, <1>3, <1>5 DEF FrameOf
<1>10. RefRight'
  <2>1. ASSUME NEW g \in Frames PROVE Counted(g)' = Counted(g)
    <3>1. \A q \in Procs, w \in Pages : CountedAt(q, w, g)' <=> CountedAt(q, w, g)
      BY <1>7, <1>8, <1>9, CowAssumption DEF CountedAt
    <3> QED BY <3>1, CountSame
  <2> QED BY <1>1, <2>1 DEF CowInv, RefRight
<1>11. FreeUnmapped'
  BY <1>1, <1>2, <1>7, <1>9 DEF CowInv, Sharing, FreeUnmapped
<1>12. Copies'
  BY <1>1, <1>2, <1>7, <1>9 DEF CowInv, Sharing, Copies
<1>13. Alone'
  <2> SUFFICES ASSUME NEW q \in Procs, NEW w \in Pages, writable'[q][w],
                      pt'[q][w] # NoFrame,
                      NEW r \in Procs, NEW x \in Pages,
                      FrameOf(r, x)' = pt'[q][w]
               PROVE  r = q /\ x = w
    BY DEF Alone
  <2>1. writable[q][w] /\ ~(q = p /\ w = v)
    BY <1>1, <1>2 DEF CowInv, Layout, CowTypes
  <2>2. q # c
    BY <1>3, <2>1 DEF CowInv, Layout, Extents, Bare
  <2>3. pt'[q][w] = pt[q][w] /\ pt[q][w] # f
    BY <1>2, <1>6, <1>9, <2>1, <2>2 DEF CowInv, Sharing, Alone
  <2> QED BY <1>7, <2>1, <2>3 DEF CowInv, Sharing, Alone
<1> QED BY <1>10, <1>11, <1>12, <1>13 DEF CowInv, Sharing

LEMMA ForkCountKeeps ==
  ASSUME CowInv, Layout', NEW p \in Procs, ForkCount(p)
  PROVE  CowInv'
<1> DEFINE v == page[p]
           c == child[p]
           f == pt[p][v]
<1>1. /\ pc[p] = "fork_count" /\ pc'[p] = "fork_map"
      /\ \A q \in Procs : q # p => pc'[q] = pc[q] /\ page'[q] = page[q]
      /\ UNCHANGED <<free, pt, writable, child, new>>
      /\ ref' = [ref EXCEPT ![f] = @ + 1]
  BY DEF ForkCount, Shared, At, Goto, tables, CowInv, Layout, CowTypes
<1>2. v \in Pages /\ v <= sz[p] /\ c \in Procs
  <2>1. page[p] \in 1..MaxPages + 1 /\ sz[p] \in 0..MaxPages /\ child[p] \in Procs
    BY DEF CowInv, Layout, CowTypes
  <2>2. page[p] <= sz[p]
    BY <1>1 DEF CowInv, Layout, Forks, Forking
  <2> QED BY <2>1, <2>2, CowAssumption DEF Pages
<1>3. /\ pc[c] = "embryo" /\ pt[c][v] = f
      /\ \A q \in Procs : pc[q] \in Forking /\ child[q] = c => q = p
  BY <1>1, <1>2 DEF CowInv, Layout, Forks, Forking
<1>4. f \in Frames
  BY <1>1, <1>2, Mapped DEF CowInv, Layout, Bare
<1>5. \A q \in Procs, w \in Pages : FrameOf(q, w)' = FrameOf(q, w)
  BY <1>1 DEF FrameOf
<1>6. Pending(c, v) /\ FrameOf(c, v) = f
  BY <1>1, <1>3 DEF Pending, FrameOf
<1>7. \A q \in Procs, w \in Pages :
        Pending(q, w)' <=> (Pending(q, w) /\ ~(q = c /\ w = v))
  BY <1>1, <1>3 DEF Pending, Forking
<1>8. RefRight'
  <2> SUFFICES ASSUME NEW g \in Frames
               PROVE  ref'[g] = Cardinality(Counted(g)')
    BY DEF RefRight
  <2>1. ref[g] = Cardinality(Counted(g)) /\ ref \in [Frames -> Int]
    BY DEF CowInv, RefRight, Layout, CowTypes
  <2>2. CASE g = f
    <3>1. ~CountedAt(c, v, g)
      BY <1>6 DEF CountedAt
    <3>2. \A q \in Procs, w \in Pages :
            CountedAt(q, w, g)' <=> (CountedAt(q, w, g) \/ (q = c /\ w = v))
      BY <1>5, <1>6, <1>7, <2>2 DEF CountedAt
    <3>3. Cardinality(Counted(g)') = Cardinality(Counted(g)) + 1
      BY <1>2, <3>1, <3>2, CountMore
    <3> QED BY <1>1, <2>1, <2>2, <3>3
  <2>3. CASE g # f
    <3>1. \A q \in Procs, w \in Pages : CountedAt(q, w, g)' <=> CountedAt(q, w, g)
      BY <1>5, <1>6, <1>7, <2>3 DEF CountedAt
    <3>2. Counted(g)' = Counted(g)
      BY <3>1, CountSame
    <3> QED BY <1>1, <2>1, <2>3, <3>2
  <2> QED BY <2>2, <2>3
<1>9. FreeUnmapped' /\ Alone'
  BY <1>1, <1>5 DEF CowInv, Sharing, FreeUnmapped, Alone
<1>10. Copies'
  BY <1>1, <1>5 DEF CowInv, Sharing, Copies
<1> QED BY <1>8, <1>9, <1>10 DEF CowInv, Sharing

LEMMA ForkFailKeeps ==
  ASSUME CowInv, Layout', NEW p \in Procs, ForkFail(p)
  PROVE  CowInv'
<1> DEFINE c == child[p]
<1>1. /\ pc[p] = "fork_map" /\ page[p] <= sz[p] /\ Drop(c, Pages)
      /\ pc' = [pc EXCEPT ![p] = "user", ![c] = "unused"]
      /\ page' = [page EXCEPT ![p] = 1]
      /\ child' = [child EXCEPT ![p] = p] /\ new' = new
      /\ pt' = [pt EXCEPT ![c] = NoPages]
      /\ writable' = [writable EXCEPT ![p][page[p]] = FALSE]
  BY DEF ForkFail, At
<1>2. /\ c \in Procs /\ pc[c] = "embryo" /\ c # p
      /\ \A q \in Procs : pc[q] \in Forking /\ child[q] = c => q = p
  BY <1>1 DEF CowInv, Layout, CowTypes, Forks, Forking
<1>3. /\ pc'[p] = "user" /\ pc'[c] = "unused"
      /\ \A q \in Procs : q \notin {p, c} => pc'[q] = pc[q]
      /\ \A q \in Procs : q # p => page'[q] = page[q] /\ child'[q] = child[q]
  BY <1>1, <1>2 DEF CowInv, Layout, CowTypes
<1>4. \A q \in Procs, w \in Pages : pt'[q][w] = IF q = c THEN NoFrame ELSE pt[q][w]
  BY <1>1, <1>2 DEF CowInv, Layout, CowTypes, NoPages
<1>5. \A q \in Procs, w \in Pages : writable'[q][w] => writable[q][w]
  BY <1>1 DEF CowInv, Layout, CowTypes
<1>6. Cleared(c, Pages)
  <2>1. \A v \in Pages : FrameOf(c, v) = pt[c][v] /\ ~Pending(c, v)
    BY <1>1, <1>2 DEF FrameOf, Pending, Forking
  <2>2. \A q \in Procs, v \in Pages :
          FrameOf(q, v)' = IF q = c /\ v \in Pages THEN NoFrame ELSE FrameOf(q, v)
    <3>1. \A q \in Procs : pc'[q] = "pf_map" <=> pc[q] = "pf_map"
      BY <1>1, <1>2, <1>3
    <3>2. \A q \in Procs : pc[q] = "pf_map" => page'[q] = page[q] /\ q # c
      BY <1>1, <1>2, <1>3
    <3>3. new' = new
      BY <1>1
    <3> QED BY <1>2, <1>4, <3>1, <3>2, <3>3 DEF FrameOf
  <2>3. \A q \in Procs, v \in Pages : Pending(q, v)' <=> Pending(q, v)
    BY <1>1, <1>2, <1>3 DEF Pending
  <2> QED BY <1>1, <2>1, <2>2, <2>3 DEF Cleared
<1>7. RefRight'
  BY <1>2, <1>6, RefCleared DEF CowInv, Layout
<1>8. \A r \in Procs : pc'[r] \in {"pf_count", "pf_map"} =>
        pc'[r] = pc[r] /\ new'[r] = new[r] /\ page'[r] = page[r]
  BY <1>1, <1>3
<1>9. \A r \in Procs, v \in Pages :
        writable'[r][v] => writable[r][v] /\ pt'[r][v] \in {pt[r][v], NoFrame}
  BY <1>4, <1>5
<1>10. Sharing'
  BY <1>2, <1>6, <1>7, <1>8, <1>9, SharingCleared DEF CowInv
<1> QED BY <1>7, <1>10 DEF CowInv

LEMMA GrowKeeps ==
  ASSUME CowInv, Layout', NEW p \in Procs, Grow(p)
  PROVE  CowInv'
<1> DEFINE v == sz[p] + 1
<1>1. pc[p] = "user" /\ v \in Pages /\ UNCHANGED <<pc, page, child, new>>
  BY DEF Grow, At, locals
<1>2. pt[p][v] = NoFrame
  <2>1. sz[p] \in Int /\ ~(v <= sz[p])
    BY CowAssumption DEF CowInv, Layout, CowTypes
  <2> QED BY <1>1, <2>1 DEF CowInv, Layout, Extents, Bare
<1>3. PICK f \in free :
        /\ free' = free \ {f} /\ pt' = [pt EXCEPT ![p][v] = f]
        /\ writable' = [writable EXCEPT ![p][v] = TRUE]
        /\ ref' = [ref EXCEPT ![f] = @ + 1]
  BY <1>2 DEF Grow
<1>4. f \in Frames
  BY DEF CowInv, Layout, CowTypes
<1>5. \A q \in Procs, w \in Pages :
        /\ pt'[q][w] = IF q = p /\ w = v THEN f ELSE pt[q][w]
        /\ writable'[q][w] => writable[q][w] \/ (q = p /\ w = v)
  BY <1>1, <1>3 DEF CowInv, Layout, CowTypes
<1>6. \A q \in Procs, w \in Pages :
        FrameOf(q, w)' = IF q = p /\ w = v THEN f ELSE FrameOf(q, w)
  BY <1>1, <1>5 DEF FrameOf
<1>7. \A q \in Procs, w \in Pages : Pending(q, w)' <=> Pending(q, w)
  BY <1>1 DEF Pending
<1>8. ~Pending(p, v) /\ FrameOf(p, v) = NoFrame
  BY <1>1, <1>2, Settled DEF CowInv, FrameOf
<1>9. \A q \in Procs, w \in Pages : FrameOf(q, w) # f
  BY DEF CowInv, Sharing, FreeUnmapped
<1>10. RefRight'
  <2> SUFFICES ASSUME NEW g \in Frames
               PROVE  ref'[g] = Cardinality(Counted(g)')
    BY DEF RefRight
  <2>1. ref[g] = Cardinality(Counted(g)) /\ ref \in [Frames -> Int]
    BY DEF CowInv, RefRight, Layout, CowTypes
  <2>2. CASE g = f
    <3>1. ~CountedAt(p, v, g)
      BY <1>1, <1>9, <2>2 DEF CountedAt
    <3>2. \A q \in Procs, w \in Pages :
            CountedAt(q, w, g)' <=> (CountedAt(q, w, g) \/ (q = p /\ w = v))
      BY <1>6, <1>7, <1>8, <2>2 DEF CountedAt
    <3>3. Cardinality(Counted(g)') = Cardinality(Counted(g)) + 1
      BY <1>1, <3>1, <3>2, CountMore
    <3> QED BY <1>3, <2>1, <2>2, <3>3
  <2>3. CASE g # f
    <3>1. \A q \in Procs, w \in Pages : CountedAt(q, w, g)' <=> CountedAt(q, w, g)
      BY <1>6, <1>7, <1>8, <2>3, CowAssumption DEF CountedAt
    <3>2. Counted(g)' = Counted(g)
      BY <3>1, CountSame
    <3> QED BY <1>3, <2>1, <2>3, <3>2
  <2> QED BY <2>2, <2>3
<1>11. FreeUnmapped'
  BY <1>3, <1>6 DEF CowInv, Sharing, FreeUnmapped
<1>12. Copies'
  BY <1>1, <1>3, <1>6 DEF CowInv, Sharing, Copies
<1>13. Alone'
  <2> SUFFICES ASSUME NEW q \in Procs, NEW w \in Pages, writable'[q][w],
                      pt'[q][w] # NoFrame,
                      NEW r \in Procs, NEW x \in Pages,
                      FrameOf(r, x)' = pt'[q][w]
               PROVE  r = q /\ x = w
    BY DEF Alone
  <2>1. CASE q = p /\ w = v
    BY <1>5, <1>6, <1>9, <2>1
  <2>2. CASE ~(q = p /\ w = v)
    <3>1. writable[q][w] /\ pt'[q][w] = pt[q][w]
      BY <1>5, <2>2
    <3>2. pt[q][w] # f
      BY <1>9, <3>1, WritableFrame DEF CowInv
    <3> QED BY <1>6, <3>1, <3>2 DEF CowInv, Sharing, Alone
  <2> QED BY <2>1, <2>2
<1> QED BY <1>10, <1>11, <1>12, <1>13 DEF CowInv, Sharing

LEMMA ShrinkKeeps ==
  ASSUME CowInv, Layout', ~ShrinkShared, NEW p \in Procs, Shrink(p)
  PROVE  CowInv'
<1> DEFINE u == sz[p]
<1>1. pc[p] = "user" /\ u > 1 /\ ref[pt[p][u]] = 1 /\ Drop(p, {u})
  BY DEF Shrink, At
<1>2. u \in Pages
  BY <1>1, CowAssumption DEF CowInv, Layout, CowTypes, Pages
<1>3. pt[p][u] \in Frames
  <2>1. u <= sz[p]
    BY <1>2 DEF Pages
  <2> QED BY <1>1, <1>2, <2>1, Mapped DEF CowInv, Layout, Bare
<1>4. Times(p, {u}, pt[p][u]) = 1
  <2>1. {w \in {u} : pt[p][w] = pt[p][u]} = {u}
    OBVIOUS
  <2> QED BY <2>1, FS_Singleton DEF Times
<1>5. ref'[pt[p][u]] = 0
  BY <1>1, <1>3, <1>4 DEF Drop, Left
<1>6. /\ pt' = [pt EXCEPT ![p][u] = NoFrame]
      /\ writable' = [writable EXCEPT ![p][u] = FALSE]
      /\ UNCHANGED <<pc, page, child, new>>
  BY <1>5 DEF Shrink, locals
<1>7. \A q \in Procs, w \in Pages :
        /\ pt'[q][w] = IF q = p /\ w = u THEN NoFrame ELSE pt[q][w]
        /\ writable'[q][w] => writable[q][w]
  BY <1>2, <1>6 DEF CowInv, Layout, CowTypes
<1>8. Cleared(p, {u})
  <2>1. FrameOf(p, u) = pt[p][u] /\ ~Pending(p, u)
    BY <1>1, <1>2, Settled DEF CowInv, FrameOf
  <2>2. \A q \in Procs, v \in Pages :
          FrameOf(q, v)' = IF q = p /\ v \in {u} THEN NoFrame ELSE FrameOf(q, v)
    BY <1>1, <1>6, <1>7 DEF FrameOf
  <2>3. \A q \in Procs, v \in Pages : Pending(q, v)' <=> Pending(q, v)
    BY <1>6 DEF Pending
  <2> QED BY <1>1, <2>1, <2>2, <2>3 DEF Cleared
<1>9. {u} \in SUBSET Pages
  BY <1>2
<1>10. RefRight'
  BY <1>8, <1>9, RefCleared DEF CowInv, Layout
<1>11. Sharing'
  <2>1. \A r \in Procs : pc'[r] = pc[r] /\ new'[r] = new[r] /\ page'[r] = page[r]
    BY <1>6
  <2>2. \A r \in Procs, v \in Pages :
          writable'[r][v] => writable[r][v] /\ pt'[r][v] \in {pt[r][v], NoFrame}
    BY <1>7
  <2> QED BY <1>8, <1>9, <1>10, <2>1, <2>2, SharingCleared DEF CowInv
<1> QED BY <1>10, <1>11 DEF CowInv

LEMMA ExitKeeps ==
  ASSUME CowInv, Layout', NEW p \in Procs, Exit(p)
  PROVE  CowInv'
<1>1. /\ pc[p] \in {"user", "killed"} /\ pc'[p] = "unused" /\ Drop(p, Pages)
      /\ \A q \in Procs : q # p => pc'[q] = pc[q] /\ page'[q] = page[q]
      /\ UNCHANGED <<child, new>>
  BY DEF Exit, Goto, CowInv, Layout, CowTypes
<1>2. \A q \in Procs, w \in Pages :
        /\ pt'[q][w] = IF q = p THEN NoFrame ELSE pt[q][w]
        /\ writable'[q][w] => writable[q][w]
  BY DEF Exit, NoPages, ReadOnly, CowInv, Layout, CowTypes
<1>3. Cleared(p, Pages)
  <2>1. \A v \in Pages : FrameOf(p, v) = pt[p][v] /\ ~Pending(p, v)
    BY <1>1, Settled DEF CowInv, FrameOf
  <2>2. \A q \in Procs, v \in Pages :
          FrameOf(q, v)' = IF q = p /\ v \in Pages THEN NoFrame ELSE FrameOf(q, v)
    BY <1>1, <1>2 DEF FrameOf
  <2>3. \A q \in Procs, v \in Pages : Pending(q, v)' <=> Pending(q, v)
    BY <1>1 DEF Pending
  <2> QED BY <1>1, <2>1, <2>2, <2>3 DEF Cleared
<1>4. RefRight'
  BY <1>3, RefCleared DEF CowInv, Layout
<1>5. Sharing'
  <2>1. \A r \in Procs : pc'[r] \in {"pf_count", "pf_map"} =>
          pc'[r] = pc[r] /\ new'[r] = new[r] /\ page'[r] = page[r]
    BY <1>1
  <2>2. \A r \in Procs, v \in Pages :
          writable'[r][v] => writable[r][v] /\ pt'[r][v] \in {pt[r][v], NoFrame}
    BY <1>2
  <2> QED BY <1>3, <1>4, <2>1, <2>2, SharingCleared DEF CowInv
<1> QED BY <1>4, <1>5 DEF CowInv

LEMMA ExecKeeps ==
  ASSUME CowInv, Layout', NEW p \in Procs, Exec(p)
  PROVE  CowInv'
<1>1. PICK k \in Pages : \E mem \in Injection(1..k, free) :
        /\ pt' = [pt EXCEPT ![p] =
                    [v \in Pages |-> IF v <= k THEN mem[v] ELSE NoFrame]]
        /\ writable' = [writable EXCEPT ![p] = [v \in Pages |-> v <= k]]
        /\ free' = (free \ Range(mem)) \cup Freed(p, Pages)
        /\ ref' = [f \in Frames |->
                     Left(p, Pages)[f] + IF f \in Range(mem) THEN 1 ELSE 0]
  BY DEF Exec
<1>2. PICK mem \in Injection(1..k, free) :
        /\ pt' = [pt EXCEPT ![p] =
                    [v \in Pages |-> IF v <= k THEN mem[v] ELSE NoFrame]]
        /\ writable' = [writable EXCEPT ![p] = [v \in Pages |-> v <= k]]
        /\ free' = (free \ Range(mem)) \cup Freed(p, Pages)
        /\ ref' = [f \in Frames |->
                     Left(p, Pages)[f] + IF f \in Range(mem) THEN 1 ELSE 0]
  BY <1>1
<1>3. /\ mem \in [1..k -> free]
      /\ \A v, w \in 1..k : mem[v] = mem[w] => v = w
      /\ \A f : f \in Range(mem) <=> \E v \in 1..k : f = mem[v]
  BY DEF Injection, IsInjective, Range
<1>4. pc[p] = "user" /\ UNCHANGED <<pc, page, child, new>> /\ free \subseteq Frames
  BY DEF Exec, At, locals, CowInv, Layout, CowTypes
<1>5. \A v \in Pages : v <= k <=> v \in 1..k
  BY DEF Pages
<1>6. \A q \in Procs, w \in Pages :
        /\ pt'[q][w] = IF q # p THEN pt[q][w]
                       ELSE IF w \in 1..k THEN mem[w] ELSE NoFrame
        /\ writable'[q][w] => (q # p /\ writable[q][w]) \/ (q = p /\ w \in 1..k)
  BY <1>2, <1>5 DEF CowInv, Layout, CowTypes
<1>7. \A q \in Procs, w \in Pages :
        FrameOf(q, w)' = IF q # p THEN FrameOf(q, w)
                         ELSE IF w \in 1..k THEN mem[w] ELSE NoFrame
  BY <1>4, <1>6 DEF FrameOf
<1>8. \A q \in Procs, w \in Pages : Pending(q, w)' <=> Pending(q, w)
  BY <1>4 DEF Pending
<1>9. \A w \in Pages : ~Pending(p, w) /\ FrameOf(p, w) = pt[p][w]
  BY <1>4, Settled DEF CowInv, FrameOf
<1>10. \A f \in free, q \in Procs, w \in Pages : FrameOf(q, w) # f
  BY DEF CowInv, Sharing, FreeUnmapped
<1>11. ASSUME NEW f \in Frames, f \notin Range(mem)
       PROVE  ref'[f] = Left(p, Pages)[f] /\ ref'[f] = Cardinality(Counted(f)')
  <2>1. ref[f] = Cardinality(Counted(f)) /\ Times(p, Pages, f) \in Nat
        /\ ref[f] \in Int
    BY TimesIs DEF CowInv, RefRight, Layout, CowTypes
  <2>2. Left(p, Pages)[f] = ref[f] - Times(p, Pages, f)
    BY DEF Left
  <2>3. ref'[f] = ref[f] - Times(p, Pages, f)
    BY <1>2, <1>11, <2>1, <2>2
  <2>4. \A v \in Pages : CountedAt(p, v, f) <=> pt[p][v] = f
    BY <1>9 DEF CountedAt
  <2>5. \A q \in Procs, v \in Pages :
          CountedAt(q, v, f)' <=> (CountedAt(q, v, f) /\ ~(q = p /\ v \in Pages))
    BY <1>3, <1>7, <1>8, <1>11, CowAssumption DEF CountedAt
  <2>6. Cardinality(Counted(f)') = Cardinality(Counted(f)) - Times(p, Pages, f)
    BY <2>4, <2>5, CountDrop
  <2> QED BY <2>1, <2>2, <2>3, <2>6
<1>12. ASSUME NEW f \in Range(mem)
       PROVE  ref'[f] = Cardinality(Counted(f)')
  <2>1. f \in free /\ f \in Frames
    BY <1>3, <1>4
  <2>2. PICK u \in 1..k : f = mem[u]
    BY <1>3
  <2>3. u \in Pages
    BY CowAssumption DEF Pages
  <2>4. \A q \in Procs, w \in Pages : ~CountedAt(q, w, f)
    BY <1>10, <2>1 DEF CountedAt
  <2>5. Counted(f) = {}
    BY <2>4 DEF Counted
  <2>6. ref[f] = 0
    BY <2>1, <2>5, FS_EmptySet DEF CowInv, RefRight
  <2>7. Times(p, Pages, f) = 0
    <3>1. {v \in Pages : pt[p][v] = f} = {}
      BY <1>9, <1>10, <2>1
    <3> QED BY <3>1, FS_EmptySet DEF Times
  <2>8. ref'[f] = 1
    <3>1. Left(p, Pages)[f] = 0
      BY <2>1, <2>6, <2>7 DEF Left
    <3> QED BY <1>2, <2>1, <3>1
  <2>9. \A q \in Procs, w \in Pages :
          CountedAt(q, w, f)' <=> (CountedAt(q, w, f) \/ (q = p /\ w = u))
    BY <1>3, <1>7, <1>8, <1>9, <2>1, <2>2, <2>4, CowAssumption DEF CountedAt
  <2>10. Cardinality(Counted(f)') = Cardinality(Counted(f)) + 1
    BY <2>3, <2>4, <2>9, CountMore
  <2> QED BY <2>5, <2>8, <2>10, FS_EmptySet
<1>13. RefRight'
  BY <1>11, <1>12 DEF RefRight
<1>14. ASSUME NEW f \in Freed(p, Pages)
       PROVE  /\ f \in Frames /\ f \notin free
              /\ \E w \in Pages : FrameOf(p, w) = f
              /\ \A q \in Procs, w \in Pages : FrameOf(q, w)' # f
  <2>1. f \in Frames /\ \E w \in Pages : FrameOf(p, w) = f
    BY <1>9, FreedMapped DEF CowInv, Layout
  <2>2. f \notin free
    BY <1>10, <2>1
  <2>3. f \notin Range(mem)
    BY <1>3, <2>2
  <2>4. ref'[f] = Left(p, Pages)[f]
    BY <1>11, <2>1, <2>3
  <2>5. \A q \in Procs, w \in Pages : FrameOf(q, w)' # f
    BY <1>13, <2>4, FreedUnmapped DEF CowInv
  <2> QED BY <2>1, <2>2, <2>5
<1>15. FreeUnmapped'
  <2> SUFFICES ASSUME NEW f \in free', NEW q \in Procs, NEW w \in Pages,
                      FrameOf(q, w)' = f
               PROVE  FALSE
    BY DEF FreeUnmapped
  <2>1. f \in free /\ f \notin Range(mem)
    BY <1>2, <1>14
  <2> QED BY <1>3, <1>4, <1>7, <1>10, <2>1, CowAssumption
<1>16. Copies'
  <2> SUFFICES ASSUME NEW r \in Procs, pc[r] \in {"pf_count", "pf_map"}
               PROVE  /\ new[r] \notin free'
                      /\ pc[r] = "pf_count" =>
                           /\ \A q \in Procs, w \in Pages : FrameOf(q, w)' # new[r]
                           /\ \A q \in Procs :
                                pc[q] = "pf_count" /\ new[q] = new[r] => q = r
                      /\ pc[r] = "pf_map" =>
                           \A q \in Procs, w \in Pages :
                             FrameOf(q, w)' = new[r] => q = r /\ w = page[r]
    BY <1>4 DEF Copies
  <2>1. new[r] \in Frames \ free /\ new[r] # NoFrame /\ r # p
    BY <1>4, CowAssumption DEF CowInv, Sharing, Copies, Layout, Places
  <2>2. \A q \in Procs, w \in Pages :
          FrameOf(q, w)' = new[r] => q # p /\ FrameOf(q, w) = new[r]
    BY <1>3, <1>7, <2>1
  <2>3. new[r] \notin Freed(p, Pages)
    BY <1>4, <1>14, <2>1 DEF CowInv, Sharing, Copies
  <2>4. new[r] \notin free'
    BY <1>2, <2>1, <2>3
  <2> QED BY <2>2, <2>4 DEF CowInv, Sharing, Copies
<1>17. Alone'
  <2> SUFFICES ASSUME NEW q \in Procs, NEW w \in Pages, writable'[q][w],
                      pt'[q][w] # NoFrame,
                      NEW r \in Procs, NEW x \in Pages,
                      FrameOf(r, x)' = pt'[q][w]
               PROVE  r = q /\ x = w
    BY DEF Alone
  <2>1. CASE q = p
    <3>1. w \in 1..k /\ pt'[q][w] = mem[w] /\ mem[w] \in free
      BY <1>3, <1>6, <2>1
    <3>2. r = p
      BY <1>7, <1>10, <3>1
    <3> QED BY <1>3, <1>4, <1>7, <2>1, <3>1, <3>2, CowAssumption
  <2>2. CASE q # p
    <3>1. writable[q][w] /\ pt'[q][w] = pt[q][w]
      BY <1>6, <2>2
    <3>2. FrameOf(q, w) = pt[q][w]
      BY <3>1, WritableFrame DEF CowInv
    <3>3. r # p
      BY <1>3, <1>7, <1>10, <3>1, <3>2
    <3> QED BY <1>7, <3>1, <3>3 DEF CowInv, Sharing, Alone
  <2> QED BY <2>1, <2>2
<1> QED BY <1>13, <1>15, <1>16, <1>17 DEF CowInv, Sharing

LEMMA CowStep ==
  ASSUME CowInv, ~ShrinkShared, [Next]_vars
  PROVE  CowInv'
<1>1. Layout'
  BY LayoutStep DEF CowInv
<1>2. CASE UNCHANGED vars \/ \E p \in Procs, v \in Pages, x \in Values : Write(p, v, x)
  <2>1. UNCHANGED <<free, ref, tables, pc, locals>>
    BY <1>2 DEF vars, Write
  <2>2. \A q \in Procs, w \in Pages : FrameOf(q, w)' = FrameOf(q, w)
    BY <2>1 DEF FrameOf, tables, locals
  <2>3. \A q \in Procs, w \in Pages : Pending(q, w)' <=> Pending(q, w)
    BY <2>1 DEF Pending, locals
  <2>4. RefRight'
    BY <2>1, <2>2, <2>3, RefSame DEF CowInv
  <2>5. FreeUnmapped' /\ Alone'
    BY <2>1, <2>2 DEF CowInv, Sharing, FreeUnmapped, Alone, tables
  <2>6. Copies'
    BY <2>1, <2>2 DEF CowInv, Sharing, Copies, locals
  <2> QED BY <1>1, <2>4, <2>5, <2>6 DEF CowInv, Sharing
<1>3. ASSUME NEW p \in Procs,
             \/ \E v \in Pages : Fault(p, v)
             \/ FaultCopy(p) \/ FaultCount(p) \/ FaultMap(p)
      PROVE  CowInv'
  BY <1>1, <1>3, FaultKeeps, FaultCopyKeeps, FaultCountKeeps, FaultMapKeeps
<1>4. ASSUME NEW p \in Procs,
             \/ \E q \in Procs : Fork(p, q)
             \/ ForkMap(p) \/ ForkCount(p) \/ ForkDone(p) \/ ForkFail(p)
      PROVE  CowInv'
  BY <1>1, <1>4, ForkKeeps, ForkMapKeeps, ForkCountKeeps, ForkFailKeeps
<1>5. ASSUME NEW p \in Procs, Grow(p) \/ Shrink(p) \/ Exec(p) \/ Exit(p)
      PROVE  CowInv'
  BY <1>1, <1>5, GrowKeeps, ShrinkKeeps, ExecKeeps, ExitKeeps
<1> QED BY <1>2, <1>3, <1>4, <1>5 DEF Next

LEMMA CowInit == Init => CowInv
<1> SUFFICES ASSUME Init PROVE CowInv
  OBVIOUS
<1>1. Layout
  BY LayoutInit
<1>2. PICK p \in Procs, f \in Frames :
        /\ free = Frames \ {f}
        /\ ref = [g \in Frames |-> IF g = f THEN 1 ELSE 0]
        /\ pt = [q \in Procs |-> [NoPages EXCEPT ![1] = IF q = p THEN f ELSE @]]
        /\ pc = [q \in Procs |-> IF q = p THEN "user" ELSE "unused"]
        /\ writable = [q \in Procs |-> [ReadOnly EXCEPT ![1] = q = p]]
  BY DEF Init
<1>3. 1 \in Pages
  BY CowAssumption DEF Pages
<1>4. \A q \in Procs, w \in Pages :
        /\ FrameOf(q, w) = IF q = p /\ w = 1 THEN f ELSE NoFrame
        /\ ~Pending(q, w)
  BY <1>2, <1>3 DEF FrameOf, NoPages, Pending
<1>5. f # NoFrame /\ \A g \in Frames : g # NoFrame
  BY CowAssumption
<1>6. RefRight
  <2> SUFFICES ASSUME NEW g \in Frames PROVE ref[g] = Cardinality(Counted(g))
    BY DEF RefRight
  <2>1. CASE g = f
    <3>1. Counted(g) = {<<p, 1>>}
      BY <1>3, <1>4, <1>5, <2>1 DEF Counted, CountedAt
    <3> QED BY <1>2, <2>1, <3>1, FS_Singleton
  <2>2. CASE g # f
    <3>1. Counted(g) = {}
      BY <1>4, <1>5, <2>2 DEF Counted, CountedAt
    <3> QED BY <1>2, <2>2, <3>1, FS_EmptySet
  <2> QED BY <2>1, <2>2
<1>7. FreeUnmapped /\ Copies
  BY <1>2, <1>4, <1>5 DEF FreeUnmapped, Copies
<1>8. Alone
  <2>1. \A q \in Procs, w \in Pages : writable[q][w] => q = p /\ w = 1
    BY <1>2, <1>3 DEF ReadOnly
  <2>2. pt[p][1] = f
    BY <1>2, <1>3 DEF NoPages
  <2> QED BY <1>4, <1>5, <2>1, <2>2 DEF Alone
<1> QED BY <1>1, <1>6, <1>7, <1>8 DEF CowInv, Sharing

\* The inductive invariant: who maps what at each point of fork and of a page
\* fault, and the counts.
THEOREM CowInvariant == ~ShrinkShared => (Spec => []CowInv)
<1> SUFFICES ASSUME ~ShrinkShared PROVE Spec => []CowInv
  OBVIOUS
<1>1. CowInv /\ [Next]_vars => CowInv'
  BY CowStep
<1> QED BY <1>1, CowInit, PTL DEF Spec

\* Every reachable state is well typed; in particular no count is negative.
THEOREM TypeInvariant == ~ShrinkShared => (Spec => []TypeOK)
<1>1. CowInv => TypeOK
  <2> SUFFICES ASSUME CowInv PROVE TypeOK
    OBVIOUS
  <2>1. ref \in [Frames -> Nat]
    BY CountedFinite DEF CowInv, RefRight, Layout, CowTypes
  <2> QED BY <2>1 DEF CowInv, Layout, CowTypes, TypeOK
<1> QED BY <1>1, CowInvariant, PTL

\* The count of a frame is the number of pages that map it, but for a page
\* copyuvm has mapped and not yet counted.
THEOREM CountsAreRight == ~ShrinkShared => (Spec => []CountsRight)
<1>1. CowInv => CountsRight
  <2> SUFFICES ASSUME CowInv, NEW f \in Frames
               PROVE  ref[f] = Cardinality(Mappings(f)) - Cardinality(Uncounted(f))
    BY DEF CountsRight
  <2> DEFINE P == {m \in Procs \X Pages :
                     FrameOf(m[1], m[2]) = f /\ Pending(m[1], m[2])}
             U == Uncounted(f)
             g == [r \in U |-> <<child[r], page[r]>>]
  <2>1. \A r \in U : /\ child[r] \in Procs /\ page[r] \in Pages
                     /\ FrameOf(child[r], page[r]) = f
                     /\ Pending(child[r], page[r])
    <3> SUFFICES ASSUME NEW r \in U
                 PROVE  /\ child[r] \in Procs /\ page[r] \in Pages
                        /\ FrameOf(child[r], page[r]) = f
                        /\ Pending(child[r], page[r])
      OBVIOUS
    <3>1. r \in Procs /\ pc[r] = "fork_count" /\ pt[r][page[r]] = f
      BY DEF Uncounted
    <3>2. /\ pc[child[r]] = "embryo" /\ pt[child[r]][page[r]] = f
          /\ page[r] <= sz[r]
      BY <3>1 DEF CowInv, Layout, Forks, Forking
    <3>3. /\ child[r] \in Procs /\ page[r] \in 1..MaxPages + 1
          /\ sz[r] \in 0..MaxPages
      BY <3>1 DEF CowInv, Layout, CowTypes
    <3>4. page[r] \in Pages
      BY <3>2, <3>3, CowAssumption DEF Pages
    <3> QED BY <3>1, <3>2, <3>3, <3>4 DEF FrameOf, Pending
  <2>2. g \in [U -> P]
    BY <2>1
  <2>3. \A r, s \in U : g[r] = g[s] => r = s
    BY DEF Uncounted, CowInv, Layout, Forks, Forking
  <2>4. ASSUME NEW m \in P PROVE \E r \in U : g[r] = m
    <3>1. PICK r \in Procs : /\ pc[r] = "fork_count" /\ child[r] = m[1]
                             /\ page[r] = m[2]
      BY DEF Pending
    <3>2. pc[m[1]] = "embryo" /\ pt[m[1]][m[2]] = pt[r][page[r]]
      BY <3>1 DEF CowInv, Layout, Forks, Forking
    <3>3. pt[r][page[r]] = f
      BY <3>2 DEF FrameOf
    <3>4. r \in U /\ m = <<m[1], m[2]>>
      BY <3>1, <3>3 DEF Uncounted
    <3> QED BY <3>1, <3>4
  <2>5. g \in Bijection(U, P)
    BY <2>2, <2>3, <2>4 DEF Bijection, Injection, Surjection, IsInjective
  <2>6. IsFiniteSet(U)
    <3>1. U \in SUBSET Procs
      BY DEF Uncounted
    <3> QED BY <3>1, CowAssumption, FS_Subset
  <2>7. IsFiniteSet(P) /\ Cardinality(P) = Cardinality(U)
    <3> HIDE DEF U, P, g
    <3> QED BY <2>5, <2>6, FS_Bijection DEF ExistsBijection
  <2>8. Mappings(f) = Counted(f) \cup P /\ Counted(f) \cap P = {}
    BY DEF Mappings, Counted, CountedAt
  <2>9. Cardinality(Mappings(f)) = Cardinality(Counted(f)) + Cardinality(P)
    <3> HIDE DEF P
    <3>1. IsFiniteSet(Counted(f)) /\ IsFiniteSet(P)
      BY <2>7, CountedFinite
    <3>2. Cardinality(Counted(f) \cap P) = 0
      BY <2>8, FS_EmptySet
    <3>3. /\ Cardinality(Counted(f) \cup P)
               = Cardinality(Counted(f)) + Cardinality(P) - Cardinality(Counted(f) \cap P)
          /\ Cardinality(Counted(f)) \in Nat /\ Cardinality(P) \in Nat
      BY <3>1, FS_Union, FS_CardinalityType
    <3> QED BY <2>8, <3>2, <3>3
  <2>10. Cardinality(U) \in Nat /\ Cardinality(Counted(f)) \in Nat
    BY <2>6, CountedFinite, FS_CardinalityType
  <2>11. ref[f] = Cardinality(Counted(f))
    BY DEF CowInv, RefRight
  <2> HIDE DEF P, U
  <2>12. Cardinality(Mappings(f)) = Cardinality(Counted(f)) + Cardinality(U)
    BY <2>7, <2>9, <2>10
  <2>13. ref[f] = Cardinality(Mappings(f)) - Cardinality(U)
    BY <2>10, <2>11, <2>12
  <2> QED BY <2>13 DEF U
<1> QED BY <1>1, CowInvariant, PTL

\* No page of a process is on the free list.
THEOREM FreeIsUnmapped == ~ShrinkShared => (Spec => []MappedNotFree)
<1>1. CowInv => MappedNotFree
  BY DEF CowInv, Sharing, FreeUnmapped, MappedNotFree, Mappings
<1> QED BY <1>1, CowInvariant, PTL

\* A page that may be written is mapped by its process alone.
THEOREM WritableIsPrivate == ~ShrinkShared => (Spec => []WritableUnshared)
<1>1. CowInv => WritableUnshared
  <2> SUFFICES ASSUME CowInv, NEW p \in Procs, NEW v \in Pages,
                      writable[p][v], pt[p][v] # NoFrame
               PROVE  Mappings(pt[p][v]) = {<<p, v>>}
    BY DEF WritableUnshared
  <2>1. FrameOf(p, v) = pt[p][v]
    BY WritableFrame DEF CowInv
  <2>2. \A q \in Procs, w \in Pages :
          FrameOf(q, w) = pt[p][v] => q = p /\ w = v
    BY DEF CowInv, Sharing, Alone
  <2> QED BY <2>1, <2>2 DEF Mappings
<1> QED BY <1>1, CowInvariant, PTL
----------------------------------------------------------------------------
(* The refinement: what a process sees of its memory.                      *)

Sized == \A p \in Procs : pc[p] \notin Bare => sz[p] >= 1

\* A fault's copy is still what the page holds when it is counted, ...
Copied == \A p \in Procs :
  pc[p] = "pf_count" => content[new[p]] = content[pt[p][page[p]]]

\* ... and the child's pages are still the parent's when fork returns.
Inherited == \A p \in Procs : pc[p] \in Forking =>
  \A v \in Pages : v < page[p] => pt[child[p]][v] = pt[p][v]

MemInv == CowInv /\ Sized /\ Copied /\ Inherited

LEMMA PageInRange ==
  ASSUME Layout, NEW p \in Procs, pc[p] \in Faulting
  PROVE  page[p] \in Pages /\ page[p] \in 1..sz[p]
<1>1. page[p] \in 1..MaxPages + 1 /\ sz[p] \in 0..MaxPages
  BY DEF Layout, CowTypes
<1>2. page[p] <= sz[p]
  BY DEF Layout, Places
<1> QED BY <1>1, <1>2, CowAssumption DEF Pages

LEMMA SeesFrames ==
  ASSUME Layout, NEW p \in Procs, NEW v \in 1..sz[p]
  PROVE  v \in Pages /\ pt[p][v] \in Frames /\ FrameOf(p, v) \in Frames
<1>1. v \in Pages /\ v <= sz[p] /\ pc[p] \notin Bare
  BY CowAssumption DEF Layout, CowTypes, Extents, Pages
<1>2. pt[p][v] \in Frames
  BY <1>1, Mapped DEF Layout
<1> QED BY <1>1, <1>2 DEF Layout, Places, FrameOf

\* Only a store changes a frame that is not free before and not free after.
LEMMA ContentKeeps ==
  ASSUME CowInv, [Next]_vars, NEW f \in Frames, f \notin free, f \notin free',
         \A p \in Procs, v \in Pages, x \in Values : Write(p, v, x) => f # pt[p][v]
  PROVE  content'[f] = content[f]
<1>0. content \in [Frames -> Values]
  BY DEF CowInv, Layout, CowTypes
<1>1. ASSUME NEW p \in Procs, NEW vs \in SUBSET Pages, Drop(p, vs)
      PROVE  content'[f] = content[f]
  BY <1>1 DEF Drop, Junked
<1>2. ASSUME NEW p \in Procs, NEW v \in Pages, NEW x \in Values, Write(p, v, x)
      PROVE  content'[f] = content[f]
  BY <1>0, <1>2 DEF Write
<1>3. ASSUME NEW p \in Procs, FaultCopy(p) PROVE content'[f] = content[f]
  BY <1>0, <1>3 DEF FaultCopy
<1>4. ASSUME NEW p \in Procs, Grow(p) PROVE content'[f] = content[f]
  BY <1>0, <1>4 DEF Grow
<1>5. ASSUME NEW p \in Procs, Exec(p) PROVE content'[f] = content[f]
  <2>1. PICK k \in Pages : \E mem \in Injection(1..k, free) :
          /\ free' = (free \ Range(mem)) \cup Freed(p, Pages)
          /\ content' = [g \in Frames |-> IF g \in Range(mem) THEN Zero
                                          ELSE Junked(Freed(p, Pages))[g]]
    BY <1>5 DEF Exec
  <2>2. PICK mem \in Injection(1..k, free) :
          /\ free' = (free \ Range(mem)) \cup Freed(p, Pages)
          /\ content' = [g \in Frames |-> IF g \in Range(mem) THEN Zero
                                          ELSE Junked(Freed(p, Pages))[g]]
    BY <2>1
  <2>3. f \notin Range(mem)
    BY DEF Injection, Range
  <2> QED BY <2>2, <2>3 DEF Junked
<1>6. ASSUME NEW p \in Procs, ForkFail(p) \/ Shrink(p) \/ Exit(p)
      PROVE  content'[f] = content[f]
  <2>1. CASE ForkFail(p)
    <3>1. child[p] \in Procs /\ Drop(child[p], Pages)
      BY <2>1 DEF ForkFail, CowInv, Layout, CowTypes
    <3> QED BY <3>1, <1>1
  <2>2. CASE Shrink(p)
    <3>1. {sz[p]} \in SUBSET Pages /\ Drop(p, {sz[p]})
      BY <2>2, CowAssumption DEF Shrink, CowInv, Layout, CowTypes, Pages
    <3> QED BY <3>1, <1>1
  <2>3. CASE Exit(p)
    BY <2>3, <1>1 DEF Exit
  <2> QED BY <1>6, <2>1, <2>2, <2>3
<1> QED BY <1>2, <1>3, <1>4, <1>5, <1>6
   DEF Next, Fault, FaultCount, FaultMap, Fork, ForkMap, ForkCount, ForkDone, vars

\* So does a frame that a page has before and after the step.
LEMMA MappedKeeps ==
  ASSUME CowInv, CowInv', [Next]_vars,
         NEW q \in Procs, NEW v \in Pages, NEW f \in Frames,
         FrameOf(q, v) = f, FrameOf(q, v)' = f,
         \A x \in Values : ~Write(q, v, x)
  PROVE  content'[f] = content[f]
<1>1. f \notin free /\ f \notin free'
  BY DEF CowInv, Sharing, FreeUnmapped
<1>2. ASSUME NEW p \in Procs, NEW w \in Pages, NEW x \in Values, Write(p, w, x),
             pt[p][w] = f
      PROVE  FALSE
  <2>1. writable[p][w] /\ pt[p][w] # NoFrame
    BY <1>2 DEF Write
  <2>2. q = p /\ v = w
    BY <1>2, <2>1 DEF CowInv, Sharing, Alone
  <2> QED BY <1>2, <2>2
<1> QED BY <1>1, <1>2, ContentKeeps

----------------------------------------------------------------------------
LEMMA MemInit == Init => MemInv
<1> SUFFICES ASSUME Init PROVE MemInv
  OBVIOUS
<1>1. PICK p \in Procs : /\ sz = [q \in Procs |-> IF q = p THEN 1 ELSE 0]
                         /\ pc = [q \in Procs |-> IF q = p THEN "user" ELSE "unused"]
  BY DEF Init
<1> QED BY <1>1, CowInit DEF MemInv, Sized, Copied, Inherited, Bare, Forking

LEMMA SizedStep ==
  ASSUME CowInv, Sized, [Next]_vars
  PROVE  Sized'
<1> USE DEF CowInv, Layout, CowTypes, Sized, Bare
<1>1. CASE UNCHANGED <<pc, sz>>
  BY <1>1
<1>2. ASSUME NEW p \in Procs,
             \/ \E v \in Pages : Fault(p, v)
             \/ FaultCopy(p) \/ FaultCount(p) \/ FaultMap(p)
             \/ ForkMap(p) \/ ForkCount(p)
      PROVE  Sized'
  <2>1. UNCHANGED sz /\ \A q \in Procs : pc'[q] \in {"unused", "embryo"} <=> pc[q] \in {"unused", "embryo"}
    BY <1>2 DEF Fault, FaultCopy, FaultCount, FaultMap, ForkMap, ForkCount,
                At, Goto, tables
  <2> QED BY <2>1
<1>3. ASSUME NEW p \in Procs, NEW q \in Procs, Fork(p, q) PROVE Sized'
  BY <1>3 DEF Fork, At, tables
<1>4. ASSUME NEW p \in Procs, ForkDone(p) PROVE Sized'
  BY <1>4 DEF ForkDone, At
<1>5. ASSUME NEW p \in Procs, ForkFail(p) PROVE Sized'
  BY <1>5 DEF ForkFail, At
<1>6. ASSUME NEW p \in Procs, Grow(p) PROVE Sized'
  BY <1>6, CowAssumption DEF Grow, tables, Pages
<1>7. ASSUME NEW p \in Procs, Shrink(p) PROVE Sized'
  BY <1>7, CowAssumption DEF Shrink
<1>8. ASSUME NEW p \in Procs, Exec(p) PROVE Sized'
  <2>1. PICK k \in Pages : sz' = [sz EXCEPT ![p] = k]
    BY <1>8 DEF Exec
  <2> QED BY <1>8, <2>1, CowAssumption DEF Exec, Pages
<1>9. ASSUME NEW p \in Procs, Exit(p) PROVE Sized'
  BY <1>9 DEF Exit, Goto
<1> QED BY <1>1, <1>2, <1>3, <1>4, <1>5, <1>6, <1>7, <1>8, <1>9
   DEF Next, Write, tables, vars

LEMMA CopiedStep ==
  ASSUME CowInv, CowInv', Copied, [Next]_vars
  PROVE  Copied'
<1> SUFFICES ASSUME NEW p \in Procs, pc'[p] = "pf_count"
             PROVE  content'[new'[p]] = content'[pt'[p][page'[p]]]
  BY DEF Copied
<1>1. CASE FaultCopy(p)
  <2>1. PICK f \in free : /\ content' = [content EXCEPT ![f] = content[pt[p][page[p]]]]
                          /\ new' = [new EXCEPT ![p] = f]
    BY <1>1 DEF FaultCopy, Goto, CowInv, Layout, CowTypes
  <2>2. pc[p] = "pf_alloc" /\ UNCHANGED <<pt, page>>
    BY <1>1 DEF FaultCopy, At, tables
  <2>3. /\ page[p] \in Pages /\ pt[p][page[p]] \in Frames
        /\ FrameOf(p, page[p]) = pt[p][page[p]]
    BY <2>2, PageInRange, SeesFrames DEF Faulting, FrameOf, CowInv
  <2>4. pt[p][page[p]] # f
    BY <2>3 DEF CowInv, Sharing, FreeUnmapped
  <2> QED BY <2>1, <2>2, <2>3, <2>4 DEF CowInv, Layout, CowTypes
<1>2. CASE ~FaultCopy(p)
  <2> DEFINE Stays == /\ pc[p] = "pf_count"
                      /\ new'[p] = new[p] /\ page'[p] = page[p] /\ pt'[p] = pt[p]
  <2>1. Stays
    <3> USE <1>2 DEF CowInv, Layout, CowTypes, Goto, At
    <3>1. ASSUME NEW q \in Procs,
                 \/ \E v \in Pages : Fault(q, v)
                 \/ FaultCopy(q) \/ FaultCount(q) \/ FaultMap(q)
          PROVE  Stays
      BY <3>1 DEF Fault, FaultCopy, FaultCount, FaultMap, tables, locals
    <3>2. ASSUME NEW q \in Procs, NEW r \in Procs, Fork(q, r) PROVE Stays
      BY <3>2 DEF Fork, tables
    <3>3. ASSUME NEW q \in Procs, ForkMap(q) PROVE Stays
      <4>1. child[q] # p
        BY <3>3 DEF ForkMap, Forks, Forking
      <4> QED BY <3>3, <4>1 DEF ForkMap, locals
    <3>4. ASSUME NEW q \in Procs, ForkCount(q) \/ ForkDone(q) PROVE Stays
      BY <3>4 DEF ForkCount, ForkDone, tables
    <3>5. ASSUME NEW q \in Procs, ForkFail(q) PROVE Stays
      <4>1. pc[child[q]] = "embryo"
        BY <3>5 DEF ForkFail, Forks, Forking
      <4> QED BY <3>5, <4>1 DEF ForkFail
    <3>6. ASSUME NEW q \in Procs, Grow(q) \/ Shrink(q) \/ Exit(q) PROVE Stays
      BY <3>6 DEF Grow, Shrink, Exit, tables, locals
    <3>7. ASSUME NEW q \in Procs, Exec(q) PROVE Stays
      <4>1. pc[q] = "user" /\ UNCHANGED <<pc, new, page>>
            /\ \E m : pt' = [pt EXCEPT ![q] = m]
        BY <3>7 DEF Exec, locals
      <4> QED BY <4>1
    <3> QED BY <3>1, <3>2, <3>3, <3>4, <3>5, <3>6, <3>7
       DEF Next, Write, tables, locals, vars
  <2>2. /\ page[p] \in Pages /\ pt[p][page[p]] \in Frames /\ new[p] \in Frames
        /\ FrameOf(p, page[p]) = pt[p][page[p]] /\ ~writable[p][page[p]]
        /\ FrameOf(p, page[p])' = pt[p][page[p]]
    <3>1. FrameOf(p, page[p]) = pt[p][page[p]]
      BY <2>1 DEF FrameOf
    <3>2. FrameOf(p, page[p])' = pt[p][page[p]]
      BY <2>1 DEF FrameOf
    <3> QED BY <2>1, <3>1, <3>2, PageInRange, SeesFrames
       DEF Faulting, CowInv, Layout, Places
  <2>3. content'[pt[p][page[p]]] = content[pt[p][page[p]]]
    <3>1. PICK v \in Pages : v = page[p]
      BY <2>2
    <3>2. PICK f \in Frames : f = pt[p][v]
      BY <2>2, <3>1
    <3>3. FrameOf(p, v) = f /\ FrameOf(p, v)' = f
      BY <2>1, <3>1, <3>2 DEF FrameOf
    <3>4. \A x \in Values : ~Write(p, v, x)
      BY <2>2, <3>1 DEF Write
    <3> QED BY <3>1, <3>2, <3>3, <3>4, MappedKeeps
  <2>4. content'[new[p]] = content[new[p]]
    <3>1. new[p] \notin free /\ new[p] \notin free'
      BY <2>1 DEF CowInv, Sharing, Copies
    <3>2. ASSUME NEW q \in Procs, NEW v \in Pages, NEW x \in Values, Write(q, v, x)
          PROVE  new[p] # pt[q][v]
      <4>1. FrameOf(q, v) = pt[q][v]
        BY <3>2, WritableFrame DEF Write, CowInv
      <4> QED BY <2>1, <4>1 DEF CowInv, Sharing, Copies
    <3>3. PICK f \in Frames : f = new[p]
      BY <2>2
    <3> QED BY <3>1, <3>2, <3>3, ContentKeeps
  <2> QED BY <2>1, <2>3, <2>4 DEF Copied
<1> QED BY <1>1, <1>2

LEMMA InheritedStep ==
  ASSUME CowInv, CowInv', Inherited, [Next]_vars
  PROVE  Inherited'
<1> SUFFICES ASSUME NEW p \in Procs, pc'[p] \in Forking,
                    NEW v \in Pages, v < page'[p]
             PROVE  pt'[child'[p]][v] = pt'[p][v]
  BY DEF Inherited
<1> USE DEF CowInv, Layout, CowTypes, Goto, At
<1> DEFINE c == child[p]
           Stays == /\ pc[p] \in Forking /\ child'[p] = c
                    /\ v < page[p] /\ pt'[p][v] = pt[p][v] /\ pt'[c][v] = pt[c][v]
<1>f. ASSUME pc[p] \in Forking
      PROVE  /\ pc[c] = "embryo" /\ page[p] <= sz[p] + 1
             /\ \A q \in Procs : pc[q] \in Forking /\ child[q] = c => q = p
  BY <1>f DEF Forks
<1>1. ASSUME NEW q \in Procs, Fork(p, q) PROVE pt'[child'[p]][v] = pt'[p][v]
  <2>1. page'[p] = 1
    BY <1>1 DEF Fork, Places
  <2> QED BY <2>1, CowAssumption DEF Pages
<1>2. CASE ForkCount(p)
  <2>1. /\ pc[p] = "fork_count" /\ page' = [page EXCEPT ![p] = @ + 1]
        /\ UNCHANGED <<pt, child>>
    BY <1>2 DEF ForkCount, tables
  <2>2. pt[c][page[p]] = pt[p][page[p]]
    BY <2>1 DEF Forks, Forking
  <2>3. v < page[p] \/ v = page[p]
    BY <2>1, CowAssumption DEF Pages
  <2> QED BY <2>1, <2>2, <2>3 DEF Inherited, Forking
<1>3. CASE Stays
  BY <1>3 DEF Inherited
<1>4. CASE ~(\E q \in Procs : Fork(p, q)) /\ ~ForkCount(p)
  <2> USE <1>4
  <2>1. ASSUME NEW q \in Procs,
               \/ \E w \in Pages : Fault(q, w)
               \/ FaultCopy(q) \/ FaultCount(q)
        PROVE  Stays
    BY <2>1 DEF Fault, FaultCopy, FaultCount, tables, locals, Forking
  <2>2. ASSUME NEW q \in Procs, FaultMap(q) PROVE Stays
    <3>1. pc[q] = "pf_map" /\ pc'[q] = "user" /\ p # q
      BY <2>2 DEF FaultMap, Forking
    <3>2. pc[p] \in Forking
      BY <2>2, <3>1 DEF FaultMap
    <3>3. c # q
      BY <3>1, <3>2, <1>f
    <3> QED BY <2>2, <3>1, <3>2, <3>3 DEF FaultMap
  <2>3. ASSUME NEW q \in Procs, NEW r \in Procs, Fork(q, r) PROVE Stays
    <3>1. q # p /\ r # p /\ UNCHANGED <<pt, page>>
      BY <2>3 DEF Fork, tables, Forking
    <3> QED BY <2>3, <3>1 DEF Fork
  <2>4. ASSUME NEW q \in Procs, ForkMap(q) PROVE Stays
    <3>1. /\ pc[q] = "fork_map" /\ pc' = [pc EXCEPT ![q] = "fork_count"]
          /\ pt' = [pt EXCEPT ![child[q]][page[q]] = pt[q][page[q]]]
          /\ UNCHANGED <<child, page>>
      BY <2>4 DEF ForkMap, locals
    <3>2. pc[p] \in Forking
      BY <3>1 DEF Forking
    <3>3. child[q] # p
      BY <3>1, <3>2 DEF Forks, Forking
    <3>4. child[q] = c => q = p
      BY <3>1, <3>2, <1>f DEF Forking
    <3>5. child[q] = c => page[q] # v
      BY <3>1, <3>4, CowAssumption DEF Pages
    <3> QED BY <3>1, <3>2, <3>3, <3>5
  <2>5. ASSUME NEW q \in Procs, ForkCount(q) PROVE Stays
    BY <2>5 DEF ForkCount, tables, Forking
  <2>6. ASSUME NEW q \in Procs, ForkDone(q) PROVE Stays
    <3>1. q # p
      BY <2>6 DEF ForkDone, Forking
    <3> QED BY <2>6, <3>1 DEF ForkDone, Forking
  <2>7. ASSUME NEW q \in Procs, ForkFail(q) PROVE Stays
    <3>1. q # p /\ pc[q] \in Forking
      BY <2>7 DEF ForkFail, Forking
    <3>2. child[q] # p /\ pc[p] \in Forking
      BY <2>7, <3>1 DEF ForkFail, Forks, Forking
    <3>3. child[q] # c
      BY <3>1, <3>2, <1>f
    <3> QED BY <2>7, <3>1, <3>2, <3>3 DEF ForkFail
  <2>8. ASSUME NEW q \in Procs, Grow(q) \/ Shrink(q) \/ Exec(q) \/ Exit(q)
        PROVE  Stays
    <3>1. /\ pc[q] \in {"user", "killed"} /\ q # p /\ child' = child /\ pc[p] \in Forking
          /\ \A r \in Procs : r # q => page'[r] = page[r]
      BY <2>8 DEF Grow, Shrink, Exec, Exit, locals, Forking
    <3>2. c # q
      BY <3>1, <1>f
    <3>3. \A r \in Procs : r # q => pt'[r] = pt[r]
      <4>1. CASE Exec(q)
        <5>1. \E m : pt' = [pt EXCEPT ![q] = m]
          BY <4>1 DEF Exec
        <5> QED BY <5>1
      <4>2. CASE Grow(q) \/ Shrink(q) \/ Exit(q)
        BY <4>2 DEF Grow, Shrink, Exit, tables
      <4> QED BY <2>8, <4>1, <4>2
    <3> QED BY <3>1, <3>2, <3>3
  <2> QED BY <1>3, <2>1, <2>2, <2>3, <2>4, <2>5, <2>6, <2>7, <2>8
     DEF Next, Write, tables, locals, vars
<1> QED BY <1>1, <1>2, <1>4

\* All of it holds in every reachable state: what a fault has copied and what
\* fork's child has inherited stay true while other processes run (PF_handler
\* and copyuvm drop kmem.lock in between).
THEOREM MemInvariant == ~ShrinkShared => (Spec => []MemInv)
<1> SUFFICES ASSUME ~ShrinkShared PROVE Spec => []MemInv
  OBVIOUS
<1>1. MemInv /\ [Next]_vars => MemInv'
  <2> SUFFICES ASSUME MemInv, [Next]_vars PROVE MemInv'
    OBVIOUS
  <2>1. CowInv'
    BY CowStep DEF MemInv
  <2> QED BY <2>1, SizedStep, CopiedStep, InheritedStep DEF MemInv
<1> QED BY <1>1, MemInit, PTL DEF Spec

----------------------------------------------------------------------------
(* Steps of CowMemory as steps of PrivateMemory *)

Seen(p) == [v \in 1..sz[p] |-> content[FrameOf(p, v)]]
Mem == [p \in Procs |-> Seen(p)]

LEMMA SeenIs ==
  ASSUME Layout, NEW p \in Procs
  PROVE  /\ sz[p] \in Nat /\ sz[p] <= MaxPages
         /\ Seen(p) \in Seq(Values) /\ Len(Seen(p)) = sz[p]
         /\ sz[p] >= 1 => Seen(p) # <<>>
         /\ sz[p] = 0 => Seen(p) = <<>>
<1>1. sz[p] \in Nat /\ sz[p] <= MaxPages
  BY CowAssumption DEF Layout, CowTypes
<1>2. \A v \in 1..sz[p] : content[FrameOf(p, v)] \in Values
  BY SeesFrames DEF Layout, CowTypes
<1>3. Seen(p) = [v \in 1..sz[p] |-> content[FrameOf(p, v)]]
  BY DEF Seen
<1>4. Seen(p) \in Seq(Values) /\ Len(Seen(p)) = sz[p]
  BY <1>1, <1>2, <1>3
<1>5. sz[p] >= 1 => Seen(p) # <<>>
  BY <1>1, <1>4, EmptySeq
<1>6. sz[p] = 0 => Seen(p) = <<>>
  BY <1>4, EmptySeq
<1> QED BY <1>1, <1>4, <1>5, <1>6

\* A process that keeps its frames, and that no store changes, sees the same.
LEMMA SeenKeeps ==
  ASSUME CowInv, CowInv', [Next]_vars, NEW q \in Procs, sz'[q] = sz[q],
         \A v \in 1..sz[q] : FrameOf(q, v)' = FrameOf(q, v),
         \A v \in Pages, x \in Values : ~Write(q, v, x)
  PROVE  Seen(q)' = Seen(q)
<1>1. ASSUME NEW v \in 1..sz[q]
      PROVE  content'[FrameOf(q, v)'] = content[FrameOf(q, v)]
  <2>1. PICK f \in Frames : FrameOf(q, v) = f /\ v \in Pages
    BY SeesFrames DEF CowInv
  <2>2. FrameOf(q, v)' = f
    BY <2>1
  <2> QED BY <2>1, <2>2, MappedKeeps
<1>2. Seen(q)' = [v \in 1..sz[q] |-> content'[FrameOf(q, v)']]
  BY DEF Seen
<1> QED BY <1>1, <1>2 DEF Seen

\* When the others keep theirs, p's memory is all that changes.
LEMMA MemSet ==
  ASSUME NEW p \in Procs, NEW m, Seen(p)' = m,
         \A q \in Procs : q # p => Seen(q)' = Seen(q)
  PROVE  Mem' = [Mem EXCEPT ![p] = m]
BY DEF Mem

\* The steps of fork and of a fault that nobody can see.
LEMMA HiddenSteps ==
  ASSUME MemInv, CowInv', [Next]_vars, NEW p \in Procs,
         \/ \E v \in Pages : Fault(p, v)
         \/ FaultCopy(p) \/ FaultMap(p)
         \/ \E q \in Procs : Fork(p, q)
         \/ ForkMap(p) \/ ForkCount(p) \/ ForkFail(p)
  PROVE  Mem' = Mem
<1> USE DEF MemInv, CowInv, Layout, CowTypes, Goto, At
<1>1. UNCHANGED sz
  BY DEF Fault, FaultCopy, FaultMap, Fork, ForkMap, ForkCount, ForkFail, tables
<1>2. ASSUME NEW q \in Procs, NEW v \in 1..sz[q]
      PROVE  FrameOf(q, v)' = FrameOf(q, v)
  <2>1. v \in Pages /\ v <= sz[q] /\ pc[q] \notin Bare
    BY SeesFrames, CowAssumption DEF Extents
  <2>2. CASE \E w \in Pages : Fault(p, w)
    BY <2>2 DEF Fault, FrameOf
  <2>3. CASE FaultCopy(p)
    BY <2>3 DEF FaultCopy, FrameOf, tables
  <2>4. CASE FaultMap(p)
    BY <2>4 DEF FaultMap, FrameOf
  <2>5. CASE \E r \in Procs : Fork(p, r)
    BY <2>5 DEF Fork, FrameOf, tables
  <2>6. CASE ForkMap(p) \/ ForkFail(p)
    <3>1. pc[child[p]] = "embryo" /\ q # child[p]
      BY <2>1, <2>6 DEF ForkMap, ForkFail, Forks, Forking, Bare
    <3>2. pt'[q] = pt[q] /\ new'[q] = new[q]
      BY <2>6, <3>1 DEF ForkMap, ForkFail, locals
    <3>3. q # p => pc'[q] = pc[q] /\ page'[q] = page[q]
      BY <2>6, <3>1 DEF ForkMap, ForkFail, locals
    <3>4. pc[p] # "pf_map" /\ pc'[p] # "pf_map"
      BY <2>6, <3>1 DEF ForkMap, ForkFail
    <3> QED BY <3>2, <3>3, <3>4 DEF FrameOf
  <2>7. CASE ForkCount(p)
    BY <2>7 DEF ForkCount, FrameOf, tables
  <2> QED BY <2>2, <2>3, <2>4, <2>5, <2>6, <2>7
<1>3. \A q \in Procs, v \in Pages, x \in Values : ~Write(q, v, x)
  <2> SUFFICES ASSUME NEW q \in Procs, NEW v \in Pages, NEW x \in Values,
                      Write(q, v, x)
               PROVE  FALSE
    OBVIOUS
  <2>1. UNCHANGED <<free, ref, pt, writable, sz, pc, page, child, new>>
    BY DEF Write, tables, locals
  <2> QED BY <2>1 DEF Fault, FaultCopy, FaultMap, Fork, ForkMap, ForkCount, ForkFail
<1>4. \A q \in Procs : Seen(q)' = Seen(q)
  BY <1>1, <1>2, <1>3, SeenKeeps
<1> QED BY <1>4 DEF Mem

\* The copy takes the place of the page.
LEMMA FaultCountHidden ==
  ASSUME MemInv, CowInv', [Next]_vars, NEW p \in Procs, FaultCount(p)
  PROVE  Mem' = Mem
<1> USE DEF MemInv, CowInv, Layout, CowTypes, Goto, At
<1>1. /\ pc[p] = "pf_count" /\ pc' = [pc EXCEPT ![p] = "pf_map"]
      /\ UNCHANGED <<content, pt, sz, page, new>>
  BY DEF FaultCount, tables, locals
<1>2. content[new[p]] = content[pt[p][page[p]]]
  BY <1>1 DEF Copied
<1>3. \A q \in Procs : \A v \in 1..sz[q] :
        content[FrameOf(q, v)'] = content[FrameOf(q, v)]
  BY <1>1, <1>2 DEF FrameOf
<1>4. ASSUME NEW q \in Procs PROVE Seen(q)' = Seen(q)
  <2>1. Seen(q)' = [v \in 1..sz[q] |-> content[FrameOf(q, v)']]
    BY <1>1 DEF Seen
  <2> QED BY <1>3, <2>1 DEF Seen
<1> QED BY <1>4 DEF Mem

LEMMA WriteSeen ==
  ASSUME MemInv, CowInv', [Next]_vars, NEW p \in Procs, NEW v \in Pages,
         NEW x \in Values, Write(p, v, x)
  PROVE  /\ v \in 1..Len(Seen(p))
         /\ Mem' = [Mem EXCEPT ![p] = [Seen(p) EXCEPT ![v] = x]]
<1> USE DEF MemInv, CowInv, Layout, CowTypes, At
<1>1. /\ writable[p][v] /\ pt[p][v] # NoFrame /\ pc[p] = "user"
      /\ content' = [content EXCEPT ![pt[p][v]] = x]
      /\ UNCHANGED <<pt, sz, pc, page, new>>
  BY DEF Write, tables, locals
<1>2. v \in 1..sz[p] /\ pt[p][v] \in Frames /\ FrameOf(p, v) = pt[p][v]
  <2>1. v <= sz[p]
    BY <1>1 DEF Extents, Bare
  <2> QED BY <1>1, <2>1, WritableFrame, CowAssumption DEF Pages
<1>3. \A q \in Procs, w \in Pages : FrameOf(q, w)' = FrameOf(q, w)
  BY <1>1 DEF FrameOf
<1>4. \A q \in Procs, w \in Pages :
        FrameOf(q, w) = pt[p][v] => q = p /\ w = v
  BY <1>1 DEF Sharing, Alone
<1>5. ASSUME NEW q \in Procs
      PROVE  Seen(q)' = [w \in 1..sz[q] |-> IF q = p /\ w = v THEN x
                                            ELSE content[FrameOf(q, w)]]
  <2>1. Seen(q)' = [w \in 1..sz[q] |-> content'[FrameOf(q, w)']]
    BY <1>1 DEF Seen
  <2>2. \A w \in 1..sz[q] :
          content'[FrameOf(q, w)'] = IF q = p /\ w = v THEN x
                                     ELSE content[FrameOf(q, w)]
    BY <1>1, <1>2, <1>3, <1>4, SeesFrames
  <2> QED BY <2>1, <2>2
<1>6. Seen(p)' = [Seen(p) EXCEPT ![v] = x]
  BY <1>2, <1>5 DEF Seen
<1>7. \A q \in Procs : q # p => Seen(q)' = Seen(q)
  BY <1>5 DEF Seen
<1>8. Len(Seen(p)) = sz[p]
  BY SeenIs
<1> QED BY <1>2, <1>6, <1>7, <1>8, MemSet

LEMMA ForkSeen ==
  ASSUME MemInv, CowInv', [Next]_vars, NEW p \in Procs, ForkDone(p)
  PROVE  \E q \in Procs : Seen(q) = <<>> /\ Mem' = [Mem EXCEPT ![q] = Seen(p)]
<1> USE DEF MemInv, CowInv, Layout, CowTypes, At
<1> DEFINE c == child[p]
<1>1. PICK q \in Procs : q = child[p]
  OBVIOUS
<1>2. /\ pc[p] = "fork_map" /\ page[p] > sz[p]
      /\ sz' = [sz EXCEPT ![q] = sz[p]]
      /\ pc' = [pc EXCEPT ![p] = "user", ![q] = "user"]
      /\ page' = [page EXCEPT ![p] = 1]
      /\ UNCHANGED <<content, pt, new>>
  BY <1>1 DEF ForkDone
<1>3. pc[q] = "embryo" /\ sz[q] = 0 /\ q # p
  BY <1>1, <1>2 DEF Forks, Forking, Extents, Bare
<1>4. ASSUME NEW v \in 1..sz[p] PROVE pt[q][v] = pt[p][v]
  <2>1. v \in Pages
    BY SeesFrames
  <2>2. v < page[p]
    BY <1>2
  <2> QED BY <1>1, <1>2, <2>1, <2>2 DEF Inherited, Forking
<1>5. Seen(q)' = [v \in 1..sz[p] |-> content[pt[q][v]]]
  <2>1. sz'[q] = sz[p] /\ pc'[q] = "user"
    BY <1>2
  <2>2. \A v : FrameOf(q, v)' = pt[q][v]
    BY <1>2, <2>1 DEF FrameOf
  <2>3. Seen(q)' = [v \in 1..sz'[q] |-> content'[FrameOf(q, v)']]
    BY DEF Seen
  <2> QED BY <1>2, <2>1, <2>2, <2>3
<1>6. Seen(p) = [v \in 1..sz[p] |-> content[pt[p][v]]]
  BY <1>2 DEF Seen, FrameOf
<1>7. Seen(q)' = Seen(p)
  BY <1>4, <1>5, <1>6
<1>8. ASSUME NEW r \in Procs, r # q PROVE Seen(r)' = Seen(r)
  <2>1. \A v : FrameOf(r, v)' = FrameOf(r, v)
    BY <1>2, <1>8 DEF FrameOf
  <2>2. sz'[r] = sz[r]
    BY <1>2, <1>8
  <2>3. Seen(r)' = [v \in 1..sz'[r] |-> content'[FrameOf(r, v)']]
    BY DEF Seen
  <2> QED BY <1>2, <2>1, <2>2, <2>3 DEF Seen
<1>9. Seen(q) = <<>>
  BY <1>3, SeenIs
<1> QED BY <1>7, <1>8, <1>9, MemSet

\* What exec does to the new page table.
ExecMaps(p, k, mem) ==
  /\ pt' = [pt EXCEPT ![p] = [v \in Pages |-> IF v <= k THEN mem[v] ELSE NoFrame]]
  /\ sz' = [sz EXCEPT ![p] = k]
  /\ content' = [f \in Frames |-> IF f \in Range(mem) THEN Zero
                                  ELSE Junked(Freed(p, Pages))[f]]

LEMMA ExecIs ==
  ASSUME NEW p \in Procs, Exec(p)
  PROVE  \E k \in Pages : \E mem \in Injection(1..k, free) : ExecMaps(p, k, mem)
BY DEF Exec, ExecMaps

\* growproc, exec and exit change what the caller sees only.
LEMMA OthersKeep ==
  ASSUME MemInv, CowInv', [Next]_vars, NEW p \in Procs,
         Grow(p) \/ Shrink(p) \/ Exec(p) \/ Exit(p)
  PROVE  /\ \A q \in Procs : q # p => Seen(q)' = Seen(q)
         /\ \A q \in Procs, v \in Pages, x \in Values : ~Write(q, v, x)
<1> USE DEF MemInv, CowInv, Layout, CowTypes, Goto, At
<1>1. \A q \in Procs : q # p =>
        /\ sz'[q] = sz[q] /\ pt'[q] = pt[q] /\ pc'[q] = pc[q]
        /\ page'[q] = page[q] /\ new'[q] = new[q]
  <2>1. CASE Grow(p)
    BY <2>1 DEF Grow, tables, locals
  <2>2. CASE Shrink(p)
    BY <2>2 DEF Shrink, locals
  <2>3. CASE Exec(p)
    <3>1. /\ UNCHANGED <<pc, page, new>>
          /\ \E m, k : pt' = [pt EXCEPT ![p] = m] /\ sz' = [sz EXCEPT ![p] = k]
      BY <2>3 DEF Exec, locals
    <3> QED BY <3>1
  <2>4. CASE Exit(p)
    BY <2>4 DEF Exit
  <2> QED BY <2>1, <2>2, <2>3, <2>4
<1>2. \A q \in Procs, v \in Pages, x \in Values : ~Write(q, v, x)
  <2> SUFFICES ASSUME NEW q \in Procs, NEW v \in Pages, NEW x \in Values,
                      Write(q, v, x)
               PROVE  FALSE
    OBVIOUS
  <2>1. UNCHANGED <<free, ref, pt, writable, sz, pc, page, child, new, panicked>>
    BY DEF Write, tables, locals
  <2>2. CASE Grow(p)
    BY <2>1, <2>2 DEF Grow
  <2>3. CASE Shrink(p)
    BY <2>1, <2>3, CowAssumption DEF Shrink
  <2>4. CASE Exec(p)
    <3>1. PICK k \in Pages : \E mem \in Injection(1..k, free) : ExecMaps(p, k, mem)
      BY <2>4, ExecIs
    <3>1m. PICK mem \in Injection(1..k, free) : ExecMaps(p, k, mem)
      BY <3>1
    <3>2. 1 \in Pages /\ 1 \in 1..k /\ 1 <= k
      BY CowAssumption DEF Pages
    <3>3. pt'[p][1] = mem[1] /\ pt'[p] = pt[p]
      BY <2>1, <3>1m, <3>2 DEF ExecMaps
    <3>4. mem[1] \in free /\ mem[1] \in Frames
      BY <3>2 DEF Injection
    <3>5. pc[p] = "user"
      BY <2>4 DEF Exec
    <3>6. FrameOf(p, 1) = mem[1]
      BY <3>3, <3>5 DEF FrameOf
    <3> QED BY <3>2, <3>4, <3>6 DEF Sharing, FreeUnmapped
  <2>5. CASE Exit(p)
    BY <2>1, <2>5 DEF Exit
  <2> QED BY <2>2, <2>3, <2>4, <2>5
<1>3. \A q \in Procs : q # p =>
        /\ sz'[q] = sz[q]
        /\ \A v \in 1..sz[q] : FrameOf(q, v)' = FrameOf(q, v)
  BY <1>1 DEF FrameOf
<1>4. \A q \in Procs : q # p => Seen(q)' = Seen(q)
  BY <1>2, <1>3, SeenKeeps
<1> QED BY <1>2, <1>4

LEMMA Below ==
  ASSUME NEW n \in Nat, NEW v \in 1..(n + 1), v # n + 1
  PROVE  v \in 1..n
OBVIOUS

LEMMA AppendIs ==
  ASSUME NEW s \in Seq(Values), NEW x \in Values
  PROVE  Append(s, x) = [v \in 1..(Len(s) + 1) |->
                           IF v = Len(s) + 1 THEN x ELSE s[v]]
<1>1. Len(s) \in Nat /\ Append(s, x) \in Seq(Values) /\ Len(Append(s, x)) = Len(s) + 1
      /\ \A v \in 1..Len(s) : Append(s, x)[v] = s[v]
      /\ Append(s, x)[Len(s) + 1] = x
  BY AppendProperties, LenProperties
<1>2. \A v \in 1..(Len(s) + 1) :
        Append(s, x)[v] = IF v = Len(s) + 1 THEN x ELSE s[v]
  BY <1>1, Below
<1>3. Append(s, x) = [v \in 1..(Len(s) + 1) |-> Append(s, x)[v]]
  BY <1>1, LenProperties
<1> QED BY <1>2, <1>3

LEMMA GrowSeen ==
  ASSUME MemInv, CowInv', [Next]_vars, NEW p \in Procs, Grow(p)
  PROVE  \/ Mem' = Mem
         \/ Seen(p) # <<>> /\ Mem' = [Mem EXCEPT ![p] = Append(Seen(p), Zero)]
<1> USE DEF MemInv, CowInv, Layout, CowTypes, At
<1>1. PICK f \in free :
        /\ pc[p] = "user" /\ sz[p] + 1 \in Pages
        /\ content' = [content EXCEPT ![f] = Zero]
        /\ IF pt[p][sz[p] + 1] # NoFrame THEN UNCHANGED <<pt, sz>>
           ELSE /\ pt' = [pt EXCEPT ![p][sz[p] + 1] = f]
                /\ sz' = [sz EXCEPT ![p] = sz[p] + 1]
        /\ UNCHANGED pc
  BY DEF Grow, tables
<1>2. pt[p][sz[p] + 1] = NoFrame
  <2>1. ~(sz[p] + 1 <= sz[p])
    BY CowAssumption
  <2> QED BY <1>1, <2>1 DEF Extents, Bare
<1>3. /\ pt' = [pt EXCEPT ![p][sz[p] + 1] = f]
      /\ sz' = [sz EXCEPT ![p] = sz[p] + 1]
  BY <1>1, <1>2
<1>4. sz[p] \in Nat
  BY SeenIs
<1>5. \A v \in 1..sz[p] : FrameOf(p, v)' = pt[p][v] /\ FrameOf(p, v) = pt[p][v]
  BY <1>1, <1>3, <1>4, SeesFrames DEF FrameOf
<1>6. ASSUME NEW n \in Pages, n = sz[p] + 1 PROVE FrameOf(p, n)' = f
  BY <1>1, <1>3, <1>6 DEF FrameOf
<1>7. \A v \in 1..sz[p] : pt[p][v] # f
  <2> SUFFICES ASSUME NEW v \in 1..sz[p], pt[p][v] = f PROVE FALSE
    OBVIOUS
  <2> QED BY <1>5, SeesFrames DEF Sharing, FreeUnmapped
<1>8. Seen(p)' = [v \in 1..(sz[p] + 1) |->
                    IF v = sz[p] + 1 THEN Zero ELSE content[pt[p][v]]]
  <2>1. Seen(p)' = [v \in 1..(sz[p] + 1) |-> content'[FrameOf(p, v)']]
    BY <1>3 DEF Seen
  <2>2. ASSUME NEW v \in 1..(sz[p] + 1)
        PROVE  content'[FrameOf(p, v)'] =
                 IF v = sz[p] + 1 THEN Zero ELSE content[pt[p][v]]
    <3>1. CASE v = sz[p] + 1
      <4>1. v \in Pages
        BY <1>1, <3>1
      <4>2. FrameOf(p, v)' = f
        BY <1>6, <3>1, <4>1
      <4> QED BY <1>1, <3>1, <4>2
    <3>2. CASE v # sz[p] + 1
      <4>1. v \in 1..sz[p]
        BY <1>4, <3>2, Below
      <4> QED BY <1>1, <1>5, <1>7, <3>2, <4>1, SeesFrames
    <3> QED BY <3>1, <3>2
  <2> QED BY <2>1, <2>2
<1>9. Seen(p) = [v \in 1..sz[p] |-> content[pt[p][v]]]
  BY <1>5 DEF Seen
<1>10. Seen(p)' = Append(Seen(p), Zero)
  <2>1. Seen(p) \in Seq(Values) /\ Len(Seen(p)) = sz[p]
    BY SeenIs
  <2>2. Append(Seen(p), Zero) = [v \in 1..(sz[p] + 1) |->
          IF v = sz[p] + 1 THEN Zero ELSE Seen(p)[v]]
    BY <1>4, <2>1, AppendIs, CowAssumption
  <2>3. \A v \in 1..(sz[p] + 1) : v # sz[p] + 1 => Seen(p)[v] = content[pt[p][v]]
    BY <1>4, <1>9, Below
  <2> QED BY <1>8, <2>2, <2>3
<1>11. Seen(p) # <<>>
  <2>1. sz[p] >= 1
    BY <1>1 DEF Sized, Bare
  <2> QED BY <2>1, SeenIs
<1> QED BY <1>10, <1>11, OthersKeep, MemSet

LEMMA ShrinkSeen ==
  ASSUME MemInv, CowInv', [Next]_vars, NEW p \in Procs, Shrink(p), ~ShrinkShared
  PROVE  /\ Seen(p) # <<>>
         /\ Mem' = [Mem EXCEPT ![p] = SubSeq(Seen(p), 1, Len(Seen(p)) - 1)]
<1> USE DEF MemInv, CowInv, Layout, CowTypes, At
<1>1. /\ pc[p] = "user" /\ sz[p] > 1 /\ sz[p] \in Nat
      /\ pt' = pt \/ pt' = [pt EXCEPT ![p][sz[p]] = NoFrame]
      /\ sz' = [sz EXCEPT ![p] = sz[p] - 1]
      /\ UNCHANGED pc
  BY SeenIs DEF Shrink, locals
<1>2. ASSUME NEW v \in 1..(sz[p] - 1)
      PROVE  content'[FrameOf(p, v)'] = content[FrameOf(p, v)]
  <2>1. v \in 1..sz[p] /\ v # sz[p]
    BY <1>1
  <2>2. v \in Pages /\ FrameOf(p, v) = pt[p][v] /\ pt[p][v] \in Frames
    BY <1>1, <2>1, SeesFrames DEF FrameOf
  <2>3. FrameOf(p, v)' = pt[p][v]
    BY <1>1, <2>1, <2>2 DEF FrameOf
  <2>4. PICK f \in Frames : f = pt[p][v]
    BY <2>2
  <2> QED BY <2>2, <2>3, <2>4, OthersKeep, MappedKeeps
<1>3. Seen(p)' = [v \in 1..(sz[p] - 1) |-> content[FrameOf(p, v)]]
  <2>1. Seen(p)' = [v \in 1..(sz[p] - 1) |-> content'[FrameOf(p, v)']]
    BY <1>1 DEF Seen
  <2> QED BY <1>2, <2>1
<1>4. Seen(p) \in Seq(Values) /\ Len(Seen(p)) = sz[p] /\ Seen(p) # <<>>
  BY <1>1, SeenIs
<1>5. SubSeq(Seen(p), 1, sz[p] - 1) = [v \in 1..(sz[p] - 1) |-> Seen(p)[v]]
  BY <1>1, <1>4
<1>6. \A v \in 1..(sz[p] - 1) : Seen(p)[v] = content[FrameOf(p, v)]
  BY <1>1 DEF Seen
<1>7. Seen(p)' = SubSeq(Seen(p), 1, Len(Seen(p)) - 1)
  BY <1>3, <1>4, <1>5, <1>6
<1> QED BY <1>4, <1>7, OthersKeep, MemSet

LEMMA ExecSeen ==
  ASSUME MemInv, CowInv', [Next]_vars, NEW p \in Procs, Exec(p)
  PROVE  /\ Seen(p) # <<>>
         /\ \E k \in Pages : Mem' = [Mem EXCEPT ![p] = [v \in 1..k |-> Zero]]
<1> USE DEF MemInv, CowInv, Layout, CowTypes, At
<1>1. PICK k \in Pages : \E mem \in Injection(1..k, free) : ExecMaps(p, k, mem)
  BY ExecIs
<1>1m. PICK mem \in Injection(1..k, free) : ExecMaps(p, k, mem)
  BY <1>1
<1>2. /\ pt' = [pt EXCEPT ![p] =
                   [v \in Pages |-> IF v <= k THEN mem[v] ELSE NoFrame]]
      /\ sz' = [sz EXCEPT ![p] = k]
      /\ content' = [f \in Frames |-> IF f \in Range(mem) THEN Zero
                                      ELSE Junked(Freed(p, Pages))[f]]
  BY <1>1m DEF ExecMaps
<1>3. pc[p] = "user" /\ UNCHANGED pc
  BY DEF Exec
<1>4. ASSUME NEW v \in 1..k PROVE content'[FrameOf(p, v)'] = Zero
  <2>1. v \in Pages /\ v <= k
    BY CowAssumption DEF Pages
  <2>2. FrameOf(p, v)' = mem[v]
    BY <1>2, <1>3, <2>1 DEF FrameOf
  <2>3. mem[v] \in Range(mem) /\ mem[v] \in Frames
    BY DEF Injection, Range
  <2> QED BY <1>2, <2>2, <2>3
<1>5. Seen(p)' = [v \in 1..k |-> Zero]
  <2>1. Seen(p)' = [v \in 1..k |-> content'[FrameOf(p, v)']]
    BY <1>2 DEF Seen
  <2> QED BY <1>4, <2>1
<1>6. Seen(p) # <<>>
  <2>1. sz[p] >= 1
    BY <1>3 DEF Sized, Bare
  <2> QED BY <2>1, SeenIs
<1> QED BY <1>5, <1>6, OthersKeep, MemSet

LEMMA ExitSeen ==
  ASSUME MemInv, CowInv', [Next]_vars, NEW p \in Procs, Exit(p)
  PROVE  Mem' = [Mem EXCEPT ![p] = <<>>]
<1> USE DEF MemInv, CowInv, Layout, CowTypes
<1>1. sz'[p] = 0
  BY DEF Exit
<1>2. Seen(p)' = [v \in 1..0 |-> content'[FrameOf(p, v)']]
  BY <1>1 DEF Seen
<1>3. Seen(p)' = <<>>
  <2>1. \A m : m = [v \in 1..0 |-> content'[FrameOf(p, v)']] => m = <<>>
    BY EmptySeq
  <2> QED BY <1>2, <2>1
<1> QED BY <1>3, OthersKeep, MemSet

----------------------------------------------------------------------------
LEMMA PrivateInit == Init => Private!Init
<1> SUFFICES ASSUME Init PROVE Private!Init
  OBVIOUS
<1>1. PICK p \in Procs, f \in Frames :
        /\ content = [g \in Frames |-> IF g = f THEN Zero ELSE Junk]
        /\ pt = [q \in Procs |-> [NoPages EXCEPT ![1] = IF q = p THEN f ELSE @]]
        /\ sz = [q \in Procs |-> IF q = p THEN 1 ELSE 0]
        /\ pc = [q \in Procs |-> IF q = p THEN "user" ELSE "unused"]
  BY DEF Init
<1>2. 1 \in Pages
  BY CowAssumption DEF Pages
<1>3. content[FrameOf(p, 1)] = Zero
  BY <1>1, <1>2 DEF FrameOf, NoPages
<1>4. Seen(p) = [v \in 1..1 |-> Zero]
  <2>1. sz[p] = 1
    BY <1>1
  <2>2. \A v \in 1..1 : v = 1
    OBVIOUS
  <2> QED BY <1>3, <2>1, <2>2 DEF Seen
<1>5. \A q \in Procs : q # p => Seen(q) = <<>>
  BY <1>1, LayoutInit, SeenIs
<1>6. Mem = [q \in Procs |-> IF q = p THEN [v \in 1..1 |-> Zero] ELSE <<>>]
  BY <1>4, <1>5 DEF Mem
<1> QED BY <1>2, <1>6 DEF Private!Init, Private!Fresh, Mem, Seen, Pages

\* Every step maps to a step of PrivateMemory or changes nothing in it.
LEMMA PrivateStep ==
  ASSUME ~ShrinkShared, MemInv, CowInv', [Next]_vars
  PROVE  [Private!Next]_Mem
<1> USE DEF Private!Next, Private!Set
<1>0. \A p \in Procs : Mem[p] = Seen(p)
  BY DEF Mem
<1>1. ASSUME NEW p \in Procs, NEW v \in Pages, NEW x \in Values, Write(p, v, x)
      PROVE  Private!Write(p)
  <2>1. v \in 1..Len(Mem[p]) /\ Mem' = [Mem EXCEPT ![p] = [Mem[p] EXCEPT ![v] = x]]
    BY <1>0, <1>1, WriteSeen
  <2> QED BY <2>1 DEF Private!Write, Mem, Seen
<1>2. ASSUME NEW p \in Procs, ForkDone(p) PROVE Private!Fork(p)
  BY <1>0, <1>2, ForkSeen DEF Private!Fork, Mem, Seen
<1>3. ASSUME NEW p \in Procs, Grow(p), Mem' # Mem PROVE Private!Grow(p)
  BY <1>0, <1>3, GrowSeen DEF Private!Grow, Mem, Seen
<1>4. ASSUME NEW p \in Procs, Shrink(p) PROVE Private!Shrink(p)
  BY <1>0, <1>4, ShrinkSeen DEF Private!Shrink, Mem, Seen
<1>5. ASSUME NEW p \in Procs, Exec(p) PROVE Private!Exec(p)
  BY <1>0, <1>5, ExecSeen DEF Private!Exec, Private!Fresh, Mem, Seen, Pages
<1>6. ASSUME NEW p \in Procs, Exit(p) PROVE Private!Exit(p)
  BY <1>0, <1>6, ExitSeen DEF Private!Exit, Mem, Seen
<1>7. CASE UNCHANGED vars
  <2>1. UNCHANGED Mem
    BY <1>7 DEF vars, tables, locals, Mem, Seen, FrameOf
  <2> QED BY <2>1
<1>8. ASSUME NEW p \in Procs, FaultCount(p) PROVE UNCHANGED Mem
  BY <1>8, FaultCountHidden
<1>9. ASSUME NEW p \in Procs,
             \/ \E v \in Pages : Fault(p, v)
             \/ FaultCopy(p) \/ FaultMap(p)
             \/ \E q \in Procs : Fork(p, q)
             \/ ForkMap(p) \/ ForkCount(p) \/ ForkFail(p)
      PROVE  UNCHANGED Mem
  BY <1>9, HiddenSteps
<1> QED BY <1>1, <1>2, <1>3, <1>4, <1>5, <1>6, <1>7, <1>8, <1>9 DEF Next

\* A process sees its own memory and nobody else's: for any number of
\* processes, frames and pages, sharing frames after fork and copying them on
\* a fault cannot be told from a fork that copies at once (copyuvm,
\* PF_handler), when programs do not shrink over pages they still share.
THEOREM MemoryIsPrivate ==
  ~ShrinkShared => (Spec => ImplementsPrivateMemory)
<1> SUFFICES ASSUME ~ShrinkShared PROVE Spec => ImplementsPrivateMemory
  OBVIOUS
<1>1. Spec => []MemInv
  BY MemInvariant
<1>2. MemInv /\ MemInv' /\ [Next]_vars => [Private!Next]_Mem
  BY PrivateStep DEF MemInv
<1>3. ImplementsPrivateMemory <=> Private!Init /\ [][Private!Next]_Mem
  BY DEF ImplementsPrivateMemory, Private!Spec, Mem, Seen
<1> QED BY <1>1, <1>2, <1>3, PrivateInit, PTL DEF Spec
============================================================================
