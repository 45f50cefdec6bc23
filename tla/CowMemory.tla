----------------------------- MODULE CowMemory -----------------------------
(***************************************************************************)
(* User memory of project 6: page tables whose pages are shared after fork *)
(* and copied on the first write (vm.c), with a count of mappings per      *)
(* frame, over the frame allocator (kalloc.c).                             *)
(*                                                                         *)
(* The counts are changed under one spin lock, but the lock does not span  *)
(* a whole operation: PF_handler drops it between reading the count and    *)
(* decrementing it, and copyuvm counts a page after it has mapped it.      *)
(* These are steps of their own.  A process's page table is changed by     *)
(* nobody else, so a loop over pages whose steps do not read another       *)
(* process's count is one step (growproc, exec, freevm).                   *)
(***************************************************************************)
EXTENDS Integers, FiniteSets, Functions

CONSTANTS Procs, Frames,
          MaxPages,       \* pages of the largest process
          Values,         \* contents of a page
          Zero, Junk,     \* after memset(mem, 0), after kfree's memset
          NoFrame,        \* a pte without PTE_P
          ShrinkShared    \* programs shrink over pages they still share

ASSUME CowAssumption ==
  /\ MaxPages \in Nat \ {0} /\ IsFiniteSet(Procs) /\ IsFiniteSet(Frames)
  /\ Zero \in Values /\ Junk \in Values
  /\ NoFrame \notin Frames
  /\ ShrinkShared \in BOOLEAN

Pages == 1..MaxPages

VARIABLES
  free,       \* kmem.freelist
  ref,        \* reference_count
  content,    \* what a frame holds
  pt,         \* process -> page -> the frame of its pte
  writable,   \* process -> page -> PTE_W
  sz,         \* proc->sz, in pages
  pc,         \* unused, embryo, user, killed or a point of fork, PF_handler
  page,       \* the page fork or PF_handler is at
  child,      \* np of fork
  new,        \* mem of PF_handler
  panicked    \* panic("remap")

tables == <<pt, writable, sz>>
locals == <<page, child, new>>
vars == <<free, ref, content, tables, pc, locals, panicked>>

NoPages == [v \in Pages |-> NoFrame]
ReadOnly == [v \in Pages |-> FALSE]

\* inituvm: the first process has one page.
Init ==
  \E p \in Procs, f \in Frames :
    /\ free = Frames \ {f}
    /\ ref = [g \in Frames |-> IF g = f THEN 1 ELSE 0]
    /\ content = [g \in Frames |-> IF g = f THEN Zero ELSE Junk]
    /\ pt = [q \in Procs |-> [NoPages EXCEPT ![1] = IF q = p THEN f ELSE @]]
    /\ writable = [q \in Procs |-> [ReadOnly EXCEPT ![1] = q = p]]
    /\ sz = [q \in Procs |-> IF q = p THEN 1 ELSE 0]
    /\ pc = [q \in Procs |-> IF q = p THEN "user" ELSE "unused"]
    /\ page = [q \in Procs |-> 1]
    /\ child = [q \in Procs |-> p]
    /\ new = [q \in Procs |-> NoFrame]
    /\ panicked = FALSE

At(p, point) == pc[p] = point /\ ~panicked
Goto(p, point) == pc' = [pc EXCEPT ![p] = point]

\* deallocuvm of the pages vs of p: one count less for each, and a frame
\* whose count gets to 0 goes to the free list.
Times(p, vs, f) == Cardinality({v \in vs : pt[p][v] = f})
Left(p, vs)  == [f \in Frames |-> ref[f] - Times(p, vs, f)]
Freed(p, vs) == {f \in Frames : ref[f] \in 1..Times(p, vs, f)}
Junked(fs)   == [f \in Frames |-> IF f \in fs THEN Junk ELSE content[f]]

Drop(p, vs) ==
  /\ ref' = Left(p, vs)
  /\ free' = free \cup Freed(p, vs)
  /\ content' = Junked(Freed(p, vs))

----------------------------------------------------------------------------
(* User-mode writes and the page fault handler *)

Write(p, v, x) ==
  /\ At(p, "user") /\ pt[p][v] # NoFrame /\ writable[p][v]
  /\ content' = [content EXCEPT ![pt[p][v]] = x]
  /\ UNCHANGED <<free, ref, tables, pc, locals, panicked>>

\* A count of 1 makes the page writable again; mutant: a count of 2 as well.
LastMappingLoose(f) == ref[f] <= 2
LastMapping(f) == ref[f] = 1

\* The write is not allowed: the first locked section of PF_handler.
Fault(p, v) ==
  /\ At(p, "user") /\ pt[p][v] # NoFrame /\ ~writable[p][v]
  /\ \/ /\ LastMapping(pt[p][v])
        /\ writable' = [writable EXCEPT ![p][v] = TRUE]
        /\ UNCHANGED <<pc, page>>
     \/ /\ ~LastMapping(pt[p][v]) /\ ref[pt[p][v]] > 1
        /\ Goto(p, "pf_alloc")
        /\ page' = [page EXCEPT ![p] = v]
        /\ UNCHANGED writable
  /\ UNCHANGED <<free, ref, content, pt, sz, child, new, panicked>>

\* kalloc and memmove, or out of memory: killed.
FaultCopy(p) ==
  /\ At(p, "pf_alloc")
  /\ \/ \E f \in free :
          /\ free' = free \ {f}
          /\ content' = [content EXCEPT ![f] = content[pt[p][page[p]]]]
          /\ new' = [new EXCEPT ![p] = f]
          /\ Goto(p, "pf_count")
     \/ free = {} /\ Goto(p, "killed") /\ UNCHANGED <<free, content, new>>
  /\ UNCHANGED <<ref, tables, page, child, panicked>>

\* The second locked section; mutant: the old frame is not discounted.
FaultCountedOnce(p) == [ref EXCEPT ![new[p]] = @ + 1]
FaultCounted(p) ==
  [ref EXCEPT ![pt[p][page[p]]] = @ - 1, ![new[p]] = @ + 1]

FaultCount(p) ==
  /\ At(p, "pf_count")
  /\ ref' = FaultCounted(p)
  /\ Goto(p, "pf_map")
  /\ UNCHANGED <<free, content, tables, locals, panicked>>

FaultMap(p) ==
  /\ At(p, "pf_map")
  /\ pt' = [pt EXCEPT ![p][page[p]] = new[p]]
  /\ writable' = [writable EXCEPT ![p][page[p]] = TRUE]
  /\ new' = [new EXCEPT ![p] = NoFrame]
  /\ page' = [page EXCEPT ![p] = 1]
  /\ Goto(p, "user")
  /\ UNCHANGED <<free, ref, content, sz, child, panicked>>

----------------------------------------------------------------------------
(* fork: copyuvm, page by page *)

Fork(p, q) ==
  /\ At(p, "user") /\ pc[q] = "unused"
  /\ pc' = [pc EXCEPT ![p] = "fork_map", ![q] = "embryo"]
  /\ child' = [child EXCEPT ![p] = q]
  /\ UNCHANGED <<free, ref, content, tables, page, new, panicked>>

\* copyuvm clears PTE_W in the parent as well; mutant: only in the child.
KeptW(p, v) == writable[p][v]
ClearedW(p, v) == FALSE

ForkMap(p) ==
  LET v == page[p] q == child[p] IN
  /\ At(p, "fork_map") /\ v <= sz[p]
  /\ writable' = [writable EXCEPT ![p][v] = ClearedW(p, v)]
  /\ pt' = [pt EXCEPT ![q][v] = pt[p][v]]
  /\ Goto(p, "fork_count")
  /\ UNCHANGED <<free, ref, content, sz, locals, panicked>>

\* One mapping more; mutant: the child's mapping is not counted.
SharedUncounted(f) == ref
Shared(f) == [ref EXCEPT ![f] = @ + 1]

ForkCount(p) ==
  /\ At(p, "fork_count")
  /\ ref' = Shared(pt[p][page[p]])
  /\ page' = [page EXCEPT ![p] = @ + 1]
  /\ Goto(p, "fork_map")
  /\ UNCHANGED <<free, content, tables, child, new, panicked>>

\* All pages are shared: the child becomes RUNNABLE.
ForkDone(p) ==
  LET q == child[p] IN
  /\ At(p, "fork_map") /\ page[p] > sz[p]
  /\ sz' = [sz EXCEPT ![q] = sz[p]]
  /\ pc' = [pc EXCEPT ![p] = "user", ![q] = "user"]
  /\ page' = [page EXCEPT ![p] = 1]
  /\ child' = [child EXCEPT ![p] = p]
  /\ UNCHANGED <<free, ref, content, pt, writable, new, panicked>>

\* mappages finds no frame for a page table: bad, freevm(d), fork returns -1.
\* This page is already write protected in the parent.
ForkFail(p) ==
  LET v == page[p] q == child[p] IN
  /\ At(p, "fork_map") /\ v <= sz[p]
  /\ writable' = [writable EXCEPT ![p][v] = FALSE]
  /\ Drop(q, Pages)
  /\ pt' = [pt EXCEPT ![q] = NoPages]
  /\ pc' = [pc EXCEPT ![p] = "user", ![q] = "unused"]
  /\ page' = [page EXCEPT ![p] = 1]
  /\ child' = [child EXCEPT ![p] = p]
  /\ UNCHANGED <<sz, new, panicked>>

----------------------------------------------------------------------------
(* sbrk, exec and exit *)

\* allocuvm of one page; mappages panics when its pte is present.
Grow(p) ==
  LET v == sz[p] + 1 IN
  /\ At(p, "user") /\ v \in Pages
  /\ \E f \in free :
       /\ free' = free \ {f}
       /\ content' = [content EXCEPT ![f] = Zero]
       /\ IF pt[p][v] # NoFrame
          THEN panicked' = TRUE /\ UNCHANGED <<ref, tables>>
          ELSE /\ pt' = [pt EXCEPT ![p][v] = f]
               /\ writable' = [writable EXCEPT ![p][v] = TRUE]
               /\ ref' = [ref EXCEPT ![f] = @ + 1]
               /\ sz' = [sz EXCEPT ![p] = v]
               /\ UNCHANGED panicked
  /\ UNCHANGED <<pc, locals>>

\* deallocuvm of one page: its pte is cleared only if the frame was freed.
Shrink(p) ==
  LET v == sz[p] IN
  /\ At(p, "user") /\ v > 1
  /\ ShrinkShared \/ ref[pt[p][v]] = 1
  /\ Drop(p, {v})
  /\ IF ref'[pt[p][v]] = 0
     THEN /\ pt' = [pt EXCEPT ![p][v] = NoFrame]
          /\ writable' = [writable EXCEPT ![p][v] = FALSE]
     ELSE UNCHANGED <<pt, writable>>
  /\ sz' = [sz EXCEPT ![p] = v - 1]
  /\ UNCHANGED <<pc, locals, panicked>>

\* exec: k new pages, then freevm of the old page table.
Exec(p) ==
  /\ At(p, "user")
  /\ \E k \in Pages : \E mem \in Injection(1..k, free) :
       LET fs == Range(mem) IN
       /\ pt' = [pt EXCEPT ![p] =
                   [v \in Pages |-> IF v <= k THEN mem[v] ELSE NoFrame]]
       /\ writable' = [writable EXCEPT ![p] = [v \in Pages |-> v <= k]]
       /\ sz' = [sz EXCEPT ![p] = k]
       /\ free' = (free \ fs) \cup Freed(p, Pages)
       /\ ref' = [f \in Frames |->
                    Left(p, Pages)[f] + IF f \in fs THEN 1 ELSE 0]
       /\ content' = [f \in Frames |-> IF f \in fs THEN Zero
                                        ELSE Junked(Freed(p, Pages))[f]]
  /\ UNCHANGED <<pc, locals, panicked>>

\* exit, and the freevm of the parent's wait.
Exit(p) ==
  /\ pc[p] \in {"user", "killed"} /\ ~panicked
  /\ Drop(p, Pages)
  /\ pt' = [pt EXCEPT ![p] = NoPages]
  /\ writable' = [writable EXCEPT ![p] = ReadOnly]
  /\ sz' = [sz EXCEPT ![p] = 0]
  /\ page' = [page EXCEPT ![p] = 1]
  /\ Goto(p, "unused")
  /\ UNCHANGED <<child, new, panicked>>

Next == \E p \in Procs :
  \/ \E v \in Pages, x \in Values : Write(p, v, x)
  \/ \E v \in Pages : Fault(p, v)
  \/ FaultCopy(p) \/ FaultCount(p) \/ FaultMap(p)
  \/ \E q \in Procs : Fork(p, q)
  \/ ForkMap(p) \/ ForkCount(p) \/ ForkDone(p) \/ ForkFail(p)
  \/ Grow(p) \/ Shrink(p) \/ Exec(p) \/ Exit(p)

Spec == Init /\ [][Next]_vars

----------------------------------------------------------------------------
(* Properties *)

Points == {"unused", "embryo", "user", "killed",
           "fork_map", "fork_count", "pf_alloc", "pf_count", "pf_map"}

TypeOK ==
  /\ free \subseteq Frames
  /\ ref \in [Frames -> Nat]
  /\ content \in [Frames -> Values]
  /\ pt \in [Procs -> [Pages -> Frames \cup {NoFrame}]]
  /\ writable \in [Procs -> [Pages -> BOOLEAN]]
  /\ sz \in [Procs -> 0..MaxPages]
  /\ pc \in [Procs -> Points]
  /\ page \in [Procs -> 1..MaxPages + 1]
  /\ child \in [Procs -> Procs]
  /\ new \in [Procs -> Frames \cup {NoFrame}]
  /\ panicked \in BOOLEAN

\* The frame p has at v once the copy PF_handler has counted is mapped.
FrameOf(p, v) ==
  IF pc[p] = "pf_map" /\ page[p] = v THEN new[p] ELSE pt[p][v]

Mappings(f) == {m \in Procs \X Pages : FrameOf(m[1], m[2]) = f}

\* A mapping copyuvm has made and not yet counted.
Uncounted(f) == {p \in Procs : pc[p] = "fork_count" /\ pt[p][page[p]] = f}

\* The count of a frame is the number of pages that map it, whatever the
\* order in which forks, faults, exits and execs of the sharers interleave
\* (reference_count in copyuvm, deallocuvm and PF_handler).
CountsRight ==
  \A f \in Frames :
    ref[f] = Cardinality(Mappings(f)) - Cardinality(Uncounted(f))

\* No page of a process is on the free list: what kalloc hands out is mapped
\* by nobody (deallocuvm's test of the count before kfree).
MappedNotFree == \A f \in free : Mappings(f) = {}

\* A page that may be written is mapped by one process only, so a write never
\* reaches memory another process reads (copyuvm clears PTE_W on both sides,
\* PF_handler sets it only for the last mapping).
WritableUnshared ==
  \A p \in Procs, v \in Pages :
    (writable[p][v] /\ pt[p][v] # NoFrame) => Mappings(pt[p][v]) = {<<p, v>>}

Private == INSTANCE PrivateMemory WITH
  Users <- Procs, Limit <- MaxPages,
  mem <- [p \in Procs |-> [v \in 1..sz[p] |-> content[FrameOf(p, v)]]]

\* A process sees its own memory: that fork shares the frames and faults copy
\* them later cannot be told from a fork that copies the pages at once.
ImplementsPrivateMemory == Private!Spec

\* A frame that nobody maps is free, or a fault is about to count it:
\* "Free a page table and all the physical memory pages in the user part"
\* (freevm).
NoLeak ==
  \A f \in Frames \ free :
    ref[f] > 0 \/ \E p \in Procs : pc[p] = "pf_count" /\ new[p] = f
============================================================================
