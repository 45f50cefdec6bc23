--------------------------- MODULE InodeCacheProofs ---------------------------
(***************************************************************************)
(* Proofs about InodeCache, for any number of inodes and any finite sets   *)
(* of processes, files and names: the counts of references (RefInv), and,  *)
(* as long as programs remove no directory others are using, the counts of *)
(* links, the tree of directories and what may be freed (LinkInv).         *)
(***************************************************************************)
EXTENDS InodeCache, FiniteSetTheorems, SequenceTheorems, TLAPS

Element == Names \cup {".."}
Calls == {"none", "open", "create", "mkdir", "unlink", "link", "chdir"}

\* Types; that no count of links becomes negative is a matter of LinksRight.
DataTypes ==
  /\ type \in [Inums -> Types] /\ ctype \in [Inums -> Types]
  /\ nlink \in [Inums -> Int] /\ ref \in [Inums -> Nat]
  /\ entries \in [Inums -> [Names -> Inums \cup {None}]]
  /\ dotdot \in [Inums -> Inums]
  /\ valid \in [Inums -> BOOLEAN]
  /\ holder \in [Inums -> Procs \cup {Nobody}]
  /\ fref \in [Files -> Nat] /\ fip \in [Files -> Inums \cup {None}]
  /\ fd \in [Procs -> Files \cup {NoFile}]
  /\ cwd \in [Procs -> Inums] /\ panicked \in BOOLEAN
CallTypes ==
  /\ pc \in [Procs -> Points] /\ after \in [Procs -> Points]
  /\ put \in [Procs -> Inums \cup {None}]
  /\ cur \in [Procs -> Inums \cup {None}] /\ old \in [Procs -> Inums \cup {None}]
  /\ call \in [Procs -> Calls]
  /\ path \in [Procs -> Seq(Element)] /\ to \in [Procs -> Seq(Element)]

\* What a call has in its local variables at each of its points.
AfterPut == {"idle", "walk", "found", "made", "unnamed", "release", "linked", "bad"}
ShapeOf(p) ==
  /\ HoldsPut(p) => put[p] # None /\ after[p] \in AfterPut
  /\ HoldsCur(p) => cur[p] # None
  /\ Stage(p) = "idle" => old[p] = None
  /\ Stage(p) \in {"iget", "new", "made"} => call[p] \in {"create", "mkdir"}
  /\ Stage(p) \in {"victim", "unnamed"} => call[p] = "unlink"
  /\ Stage(p) \in {"linked", "bad"} => call[p] = "link"
  /\ Stage(p) \in {"iget", "new", "made", "victim", "unnamed", "linked", "bad"} =>
       old[p] # None
  /\ Stage(p) = "release" =>
       call[p] = "unlink" \/ (call[p] = "link" /\ old[p] # None)
  /\ (Stage(p) = "found" /\ call[p] = "link") => old[p] = None
  /\ Stage(p) = "parent" => ForParent(p) /\ Len(path[p]) = 1
  /\ Stage(p) \in {"walk", "iget", "new", "victim"} => path[p] # <<>>
  /\ (call[p] = "link" /\ old[p] = None) => to[p] # <<>>
Shape == \A p \in Procs : ShapeOf(p)

\* What iput is about, what namex or the call is at, and what the call keeps.
PutRef(p) == IF HoldsPut(p) THEN put[p] ELSE None
CurRef(p) == IF HoldsCur(p) THEN cur[p] ELSE None
OldRef(p) == IF HoldsOld(p) THEN old[p] ELSE None

\* The open files.
Users(f) == {p \in Procs : fd[p] = f}
FilesRight == \A f \in Files :
  /\ fref[f] = Cardinality(Users(f))
  /\ fref[f] > 0 => fip[f] # None

Counted == \A i \in Inums : ref[i] = RefsTo(i)

RefInv == DataTypes /\ CallTypes /\ Shape /\ FilesRight /\ Counted

----------------------------------------------------------------------------
(* What else holds as long as no directory is removed that others use *)

Flag(x) == IF x THEN 1 ELSE 0

\* Who holds which lock.
LocksOf(p) ==
  /\ Stage(p) \in {"iget", "new", "victim", "release"} => holder[cur[p]] = p
  /\ Stage(p) \in {"made", "unnamed"} => holder[old[p]] = p
  /\ pc[p] \in {"trunc", "inval"} => holder[put[p]] = p
  /\ pc[p] = "inval" => CurRef(p) # put[p] /\ OldRef(p) # put[p]
Locks == \A p \in Procs : LocksOf(p)

\* What a call found in the directory it has locked is still there.
FoundBy(p) ==
  /\ pc[p] \in {"iget", "new"} =>
       Name(p) # ".." /\ entries[cur[p]][Name(p)] = None /\ type[cur[p]] = "dir"
  /\ pc[p] = "victim" => Name(p) # ".." /\ entries[cur[p]][Name(p)] = old[p]
  /\ pc[p] = "parent" => type[cur[p]] = "dir"
Found == \A p \in Procs : FoundBy(p)

\* Who keeps an inode from being freed: every reference but those of an iput
\* that has freed it.
HeldBy(p, i) == \/ cwd[p] = i \/ CurRef(p) = i \/ OldRef(p) = i
                \/ pc[p] \in {"put", "trunc"} /\ put[p] = i
HeldByFile(i) == \E f \in Files : fref[f] > 0 /\ fip[f] = i

Live ==
  /\ \A i \in Inums : (HeldByFile(i) \/ \E p \in Procs : HeldBy(p, i)) => type[i] # "free"
  /\ \A p \in Procs : /\ type[cwd[p]] = "dir"
                      /\ (call[p] = "link" /\ OldRef(p) # None) => type[OldRef(p)] = "file"

\* A directory is in the tree if it has a name, or is its root.
InTree(i) == i = ROOTINO \/ NamesOf(i) # {}
Tree ==
  /\ type[ROOTINO] = "dir" /\ NamesOf(ROOTINO) = {} /\ dotdot[ROOTINO] = ROOTINO
  /\ \A i \in Inums : entries[i] # NoEntries => type[i] = "dir" /\ InTree(i)
  /\ \A i \in Inums : NamesOf(i) # {} => type[i] # "free"
  /\ \A i \in Inums, n \in Names, j \in Inums :
       (j = entries[i][n] /\ type[j] = "dir") => dotdot[j] = i /\ NamesOf(j) = {<<i, n>>}

\* A directory that a process is in, or at, is in the tree.
WalkedBy(p, i) == cwd[p] = i \/ CurRef(p) = i
Walkers == \A i \in Inums :
  (type[i] = "dir" /\ \E p \in Procs : WalkedBy(p, i)) => InTree(i)

\* Only create refers to the inode it has just allocated, but for who has freed
\* it before.
FreshOf(p) == pc[p] \in {"iget", "new"} =>
  /\ type[old[p]] = (IF call[p] = "mkdir" THEN "dir" ELSE "file") /\ nlink[old[p]] = 0
  /\ cwd[p] # old[p] /\ CurRef(p) # old[p] /\ ~HeldByFile(old[p])
  /\ \A q \in Procs \ {p} : ~HeldBy(q, old[p]) /\ ~(pc[q] = "iget" /\ old[q] = old[p])
Fresh == \A p \in Procs : FreshOf(p)

\* iput frees what only it refers to, without links.
Freeing == \A p \in Procs : pc[p] = "trunc" => nlink[put[p]] = 0 /\ ref[put[p]] = 1

\* nlink, of every inode.
LinksOf(i) == Flag(i = ROOTINO) + Cardinality(NamesOf(i)) + Uncounted(i)
              + Cardinality(Children(i))
LinkCounts == \A i \in Inums : nlink[i] = LinksOf(i)

\* What is in the cache is what is on the disk.
Loading(i) == \E p \in Procs : pc[p] = "inval" /\ put[p] = i
CacheRight == \A i \in Inums :
  valid[i] /\ ~Loading(i) => ctype[i] = type[i] /\ type[i] # "free"

LinkInv == /\ Locks /\ Found /\ Live /\ Tree /\ Walkers /\ Fresh /\ Freeing
           /\ LinkCounts /\ CacheRight

----------------------------------------------------------------------------
(* Counting *)

\* A set that changes by at most one element.
LEMMA CountsOne ==
  ASSUME NEW S, NEW T, NEW p, IsFiniteSet(S), T \ {p} = S \ {p}
  PROVE  /\ IsFiniteSet(T) /\ Cardinality(S) \in Nat /\ Cardinality(T) \in Nat
         /\ Cardinality(T) = Cardinality(S) + Flag(p \in T) - Flag(p \in S)
<1> DEFINE R == S \ {p}
<1>1. IsFiniteSet(R) /\ Cardinality(R) = Cardinality(S) - Flag(p \in S)
      /\ Cardinality(S) \in Nat
  BY FS_RemoveElement, FS_CardinalityType DEF Flag
<1>2. CASE p \in T
  <2>1. T = R \cup {p} /\ p \notin R
    BY <1>2
  <2>2. IsFiniteSet(T) /\ Cardinality(T) = Cardinality(R) + 1
    BY <1>1, <2>1, FS_AddElement
  <2> QED BY <1>1, <1>2, <2>2, FS_CardinalityType DEF Flag
<1>3. CASE p \notin T
  <2>1. T = R
    BY <1>3
  <2> QED BY <1>1, <1>3, <2>1, FS_CardinalityType DEF Flag
<1> QED BY <1>2, <1>3

\* A set of processes, or of files, that are so and so.
LEMMA Finite ==
  /\ \A S \in SUBSET Procs : IsFiniteSet(S) /\ Cardinality(S) \in Nat
  /\ \A S \in SUBSET Files : IsFiniteSet(S) /\ Cardinality(S) \in Nat
BY FS_Subset, FS_CardinalityType, InodeAssumption

\* The references of one process to i, and those of the files.
Own(p, i) == Flag(cwd[p] = i) + Flag(PutRef(p) = i) + Flag(CurRef(p) = i)
             + Flag(OldRef(p) = i)
FileRefs(i) == Cardinality({f \in Files : fref[f] > 0 /\ fip[f] = i})

\* Nothing changes in the locals of the processes other than p.
Others(p) == \A q \in Procs : q # p =>
  /\ cwd'[q] = cwd[q] /\ pc'[q] = pc[q] /\ call'[q] = call[q] /\ path'[q] = path[q]
  /\ to'[q] = to[q] /\ cur'[q] = cur[q] /\ old'[q] = old[q] /\ put'[q] = put[q]
  /\ after'[q] = after[q]

LEMMA OthersAre ==
  ASSUME NEW p \in Procs, Others(p)
  PROVE  \A q \in Procs : q # p =>
           /\ cwd'[q] = cwd[q] /\ pc'[q] = pc[q] /\ call'[q] = call[q]
           /\ path'[q] = path[q] /\ cur'[q] = cur[q] /\ old'[q] = old[q]
           /\ put'[q] = put[q] /\ Stage(q)' = Stage(q) /\ PutRef(q)' = PutRef(q)
           /\ CurRef(q)' = CurRef(q) /\ OldRef(q)' = OldRef(q)
           /\ (ShapeOf(q) => ShapeOf(q)') /\ Name(q)' = Name(q)
BY DEF Others, Stage, PutRef, CurRef, OldRef, HoldsPut, HoldsCur, HoldsOld, ShapeOf,
       ForParent, SecondPath, Stage, Name

\* So the references to i change by those of p and of the files.
LEMMA OneProcess ==
  ASSUME NEW p \in Procs, NEW i \in Inums, Others(p)
  PROVE  /\ RefsTo(i) \in Nat /\ FileRefs(i) \in Nat /\ FileRefs(i)' \in Nat
         /\ RefsTo(i)' = RefsTo(i) + Own(p, i)' - Own(p, i) + FileRefs(i)' - FileRefs(i)
<1> DEFINE W == {q \in Procs : cwd[q] = i}
           U == {q \in Procs : HoldsPut(q) /\ put[q] = i}
           K == {q \in Procs : HoldsCur(q) /\ cur[q] = i}
           O == {q \in Procs : HoldsOld(q) /\ old[q] = i}
<1>1. i # None
  BY DEF Inums, None
<1>2. /\ \A q \in Procs : q \in U <=> PutRef(q) = i
      /\ \A q \in Procs : q \in K <=> CurRef(q) = i
      /\ \A q \in Procs : q \in O <=> OldRef(q) = i
      /\ \A q \in Procs : q \in U' <=> PutRef(q)' = i
      /\ \A q \in Procs : q \in K' <=> CurRef(q)' = i
      /\ \A q \in Procs : q \in O' <=> OldRef(q)' = i
  BY <1>1 DEF PutRef, CurRef, OldRef
<1>3. /\ W \in SUBSET Procs /\ U \in SUBSET Procs /\ K \in SUBSET Procs
      /\ O \in SUBSET Procs /\ W' \in SUBSET Procs /\ U' \in SUBSET Procs
      /\ K' \in SUBSET Procs /\ O' \in SUBSET Procs
  OBVIOUS
<1>4. W' \ {p} = W \ {p}
  BY DEF Others
<1>5. U' \ {p} = U \ {p} /\ K' \ {p} = K \ {p} /\ O' \ {p} = O \ {p}
  BY <1>2, <1>3, OthersAre
<1>6. FileRefs(i) \in Nat /\ FileRefs(i)' \in Nat
  BY Finite DEF FileRefs
<1>7. /\ Cardinality(W') = Cardinality(W) + Flag(p \in W') - Flag(p \in W)
      /\ Cardinality(U') = Cardinality(U) + Flag(p \in U') - Flag(p \in U)
      /\ Cardinality(K') = Cardinality(K) + Flag(p \in K') - Flag(p \in K)
      /\ Cardinality(O') = Cardinality(O) + Flag(p \in O') - Flag(p \in O)
      /\ Cardinality(W) \in Nat /\ Cardinality(U) \in Nat
      /\ Cardinality(K) \in Nat /\ Cardinality(O) \in Nat
  BY <1>3, <1>4, <1>5, Finite, CountsOne
<1>8. /\ RefsTo(i) = Cardinality(W) + FileRefs(i) + Cardinality(U) + Cardinality(K)
                     + Cardinality(O)
      /\ RefsTo(i)' = Cardinality(W') + FileRefs(i)' + Cardinality(U')
                      + Cardinality(K') + Cardinality(O')
  BY DEF RefsTo, FileRefs
<1>9. /\ Own(p, i) = Flag(p \in W) + Flag(p \in U) + Flag(p \in K) + Flag(p \in O)
      /\ Own(p, i)' = Flag(p \in W') + Flag(p \in U') + Flag(p \in K') + Flag(p \in O')
  BY <1>2 DEF Own, Flag
<1> HIDE DEF W, U, K, O
<1>10. /\ Flag(p \in W) \in {0, 1} /\ Flag(p \in U) \in {0, 1} /\ Flag(p \in K) \in {0, 1}
       /\ Flag(p \in O) \in {0, 1} /\ Flag(p \in W') \in {0, 1}
       /\ Flag(p \in U') \in {0, 1} /\ Flag(p \in K') \in {0, 1}
       /\ Flag(p \in O') \in {0, 1}
  BY DEF Flag
<1> QED BY <1>6, <1>7, <1>8, <1>9, <1>10

\* A step of p that leaves the files alone, and counts what it takes and gives.
LEMMA CountedKeeps ==
  ASSUME Counted, NEW p \in Procs, Others(p), UNCHANGED <<fref, fip>>,
         \A i \in Inums : ref'[i] = ref[i] + Own(p, i)' - Own(p, i)
  PROVE  Counted'
<1>1. \A i \in Inums : FileRefs(i)' = FileRefs(i)
  BY DEF FileRefs
<1>2. ASSUME NEW i \in Inums PROVE ref'[i] = RefsTo(i)'
  <2>1. Own(p, i) \in Int /\ Own(p, i)' \in Int
    BY DEF Own, Flag
  <2> QED BY <1>1, <2>1, OneProcess DEF Counted
<1> QED BY <1>2 DEF Counted

----------------------------------------------------------------------------
(* What a step does to the locals of its process *)

RefTypes == DataTypes /\ CallTypes /\ Shape
Turn(p) == CallTypes' /\ Others(p) /\ ShapeOf(p)'

\* What p refers to, for iput, at the place it is at, and kept aside.
Refs(p, u, k, o) == PutRef(p) = u /\ CurRef(p) = k /\ OldRef(p) = o

LEMMA Constants ==
  /\ None \notin Inums /\ ROOTINO \in Inums /\ NoFile \notin Files /\ Nobody \notin Procs
  /\ ".." \notin Names /\ Paths \subseteq Seq(Element) \ {<<>>} /\ <<>> \in Seq(Element)
BY InodeAssumption, EmptySeq DEF None, Inums, ROOTINO, Element

\* The paths a call still walks.
LEMMA PathIs ==
  ASSUME CallTypes, NEW p \in Procs, path[p] # <<>>
  PROVE  /\ Name(p) \in Element /\ Tail(path[p]) \in Seq(Element)
         /\ Len(path[p]) \in Nat \ {0}
         /\ Len(path[p]) # 1 => Tail(path[p]) # <<>>
<1>1. path[p] \in Seq(Element)
  BY DEF CallTypes
<1>2. /\ Len(path[p]) \in Nat \ {0} /\ Head(path[p]) \in Element
      /\ Tail(path[p]) \in Seq(Element) /\ Len(Tail(path[p])) = Len(path[p]) - 1
  BY <1>1, EmptySeq, HeadTailProperties, LenProperties
<1>3. Len(path[p]) # 1 => Tail(path[p]) # <<>>
  <2>1. SUFFICES ASSUME Tail(path[p]) = <<>> PROVE Len(path[p]) = 1
    OBVIOUS
  <2>2. Len(<<>>) = 0
    OBVIOUS
  <2>3. Len(Tail(path[p])) = 0
    BY <2>1, <2>2, Zenon
  <2> QED BY <1>2, <2>3
<1> QED BY <1>2, <1>3 DEF Name

LEMMA LookupIs ==
  ASSUME DataTypes, NEW d \in Inums, NEW n \in Element
  PROVE  Lookup(d, n) \in Inums \cup {None}
BY DEF DataTypes, Lookup, Element

\* A call that ends with iput ...
LEMMA LastPutMoves ==
  ASSUME RefTypes, NEW p \in Procs, NEW i \in Inums, LastPut(p, i),
         \A q \in Procs : q # p => cwd'[q] = cwd[q]
  PROVE  /\ Turn(p) /\ Refs(p, i, None, None)' /\ Stage(p)' = "idle"
         /\ pc'[p] = "put" /\ put'[p] = i
<1>1. /\ pc'[p] = "put" /\ put'[p] = i /\ after'[p] = "idle" /\ call'[p] = "none"
      /\ path'[p] = <<>> /\ to'[p] = <<>> /\ cur'[p] = None /\ old'[p] = None
  BY DEF RefTypes, CallTypes, LastPut, Put, Goto, Blank, Walked
<1>2. CallTypes'
  BY Constants DEF RefTypes, CallTypes, LastPut, Put, Goto, Blank, Walked, Points, Calls
<1>3. Others(p)
  BY DEF RefTypes, CallTypes, LastPut, Put, Goto, Blank, Walked, Others
<1>4. ~HoldsCur(p)' /\ ~HoldsOld(p)' /\ HoldsPut(p)' /\ Stage(p)' = "idle"
  BY <1>1 DEF HoldsPut, HoldsCur, HoldsOld, Stage
<1>5. ShapeOf(p)'
  BY <1>1, <1>4, Constants DEF ShapeOf, AfterPut
<1> QED BY <1>1, <1>2, <1>3, <1>4, <1>5 DEF Turn, Refs, PutRef, CurRef, OldRef

\* ... or without ...
LEMMA ReturnMoves ==
  ASSUME RefTypes, NEW p \in Procs, Return(p), UNCHANGED cwd
  PROVE  Turn(p) /\ Refs(p, None, None, None)' /\ Stage(p)' = "idle" /\ pc'[p] = "idle"
<1>1. /\ pc'[p] = "idle" /\ call'[p] = "none"
      /\ path'[p] = <<>> /\ to'[p] = <<>> /\ cur'[p] = None /\ old'[p] = None
  BY DEF RefTypes, CallTypes, Return, Goto, Blank, Walked
<1>2. CallTypes'
  BY Constants DEF RefTypes, CallTypes, Return, Goto, Blank, Walked, Points, Calls
<1>3. Others(p)
  BY DEF RefTypes, CallTypes, Return, Goto, Blank, Walked, Others
<1>4. ~HoldsCur(p)' /\ ~HoldsOld(p)' /\ ~HoldsPut(p)' /\ Stage(p)' = "idle"
  BY <1>1 DEF HoldsPut, HoldsCur, HoldsOld, Stage
<1>5. ShapeOf(p)'
  BY <1>1, <1>4 DEF ShapeOf
<1> QED BY <1>1, <1>2, <1>3, <1>4, <1>5 DEF Turn, Refs, PutRef, CurRef, OldRef

\* ... and a call that gives back its directory and goes on with what it kept.
LEMMA PutDirMoves ==
  ASSUME RefTypes, NEW p \in Procs, NEW d \in Inums, NEW o \in Inums, o = old[p],
         NEW point \in {"made", "unnamed", "linked", "bad"},
         Put(p, d, point), Walked(p), UNCHANGED <<call, to, old, cwd>>,
         point = "made" => call[p] \in {"create", "mkdir"},
         point = "unnamed" => call[p] = "unlink",
         point \in {"linked", "bad"} => call[p] = "link"
  PROVE  /\ Turn(p) /\ Refs(p, d, None, o)' /\ Stage(p)' = point
         /\ pc'[p] = "put" /\ put'[p] = d /\ old'[p] = o
<1>1. /\ pc'[p] = "put" /\ put'[p] = d /\ after'[p] = point /\ call'[p] = call[p]
      /\ path'[p] = <<>> /\ to'[p] = to[p] /\ cur'[p] = None /\ old'[p] = o
  BY DEF RefTypes, CallTypes, Put, Goto, Walked
<1>2. CallTypes'
  BY Constants DEF RefTypes, CallTypes, Put, Goto, Walked, Points
<1>3. Others(p)
  BY DEF RefTypes, CallTypes, Put, Goto, Walked, Others
<1>4. ~HoldsCur(p)' /\ HoldsOld(p)' /\ HoldsPut(p)' /\ Stage(p)' = point
  BY <1>1, Constants DEF HoldsPut, HoldsCur, HoldsOld, Stage
<1>5. ShapeOf(p)'
  BY <1>1, <1>4, Constants DEF ShapeOf, AfterPut
<1> QED BY <1>1, <1>2, <1>3, <1>4, <1>5 DEF Turn, Refs, PutRef, CurRef, OldRef

\* What p refers to before its step.
LEMMA RefsAre ==
  ASSUME RefTypes, NEW p \in Procs
  PROVE  /\ pc[p] = "idle" => Stage(p) = "idle" /\ Refs(p, None, None, None)
         /\ pc[p] = "walk" => /\ Stage(p) = "walk" /\ PutRef(p) = None
                              /\ CurRef(p) = cur[p] /\ cur[p] \in Inums
                              /\ OldRef(p) = IF SecondPath(p) THEN old[p] ELSE None
         /\ pc[p] = "found" => /\ Stage(p) = "found" /\ Refs(p, None, cur[p], None)
                               /\ cur[p] \in Inums
         /\ pc[p] = "parent" => /\ Stage(p) = "parent" /\ PutRef(p) = None
                                /\ CurRef(p) = cur[p] /\ cur[p] \in Inums
                                /\ OldRef(p) = IF call[p] = "link" THEN old[p] ELSE None
                                /\ call[p] = "link" => old[p] \in Inums
         /\ pc[p] = "iget" => /\ Stage(p) = "iget" /\ Refs(p, None, cur[p], None)
                              /\ cur[p] \in Inums /\ old[p] \in Inums
         /\ pc[p] \in {"new", "victim"} =>
              /\ Stage(p) = pc[p] /\ Refs(p, None, cur[p], old[p])
              /\ cur[p] \in Inums /\ old[p] \in Inums
         /\ pc[p] \in {"made", "unnamed", "linked", "bad"} =>
              /\ Stage(p) = pc[p] /\ Refs(p, None, None, old[p]) /\ old[p] \in Inums
         /\ pc[p] = "release" => /\ Stage(p) = "release" /\ PutRef(p) = None
                                 /\ CurRef(p) = cur[p] /\ cur[p] \in Inums
                                 /\ OldRef(p) = IF SecondPath(p) THEN old[p] ELSE None
         /\ HoldsPut(p) => /\ Stage(p) = after[p] /\ PutRef(p) = put[p] /\ put[p] \in Inums
                           /\ after[p] \in AfterPut
         /\ CurRef(p) \in Inums \cup {None} /\ OldRef(p) \in Inums \cup {None}
<1>1. /\ ShapeOf(p)
      /\ put[p] \in Inums \cup {None} /\ cur[p] \in Inums \cup {None}
      /\ old[p] \in Inums \cup {None}
  BY DEF RefTypes, Shape, CallTypes
<1>2. /\ HoldsPut(p) => put[p] # None /\ after[p] \in AfterPut
      /\ HoldsCur(p) => cur[p] # None
      /\ Stage(p) = "idle" => old[p] = None
      /\ Stage(p) \in {"iget", "new", "made"} => call[p] # "link"
      /\ Stage(p) \in {"victim", "unnamed"} => call[p] = "unlink"
      /\ Stage(p) \in {"linked", "bad"} => call[p] = "link"
      /\ Stage(p) \in {"iget", "new", "made", "victim", "unnamed", "linked", "bad"} =>
           old[p] # None
      /\ (Stage(p) = "found" /\ call[p] = "link") => old[p] = None
      /\ (Stage(p) = "parent" /\ call[p] = "link") => old[p] # None
  BY <1>1 DEF ShapeOf, ForParent, SecondPath
<1> QED BY <1>1, <1>2 DEF Stage, HoldsPut, HoldsCur, HoldsOld, PutRef, CurRef, OldRef,
        Refs, SecondPath

----------------------------------------------------------------------------
(* The steps that take a reference: Iget(i) adds one to ref *)

LEMMA BeginMoves ==
  ASSUME RefTypes, NEW p \in Procs, NEW c \in Calls \ {"none"}, Begin(p, c)
  PROVE  \E s \in Inums :
           /\ s \in {ROOTINO, cwd[p]} /\ Iget(s) /\ Turn(p) /\ cwd' = cwd
           /\ pc[p] = "idle" /\ pc'[p] = "walk" /\ Refs(p, None, s, None)'
           /\ Stage(p)' = "walk" /\ old'[p] = None
<1>1. PICK s \in Inums, w \in Paths, t \in Paths :
        Walk(p, s, w) /\ to' = [to EXCEPT ![p] = IF c = "link" THEN t ELSE <<>>]
  BY DEF Begin
<1>2. /\ w \in Seq(Element) /\ w # <<>> /\ t \in Seq(Element) /\ t # <<>>
  BY Constants
<1>3. pc[p] = "idle" /\ old[p] = None
  BY RefsAre DEF Begin, At, RefTypes, Shape, ShapeOf
<1>4. /\ pc' = [pc EXCEPT ![p] = "walk"] /\ cur' = [cur EXCEPT ![p] = s]
      /\ path' = [path EXCEPT ![p] = w] /\ call' = [call EXCEPT ![p] = c]
      /\ UNCHANGED <<cwd, old, put, after>>
  BY <1>1 DEF Begin, Walk, Goto
<1>5. CallTypes'
  BY <1>1, <1>2, <1>4, Constants DEF RefTypes, CallTypes, Points
<1>6. Others(p)
  BY <1>1, <1>4 DEF RefTypes, CallTypes, Others
<1>7. /\ pc'[p] = "walk" /\ cur'[p] = s /\ path'[p] = w /\ old'[p] = None
      /\ (call'[p] = "link" => to'[p] # <<>>)
  BY <1>1, <1>2, <1>3, <1>4 DEF RefTypes, CallTypes
<1>8. HoldsCur(p)' /\ ~HoldsPut(p)' /\ ~HoldsOld(p)' /\ Stage(p)' = "walk"
  BY <1>7 DEF HoldsPut, HoldsCur, HoldsOld, Stage
<1>9. ShapeOf(p)'
  BY <1>2, <1>7, <1>8, Constants DEF ShapeOf
<1>10. Refs(p, None, s, None)'
  BY <1>7, <1>8 DEF Refs, PutRef, CurRef, OldRef
<1> QED BY <1>1, <1>3, <1>4, <1>5, <1>6, <1>7, <1>8, <1>9, <1>10 DEF Turn, Walk

LEMMA StepMoves ==
  ASSUME RefTypes, NEW p \in Procs, Step(p)
  PROVE  \E d \in Inums, o \in Inums \cup {None} :
           /\ d = cur[p] /\ pc[p] = "walk" /\ Refs(p, None, d, o) /\ Load(d)
           /\ o # None => old[p] = o /\ call[p] = "link"
           /\ Turn(p) /\ cwd' = cwd
           /\ \/ /\ Loaded(d) = "dir" /\ ref' = ref /\ Refs(p, None, d, o)'
                 /\ pc'[p] = "parent" /\ Stage(p)' = "parent"
              \/ \E n \in Element, i \in Inums :
                   /\ Loaded(d) = "dir" /\ i = Lookup(d, n) /\ Iget(i)
                   /\ Refs(p, d, i, o)' /\ pc'[p] = "put" /\ put'[p] = d
                   /\ Stage(p)' \in {"walk", "found"} /\ old'[p] = old[p]
                   /\ Stage(p)' = "found" => o = None
              \/ /\ ref' = ref /\ Refs(p, d, None, o)' /\ pc'[p] = "put"
                 /\ put'[p] = d
                 /\ \/ Stage(p)' = "idle" /\ o = None
                    \/ Stage(p)' = "bad" /\ o # None /\ old'[p] = o
<1>0. PICK o \in Inums \cup {None} : o = IF SecondPath(p) THEN old[p] ELSE None
  BY DEF RefTypes, CallTypes
<1>1. PICK d \in Inums : d = cur[p]
  BY RefsAre DEF Step, At
<1>2. /\ pc[p] = "walk" /\ Refs(p, None, d, o) /\ Load(d) /\ cwd' = cwd
      /\ path[p] # <<>> /\ o \in Inums \cup {None} /\ ShapeOf(p)
      /\ o # None => old[p] = o /\ call[p] = "link"
  <2>1. pc[p] = "walk" /\ Load(d) /\ cwd' = cwd
    BY <1>1 DEF Step, At
  <2>2. Refs(p, None, d, o) /\ Stage(p) = "walk"
    BY <1>0, <1>1, <2>1, RefsAre DEF Refs
  <2>3. o # None => old[p] = o /\ call[p] = "link"
    BY <1>0 DEF SecondPath
  <2> QED BY <2>1, <2>2, <2>3 DEF RefTypes, CallTypes, Shape, ShapeOf
<1>3. CASE /\ Loaded(d) = "dir" /\ ForParent(p) /\ Len(path[p]) = 1
           /\ Goto(p, "parent") /\ UNCHANGED <<ref, args, put, after>>
  <2>1. CallTypes' /\ Others(p)
    BY <1>2, <1>3 DEF RefTypes, CallTypes, Others, Points, Goto, args
  <2>2. /\ pc'[p] = "parent" /\ cur'[p] = d /\ old'[p] = old[p] /\ call'[p] = call[p]
        /\ path'[p] = path[p] /\ to'[p] = to[p]
    BY <1>1, <1>3 DEF RefTypes, CallTypes, Goto, args
  <2>3. /\ HoldsCur(p)' /\ ~HoldsPut(p)' /\ Stage(p)' = "parent"
        /\ (HoldsOld(p)' <=> SecondPath(p))
        /\ (ForParent(p)' <=> ForParent(p)) /\ (SecondPath(p)' <=> SecondPath(p))
    BY <2>2 DEF HoldsPut, HoldsCur, HoldsOld, Stage, SecondPath, ForParent
  <2>4. ShapeOf(p)'
    BY <1>2, <1>3, <2>2, <2>3, Constants DEF ShapeOf
  <2>5. Refs(p, None, d, o)'
    BY <1>0, <2>2, <2>3 DEF Refs, PutRef, CurRef, OldRef
  <2> QED BY <1>1, <1>2, <1>3, <2>1, <2>2, <2>3, <2>4, <2>5 DEF Turn
<1>4. CASE /\ Loaded(d) = "dir" /\ ~(ForParent(p) /\ Len(path[p]) = 1)
           /\ Lookup(d, Name(p)) # None
           /\ Iget(Lookup(d, Name(p)))
           /\ cur' = [cur EXCEPT ![p] = Lookup(d, Name(p))]
           /\ path' = [path EXCEPT ![p] = Tail(path[p])]
           /\ Put(p, d, IF Len(path[p]) = 1 THEN "found" ELSE "walk")
           /\ UNCHANGED <<call, to, old>>
  <2>1. /\ Name(p) \in Element /\ Tail(path[p]) \in Seq(Element)
        /\ Len(path[p]) # 1 => Tail(path[p]) # <<>>
    BY <1>2, PathIs DEF RefTypes
  <2>2. PICK n \in Element, i \in Inums : n = Name(p) /\ i = Lookup(d, n)
    BY <1>4, <2>1, LookupIs DEF RefTypes
  <2>3. PICK point \in {"found", "walk"} :
          point = IF Len(path[p]) = 1 THEN "found" ELSE "walk"
    OBVIOUS
  <2>4. CallTypes' /\ Others(p)
    BY <1>2, <1>4, <2>1, <2>2, <2>3 DEF RefTypes, CallTypes, Others, Points, Put, Goto
  <2>5. /\ pc'[p] = "put" /\ put'[p] = d /\ after'[p] = point /\ cur'[p] = i
        /\ old'[p] = old[p] /\ call'[p] = call[p] /\ path'[p] = Tail(path[p])
        /\ to'[p] = to[p]
    BY <1>4, <2>2, <2>3 DEF RefTypes, CallTypes, Put, Goto
  <2>6. /\ HoldsCur(p)' /\ HoldsPut(p)' /\ Stage(p)' = point
        /\ (HoldsOld(p)' <=> SecondPath(p))
    BY <2>5 DEF HoldsPut, HoldsCur, HoldsOld, Stage, SecondPath
  <2>7. point = "found" => ~SecondPath(p)
    BY <1>4, <2>3 DEF ForParent
  <2>8. ShapeOf(p)'
    BY <1>2, <2>1, <2>3, <2>5, <2>6, <2>7, Constants DEF ShapeOf, AfterPut, SecondPath
  <2>9. Refs(p, d, i, o)'
    BY <1>0, <2>5, <2>6 DEF Refs, PutRef, CurRef, OldRef
  <2>10. Stage(p)' \in {"walk", "found"} /\ (Stage(p)' = "found" => o = None)
    BY <1>0, <2>6, <2>7
  <2>11. Loaded(d) = "dir" /\ Iget(i)
    BY <1>4, <2>2
  <2> QED BY <1>1, <1>2, <2>2, <2>4, <2>5, <2>8, <2>9, <2>10, <2>11 DEF Turn
<1>5. CASE Fail(p, d) /\ UNCHANGED ref
  <2>1. CASE SecondPath(p)
    <3>1. PICK k \in Inums : k = old[p]
      BY <2>1 DEF RefTypes, CallTypes, SecondPath
    <3>2. /\ Turn(p) /\ Refs(p, d, None, k)' /\ Stage(p)' = "bad"
          /\ pc'[p] = "put" /\ put'[p] = d /\ old'[p] = k
      BY <1>2, <1>5, <2>1, <3>1, PutDirMoves DEF Fail, SecondPath
    <3>3. o = k /\ o # None
      BY <1>0, <2>1, <3>1, Constants
    <3> QED BY <1>1, <1>2, <1>5, <3>2, <3>3
  <2>2. CASE ~SecondPath(p)
    <3>1. /\ Turn(p) /\ Refs(p, d, None, None)' /\ Stage(p)' = "idle"
          /\ pc'[p] = "put" /\ put'[p] = d
      BY <1>2, <1>5, <2>2, LastPutMoves DEF Fail
    <3> QED BY <1>0, <1>1, <1>2, <1>5, <2>2, <3>1
  <2> QED BY <2>1, <2>2
<1> QED BY <1>1, <1>3, <1>4, <1>5 DEF Step, Name

----------------------------------------------------------------------------
(* The steps of iput *)

\* Before the reference is dropped the call is where it was.
LEMMA PutGoesOn ==
  ASSUME RefTypes, NEW p \in Procs, HoldsPut(p), NEW point \in {"trunc", "inval", "drop"},
         Goto(p, point), UNCHANGED <<locals, cwd>>
  PROVE  /\ Turn(p) /\ PutRef(p)' = PutRef(p) /\ CurRef(p)' = CurRef(p)
         /\ OldRef(p)' = OldRef(p) /\ Stage(p)' = Stage(p) /\ pc'[p] = point
<1>1. CallTypes' /\ Others(p) /\ pc'[p] = point
  BY DEF RefTypes, CallTypes, Others, Points, Goto, locals, args
<1>2. HoldsPut(p)' /\ Stage(p)' = Stage(p)
  BY <1>1 DEF HoldsPut, Stage, locals, args
<1>3. /\ HoldsCur(p)' <=> HoldsCur(p)
      /\ HoldsOld(p)' <=> HoldsOld(p)
      /\ ForParent(p)' <=> ForParent(p)
  BY <1>2 DEF HoldsCur, HoldsOld, ForParent, SecondPath, locals, args
<1>4. ShapeOf(p)'
  BY <1>2, <1>3 DEF RefTypes, Shape, ShapeOf, locals, args
<1> QED BY <1>1, <1>2, <1>3, <1>4 DEF Turn, PutRef, CurRef, OldRef, locals, args

LEMMA PutDropMoves ==
  ASSUME RefTypes, NEW p \in Procs, PutDrop(p)
  PROVE  /\ Turn(p) /\ cwd' = cwd /\ put[p] \in Inums /\ PutRef(p) = put[p]
         /\ PutRef(p)' = None /\ CurRef(p)' = CurRef(p) /\ OldRef(p)' = OldRef(p)
         /\ Stage(p)' = Stage(p) /\ pc'[p] = Stage(p) /\ old' = old
         /\ pc[p] = "drop" /\ call' = call
<1>1. /\ pc[p] = "drop" /\ HoldsPut(p) /\ put[p] \in Inums /\ after[p] \in AfterPut
      /\ PutRef(p) = put[p] /\ Stage(p) = after[p]
  BY RefsAre DEF PutDrop, At, HoldsPut
<1>2. /\ pc' = [pc EXCEPT ![p] = after[p]] /\ put' = [put EXCEPT ![p] = None]
      /\ after' = [after EXCEPT ![p] = "idle"] /\ UNCHANGED <<cwd, call, path, to, cur, old>>
  BY DEF PutDrop, Goto, args
<1>3. CallTypes' /\ Others(p)
  BY <1>1, <1>2 DEF RefTypes, CallTypes, Others, Points, AfterPut
<1>4. pc'[p] = after[p]
  BY <1>2 DEF RefTypes, CallTypes
<1>5. ~HoldsPut(p)' /\ Stage(p)' = Stage(p)
  BY <1>1, <1>4 DEF HoldsPut, Stage, AfterPut
<1>6. /\ HoldsCur(p)' <=> HoldsCur(p)
      /\ HoldsOld(p)' <=> HoldsOld(p)
      /\ ForParent(p)' <=> ForParent(p)
  BY <1>2, <1>5 DEF HoldsCur, HoldsOld, ForParent, SecondPath
<1>7. ShapeOf(p)'
  BY <1>2, <1>5, <1>6 DEF RefTypes, Shape, ShapeOf
<1> QED BY <1>1, <1>2, <1>3, <1>4, <1>5, <1>6, <1>7 DEF Turn, PutRef, CurRef, OldRef

----------------------------------------------------------------------------
(* The steps of the system calls *)

LEMMA OpenMoves ==
  ASSUME RefTypes, NEW p \in Procs, Open(p)
  PROVE  \E i \in Inums :
           /\ i = cur[p] /\ pc[p] = "found" /\ Refs(p, None, i, None) /\ Load(i)
           /\ Turn(p) /\ cwd' = cwd /\ ref' = ref /\ Stage(p)' = "idle"
           /\ \/ Opened(p, i) /\ Refs(p, None, None, None)' /\ pc'[p] = "idle"
              \/ /\ UNCHANGED files /\ Refs(p, i, None, None)'
                 /\ pc'[p] = "put" /\ put'[p] = i
<1>1. PICK i \in Inums : i = cur[p]
  BY RefsAre DEF Open, At
<1>2. /\ pc[p] = "found" /\ Refs(p, None, i, None) /\ Load(i)
      /\ cwd' = cwd /\ ref' = ref
  BY <1>1, RefsAre DEF Open, At
<1>3. CASE Opened(p, i)
  BY <1>1, <1>2, <1>3, ReturnMoves DEF Opened
<1>4. CASE LastPut(p, i) /\ UNCHANGED files
  BY <1>1, <1>2, <1>4, LastPutMoves
<1> QED BY <1>1, <1>3, <1>4 DEF Open

LEMMA ChdirMoves ==
  ASSUME RefTypes, NEW p \in Procs, Chdir(p)
  PROVE  \E i \in Inums, u \in Inums :
           /\ i = cur[p] /\ pc[p] = "found" /\ Refs(p, None, i, None) /\ Load(i)
           /\ Turn(p) /\ ref' = ref /\ UNCHANGED files
           /\ Refs(p, u, None, None)' /\ Stage(p)' = "idle" /\ pc'[p] = "put"
           /\ put'[p] = u
           /\ \/ u = cwd[p] /\ cwd'[p] = i /\ cwd' \in [Procs -> Inums] /\ Loaded(i) = "dir"
              \/ u = i /\ cwd' = cwd
<1>1. PICK i \in Inums : i = cur[p]
  BY RefsAre DEF Chdir, At
<1>2. /\ pc[p] = "found" /\ Refs(p, None, i, None) /\ Load(i)
      /\ ref' = ref /\ UNCHANGED files
  BY <1>1, RefsAre DEF Chdir, At
<1>3. CASE Loaded(i) = "dir"
  <2>1. PICK u \in Inums : u = cwd[p]
    BY DEF RefTypes, DataTypes
  <2>2. cwd' = [cwd EXCEPT ![p] = i] /\ LastPut(p, u)
    BY <1>1, <1>3, <2>1 DEF Chdir, OldCwd
  <2>3. /\ cwd'[p] = i /\ \A q \in Procs : q # p => cwd'[q] = cwd[q]
        /\ cwd' \in [Procs -> Inums]
    BY <2>2 DEF RefTypes, DataTypes
  <2> QED BY <1>1, <1>2, <1>3, <2>1, <2>2, <2>3, LastPutMoves
<1>4. CASE Loaded(i) # "dir"
  <2>1. cwd' = cwd /\ LastPut(p, i)
    BY <1>1, <1>4 DEF Chdir
  <2> QED BY <1>1, <1>2, <2>1, LastPutMoves
<1> QED BY <1>3, <1>4

\* The last close gives its reference to iput.
LEMMA CloseMoves ==
  ASSUME RefTypes, FilesRight, NEW p \in Procs, Close(p)
  PROVE  \E f \in Files :
           /\ f = fd[p] /\ pc[p] = "idle" /\ Refs(p, None, None, None)
           /\ Turn(p) /\ cwd' = cwd /\ UNCHANGED <<onDisk, cache>>
           /\ fd' = [fd EXCEPT ![p] = NoFile]
           /\ fref' = [fref EXCEPT ![f] = @ - 1] /\ fref[f] \in Nat \ {0}
           /\ Stage(p)' = "idle"
           /\ \/ \E u \in Inums :
                   /\ fref[f] = 1 /\ fip[f] = u /\ Refs(p, u, None, None)'
                   /\ fip' = [fip EXCEPT ![f] = None] /\ pc'[p] = "put" /\ put'[p] = u
              \/ /\ fref[f] # 1 /\ Refs(p, None, None, None)' /\ fip' = fip
                 /\ pc'[p] = "idle"
<1>1. PICK f \in Files : f = fd[p]
  BY DEF Close, RefTypes, DataTypes
<1>2. fref[f] \in Nat \ {0} /\ fip[f] \in Inums
  <2>1. p \in Users(f)
    BY <1>1 DEF Users
  <2>2. Users(f) \in SUBSET Procs
    BY DEF Users
  <2>3. Cardinality(Users(f)) # 0
    BY <2>1, <2>2, Finite, FS_EmptySet
  <2>4. fref[f] \in Nat /\ fref[f] # 0 /\ fip[f] \in Inums \cup {None} /\ fip[f] # None
    BY <2>3 DEF RefTypes, DataTypes, FilesRight
  <2> QED BY <2>4
<1>3. /\ pc[p] = "idle" /\ Stage(p) = "idle" /\ Refs(p, None, None, None) /\ cwd' = cwd
      /\ UNCHANGED <<onDisk, cache, args>>
      /\ fd' = [fd EXCEPT ![p] = NoFile] /\ fref' = [fref EXCEPT ![f] = @ - 1]
  BY <1>1, RefsAre DEF Close, At
<1>4. CASE fref[f] = 1
  <2>1. PICK u \in Inums : u = fip[f]
    BY <1>2
  <2>2. Put(p, u, "idle") /\ fip' = [fip EXCEPT ![f] = None]
    BY <1>1, <1>4, <2>1 DEF Close, LastRef
  <2>3. CallTypes' /\ Others(p)
    BY <1>3, <2>2 DEF RefTypes, CallTypes, Others, Put, Goto, Points, args
  <2>4. pc'[p] = "put" /\ put'[p] = u /\ after'[p] = "idle"
    BY <2>2 DEF RefTypes, CallTypes, Put, Goto
  <2>5. HoldsPut(p)' /\ ~HoldsCur(p)' /\ ~HoldsOld(p)' /\ Stage(p)' = "idle"
    BY <2>4 DEF HoldsPut, HoldsCur, HoldsOld, Stage
  <2>6. ShapeOf(p)'
    BY <1>3, <2>4, <2>5, Constants DEF RefTypes, Shape, ShapeOf, AfterPut, args
  <2> QED BY <1>1, <1>2, <1>3, <1>4, <2>1, <2>2, <2>3, <2>4, <2>5, <2>6
          DEF Turn, Refs, PutRef, CurRef, OldRef
<1>5. CASE fref[f] # 1
  <2>1. UNCHANGED <<fip, pc, put, after>>
    BY <1>1, <1>5 DEF Close, LastRef
  <2>2. CallTypes' /\ Others(p) /\ pc'[p] = "idle"
    BY <1>3, <2>1 DEF RefTypes, CallTypes, Others, args
  <2>3. ~HoldsPut(p)' /\ ~HoldsCur(p)' /\ ~HoldsOld(p)' /\ Stage(p)' = "idle"
    BY <2>2 DEF HoldsPut, HoldsCur, HoldsOld, Stage
  <2>4. ShapeOf(p)'
    BY <1>3, <2>2, <2>3 DEF RefTypes, Shape, ShapeOf, args
  <2> QED BY <1>1, <1>2, <1>3, <1>5, <2>1, <2>2, <2>3, <2>4
          DEF Turn, Refs, PutRef, CurRef, OldRef
<1> QED BY <1>4, <1>5

LEMMA CreateExistsMoves ==
  ASSUME RefTypes, NEW p \in Procs, CreateExists(p)
  PROVE  \E d \in Inums, n \in Element, i \in Inums :
           /\ d = cur[p] /\ pc[p] = "parent" /\ Refs(p, None, d, None) /\ Load(d)
           /\ n = Name(p) /\ i = Lookup(d, n) /\ Iget(i) /\ Turn(p) /\ cwd' = cwd
           /\ Refs(p, d, i, None)' /\ Stage(p)' = "found" /\ pc'[p] = "put"
           /\ put'[p] = d
<1>1. PICK d \in Inums : d = cur[p]
  BY RefsAre DEF CreateExists, At
<1>2. /\ pc[p] = "parent" /\ Refs(p, None, d, None) /\ Load(d) /\ cwd' = cwd
      /\ call[p] \in {"create", "mkdir"} /\ Stage(p) = "parent" /\ path[p] # <<>>
  BY <1>1, RefsAre, Constants DEF CreateExists, At, Refs, RefTypes, Shape, ShapeOf
<1>3. PICK n \in Element, i \in Inums : n = Name(p) /\ i = Lookup(d, n)
  BY <1>1, <1>2, PathIs, LookupIs DEF RefTypes, CreateExists
<1>4. /\ Iget(i) /\ cur' = [cur EXCEPT ![p] = i] /\ Put(p, d, "found")
      /\ UNCHANGED <<call, path, to, old>>
  BY <1>1, <1>3 DEF CreateExists
<1>5. CallTypes' /\ Others(p)
  BY <1>2, <1>4 DEF RefTypes, CallTypes, Others, Put, Goto, Points
<1>6. /\ pc'[p] = "put" /\ put'[p] = d /\ after'[p] = "found" /\ cur'[p] = i
      /\ call'[p] = call[p] /\ old'[p] = old[p]
  BY <1>4 DEF RefTypes, CallTypes, Put, Goto
<1>7. HoldsPut(p)' /\ HoldsCur(p)' /\ ~HoldsOld(p)' /\ Stage(p)' = "found"
  BY <1>2, <1>6 DEF HoldsPut, HoldsCur, HoldsOld, Stage
<1>8. ShapeOf(p)'
  BY <1>2, <1>6, <1>7, Constants DEF ShapeOf, AfterPut
<1> QED BY <1>1, <1>2, <1>3, <1>4, <1>5, <1>6, <1>7, <1>8
        DEF Turn, Refs, PutRef, CurRef, OldRef

LEMMA CreateAllocMoves ==
  ASSUME RefTypes, NEW p \in Procs, CreateAlloc(p)
  PROVE  \E d \in Inums :
           /\ d = cur[p] /\ pc[p] = "parent" /\ Refs(p, None, d, None) /\ Load(d)
           /\ path[p] # <<>>
           /\ Name(p) \in Element /\ Lookup(d, Name(p)) = None
           /\ Turn(p) /\ cwd' = cwd /\ ref' = ref
           /\ UNCHANGED <<entries, dotdot, files>> /\ call[p] \in {"create", "mkdir"}
           /\ Refs(p, None, d, None)'
           /\ \/ \E i \in Inums :
                   /\ type[i] = "free" /\ old'[p] = i /\ pc'[p] = "iget"
                   /\ type' = [type EXCEPT ![i] = IF call[p] = "mkdir" THEN "dir" ELSE "file"]
                   /\ nlink' = [nlink EXCEPT ![i] = 0]
                   /\ holder' = [holder EXCEPT ![d] = p] /\ panicked' = panicked
                   /\ Stage(p)' = "iget" /\ Name(p)' = Name(p) /\ call'[p] = call[p]
                   /\ cur'[p] = d
              \/ /\ panicked' = TRUE
                 /\ UNCHANGED <<type, nlink, holder, pc, locals>> /\ Stage(p)' = "parent"
<1>1. PICK d \in Inums : d = cur[p]
  BY RefsAre DEF CreateAlloc, At
<1>2. /\ pc[p] = "parent" /\ Refs(p, None, d, None) /\ Load(d)
      /\ call[p] \in {"create", "mkdir"} /\ Stage(p) = "parent" /\ path[p] # <<>>
  BY <1>1, RefsAre, Constants DEF CreateAlloc, At, Refs, RefTypes, Shape, ShapeOf
<1>3. /\ Lookup(d, Name(p)) = None /\ Name(p) \in Element
      /\ UNCHANGED <<cwd, call, path, to, cur, put, after, ref, entries, dotdot, files>>
  BY <1>1, <1>2, PathIs DEF RefTypes, CreateAlloc
<1>4. CASE panicked' = TRUE /\ UNCHANGED <<type, nlink, holder, pc, old>>
  <2>1. CallTypes' /\ Others(p)
    BY <1>3, <1>4 DEF RefTypes, CallTypes, Others
  <2>2. /\ PutRef(p)' = PutRef(p) /\ CurRef(p)' = CurRef(p) /\ OldRef(p)' = OldRef(p)
        /\ Stage(p)' = Stage(p) /\ (ShapeOf(p) => ShapeOf(p)')
    BY <1>3, <1>4 DEF Stage, PutRef, CurRef, OldRef, HoldsPut, HoldsCur, HoldsOld,
       ShapeOf, ForParent, SecondPath
  <2> QED BY <1>1, <1>2, <1>3, <1>4, <2>1, <2>2
          DEF Turn, Refs, locals, args, RefTypes, Shape
<1>5. ASSUME NEW i \in Inums, type[i] = "free",
             type' = [type EXCEPT ![i] = IF call[p] = "mkdir" THEN "dir" ELSE "file"],
             nlink' = [nlink EXCEPT ![i] = 0], old' = [old EXCEPT ![p] = i],
             HoldParent(p, d), Goto(p, "iget"), UNCHANGED panicked
      PROVE  /\ type[i] = "free" /\ old'[p] = i /\ pc'[p] = "iget"
             /\ type' = [type EXCEPT ![i] = IF call[p] = "mkdir" THEN "dir" ELSE "file"]
             /\ nlink' = [nlink EXCEPT ![i] = 0]
             /\ holder' = [holder EXCEPT ![d] = p] /\ panicked' = panicked
             /\ Stage(p)' = "iget" /\ Name(p)' = Name(p) /\ call'[p] = call[p]
             /\ cur'[p] = d /\ Turn(p) /\ Refs(p, None, d, None)'
  <2>1. CallTypes' /\ Others(p)
    BY <1>3, <1>5 DEF RefTypes, CallTypes, Others, Goto, Points
  <2>2. pc'[p] = "iget" /\ old'[p] = i /\ cur'[p] = d
    BY <1>1, <1>3, <1>5 DEF RefTypes, CallTypes, Goto
  <2>3. ~HoldsPut(p)' /\ HoldsCur(p)' /\ Stage(p)' = "iget" /\ ~HoldsOld(p)'
    BY <1>2, <1>3, <2>2 DEF HoldsPut, HoldsCur, HoldsOld, Stage
  <2>4. ShapeOf(p)'
    BY <1>2, <1>3, <2>2, <2>3, Constants DEF ShapeOf
  <2> QED BY <1>3, <1>5, <2>1, <2>2, <2>3, <2>4
          DEF Turn, Refs, PutRef, CurRef, OldRef, HoldParent, Name
<1>6. \/ panicked' = TRUE /\ UNCHANGED <<type, nlink, holder, pc, old>>
      \/ \E i \in Inums :
           /\ type[i] = "free"
           /\ type' = [type EXCEPT ![i] = IF call[p] = "mkdir" THEN "dir" ELSE "file"]
           /\ nlink' = [nlink EXCEPT ![i] = 0]
           /\ old' = [old EXCEPT ![p] = i]
           /\ HoldParent(p, d) /\ Goto(p, "iget") /\ UNCHANGED panicked
  BY <1>1 DEF CreateAlloc
<1>7. CASE \E i \in Inums :
             /\ type[i] = "free"
             /\ type' = [type EXCEPT ![i] = IF call[p] = "mkdir" THEN "dir" ELSE "file"]
             /\ nlink' = [nlink EXCEPT ![i] = 0]
             /\ old' = [old EXCEPT ![p] = i]
             /\ HoldParent(p, d) /\ Goto(p, "iget") /\ UNCHANGED panicked
  <2>1. PICK i \in Inums :
          /\ type[i] = "free"
          /\ type' = [type EXCEPT ![i] = IF call[p] = "mkdir" THEN "dir" ELSE "file"]
          /\ nlink' = [nlink EXCEPT ![i] = 0]
          /\ old' = [old EXCEPT ![p] = i]
          /\ HoldParent(p, d) /\ Goto(p, "iget") /\ UNCHANGED panicked
    BY <1>7
  <2>2. /\ type[i] = "free" /\ old'[p] = i /\ pc'[p] = "iget"
        /\ type' = [type EXCEPT ![i] = IF call[p] = "mkdir" THEN "dir" ELSE "file"]
        /\ nlink' = [nlink EXCEPT ![i] = 0]
        /\ holder' = [holder EXCEPT ![d] = p] /\ panicked' = panicked
        /\ Stage(p)' = "iget" /\ Name(p)' = Name(p) /\ call'[p] = call[p]
        /\ cur'[p] = d /\ Turn(p) /\ Refs(p, None, d, None)'
    BY <1>5, <2>1
  <2> QED BY <1>1, <1>2, <1>3, <2>2
<1> QED BY <1>4, <1>6, <1>7

LEMMA CreateGetMoves ==
  ASSUME RefTypes, NEW p \in Procs, CreateGet(p)
  PROVE  \E d \in Inums, i \in Inums :
           /\ d = cur[p] /\ i = old[p] /\ pc[p] = "iget" /\ Refs(p, None, d, None)
           /\ Iget(i) /\ Turn(p) /\ cwd' = cwd /\ Refs(p, None, d, i)'
           /\ Stage(p)' = "new" /\ pc'[p] = "new" /\ locals' = locals
<1>1. PICK d \in Inums, i \in Inums : d = cur[p] /\ i = old[p]
  BY RefsAre DEF CreateGet, At
<1>2. /\ pc[p] = "iget" /\ Stage(p) = "iget" /\ Refs(p, None, d, None) /\ Iget(i)
      /\ Goto(p, "new") /\ cwd' = cwd /\ locals' = locals
  BY <1>1, RefsAre DEF CreateGet, At
<1>3. CallTypes' /\ Others(p)
  BY <1>2 DEF RefTypes, CallTypes, Others, Goto, Points, locals, args
<1>4. pc'[p] = "new" /\ cur'[p] = d /\ old'[p] = i
  BY <1>1, <1>2 DEF RefTypes, CallTypes, Goto, locals, args
<1>5. /\ ~HoldsPut(p)' /\ HoldsCur(p)' /\ Stage(p)' = "new" /\ HoldsOld(p)'
      /\ (ForParent(p)' <=> ForParent(p))
  BY <1>2, <1>4, Constants DEF HoldsPut, HoldsCur, HoldsOld, Stage, ForParent, SecondPath,
     locals, args
<1>6. ShapeOf(p)'
  BY <1>2, <1>4, <1>5, Constants DEF RefTypes, Shape, ShapeOf, locals, args
<1> QED BY <1>1, <1>2, <1>3, <1>4, <1>5, <1>6 DEF Turn, Refs, PutRef, CurRef, OldRef

LEMMA CreateLinkMoves ==
  ASSUME RefTypes, NEW p \in Procs, CreateLink(p)
  PROVE  \E d \in Inums, i \in Inums :
           /\ d = cur[p] /\ i = old[p] /\ pc[p] = "new" /\ Refs(p, None, d, i) /\ Load(i)
           /\ call[p] \in {"create", "mkdir"} /\ path[p] # <<>>
           /\ Turn(p) /\ cwd' = cwd /\ ref' = ref /\ UNCHANGED files
           /\ Refs(p, d, None, i)' /\ Stage(p)' = "made" /\ pc'[p] = "put"
           /\ put'[p] = d /\ old'[p] = i
<1>1. PICK d \in Inums, i \in Inums : d = cur[p] /\ i = old[p]
  BY RefsAre DEF CreateLink, At
<1>2. /\ pc[p] = "new" /\ Stage(p) = "new" /\ Refs(p, None, d, i) /\ Load(i)
      /\ cwd' = cwd /\ ref' = ref /\ UNCHANGED <<files, call, to, old>>
      /\ Put(p, d, "made") /\ Walked(p)
  BY <1>1, RefsAre DEF CreateLink, At
<1>3. call[p] \in {"create", "mkdir"} /\ path[p] # <<>>
  BY <1>2 DEF RefTypes, Shape, ShapeOf
<1>4. /\ Turn(p) /\ Refs(p, d, None, i)' /\ Stage(p)' = "made" /\ pc'[p] = "put"
      /\ put'[p] = d /\ old'[p] = i
  BY <1>1, <1>2, <1>3, PutDirMoves
<1> QED BY <1>1, <1>2, <1>3, <1>4

LEMMA CreateDoneMoves ==
  ASSUME RefTypes, NEW p \in Procs, CreateDone(p)
  PROVE  \E i \in Inums :
           /\ i = old[p] /\ pc[p] = "made" /\ Refs(p, None, None, i)
           /\ Turn(p) /\ cwd' = cwd /\ ref' = ref /\ UNCHANGED <<onDisk, valid, ctype>>
           /\ holder' = [holder EXCEPT ![i] = Nobody] /\ Stage(p)' = "idle"
           /\ \/ Opened(p, i) /\ Refs(p, None, None, None)' /\ pc'[p] = "idle"
              \/ /\ UNCHANGED files /\ Refs(p, i, None, None)'
                 /\ pc'[p] = "put" /\ put'[p] = i
<1>1. PICK i \in Inums : i = old[p]
  BY RefsAre DEF CreateDone, At
<1>2. /\ pc[p] = "made" /\ Refs(p, None, None, i) /\ cwd' = cwd /\ ref' = ref
      /\ UNCHANGED <<onDisk, valid, ctype>> /\ holder' = [holder EXCEPT ![i] = Nobody]
  BY <1>1, RefsAre DEF CreateDone, At
<1>3. CASE Opened(p, i)
  BY <1>1, <1>2, <1>3, ReturnMoves DEF Opened
<1>4. CASE LastPut(p, i) /\ UNCHANGED files
  BY <1>1, <1>2, <1>4, LastPutMoves
<1> QED BY <1>1, <1>3, <1>4 DEF CreateDone

LEMMA UnlinkFailsMoves ==
  ASSUME RefTypes, NEW p \in Procs, UnlinkFails(p)
  PROVE  \E d \in Inums :
           /\ d = cur[p] /\ pc[p] = "parent" /\ Refs(p, None, d, None) /\ Load(d)
           /\ Turn(p) /\ cwd' = cwd /\ UNCHANGED <<onDisk, ref, holder, files>>
           /\ Refs(p, d, None, None)' /\ Stage(p)' = "idle" /\ pc'[p] = "put"
           /\ put'[p] = d
<1>1. PICK d \in Inums : d = cur[p]
  BY RefsAre DEF UnlinkFails, At
<1>2. /\ pc[p] = "parent" /\ Refs(p, None, d, None) /\ Load(d) /\ cwd' = cwd
      /\ UNCHANGED <<onDisk, ref, holder, files>> /\ LastPut(p, d)
  BY <1>1, RefsAre DEF UnlinkFails, At, Refs
<1> QED BY <1>1, <1>2, LastPutMoves

LEMMA UnlinkFindMoves ==
  ASSUME RefTypes, NEW p \in Procs, UnlinkFind(p)
  PROVE  \E d \in Inums, n \in Names, i \in Inums :
           /\ d = cur[p] /\ pc[p] = "parent" /\ Refs(p, None, d, None) /\ Load(d)
           /\ n = Name(p) /\ i = entries[d][n] /\ Iget(i)
           /\ holder' = [holder EXCEPT ![d] = p]
           /\ Turn(p) /\ cwd' = cwd /\ UNCHANGED <<onDisk, files>>
           /\ Refs(p, None, d, i)' /\ Stage(p)' = "victim" /\ pc'[p] = "victim"
           /\ cur'[p] = d /\ old'[p] = i /\ Name(p)' = n
<1>1. PICK d \in Inums : d = cur[p]
  BY RefsAre DEF UnlinkFind, At
<1>2. /\ pc[p] = "parent" /\ Refs(p, None, d, None) /\ Load(d) /\ cwd' = cwd
      /\ UNCHANGED <<onDisk, files>> /\ call[p] = "unlink" /\ Stage(p) = "parent"
      /\ path[p] # <<>>
  BY <1>1, RefsAre, Constants DEF UnlinkFind, At, Refs, RefTypes, Shape, ShapeOf
<1>3. PICK n \in Names, i \in Inums : n = Name(p) /\ i = Lookup(d, n) /\ i = entries[d][n]
  <2>1. Name(p) \in Element /\ Name(p) # ".." /\ Lookup(d, Name(p)) # None
    BY <1>1, <1>2, PathIs DEF RefTypes, UnlinkFind
  <2> QED BY <2>1, LookupIs DEF RefTypes, Lookup, Element
<1>4. /\ Iget(i) /\ old' = [old EXCEPT ![p] = i] /\ HoldParent(p, d) /\ Goto(p, "victim")
      /\ UNCHANGED <<call, path, to, cur, put, after>>
  BY <1>1, <1>3 DEF UnlinkFind
<1>5. CallTypes' /\ Others(p)
  BY <1>2, <1>4 DEF RefTypes, CallTypes, Others, Goto, Points
<1>6. pc'[p] = "victim" /\ cur'[p] = d /\ old'[p] = i /\ call'[p] = "unlink"
  BY <1>1, <1>2, <1>4 DEF RefTypes, CallTypes, Goto
<1>7. ~HoldsPut(p)' /\ HoldsCur(p)' /\ HoldsOld(p)' /\ Stage(p)' = "victim"
  BY <1>6, Constants DEF HoldsPut, HoldsCur, HoldsOld, Stage
<1>8. ShapeOf(p)'
  BY <1>2, <1>4, <1>6, <1>7, Constants DEF ShapeOf
<1> QED BY <1>1, <1>2, <1>3, <1>4, <1>5, <1>6, <1>7, <1>8
        DEF Turn, Refs, PutRef, CurRef, OldRef, HoldParent, Name

\* The parent stays locked while iput drops what was found there.
LEMMA PutReleaseMoves ==
  ASSUME RefTypes, NEW p \in Procs, NEW d \in Inums, NEW i \in Inums,
         NEW o \in Inums \cup {None}, cur[p] = d,
         o = IF SecondPath(p) THEN old[p] ELSE None,
         call[p] = "unlink" \/ (call[p] = "link" /\ old[p] # None),
         Put(p, i, "release"), UNCHANGED <<args, cwd>>
  PROVE  /\ Turn(p) /\ Refs(p, i, d, o)' /\ Stage(p)' = "release" /\ pc'[p] = "put"
         /\ put'[p] = i
<1>1. CallTypes' /\ Others(p)
  BY DEF RefTypes, CallTypes, Others, Put, Goto, Points, args
<1>2. pc'[p] = "put" /\ put'[p] = i /\ after'[p] = "release"
  BY DEF RefTypes, CallTypes, Put, Goto
<1>3. /\ HoldsPut(p)' /\ HoldsCur(p)' /\ Stage(p)' = "release"
      /\ (HoldsOld(p)' <=> SecondPath(p))
  BY <1>2 DEF HoldsPut, HoldsCur, HoldsOld, Stage, SecondPath, args
<1>4. ShapeOf(p)'
  BY <1>2, <1>3, Constants DEF ShapeOf, AfterPut, args
<1> QED BY <1>1, <1>2, <1>3, <1>4 DEF Turn, Refs, PutRef, CurRef, OldRef, args

LEMMA UnlinkKeepMoves ==
  ASSUME RefTypes, NEW p \in Procs, UnlinkKeep(p)
  PROVE  \E d \in Inums, i \in Inums :
           /\ d = cur[p] /\ i = old[p] /\ pc[p] = "victim" /\ Refs(p, None, d, i) /\ Load(i)
           /\ Turn(p) /\ cwd' = cwd /\ UNCHANGED <<onDisk, ref, holder, files, cur>>
           /\ Refs(p, i, d, None)' /\ Stage(p)' = "release" /\ pc'[p] = "put"
           /\ put'[p] = i
<1>1. PICK d \in Inums, i \in Inums : d = cur[p] /\ i = old[p]
  BY RefsAre DEF UnlinkKeep, At
<1>2. /\ pc[p] = "victim" /\ Refs(p, None, d, i) /\ Load(i) /\ cwd' = cwd
      /\ UNCHANGED <<onDisk, ref, holder, files, args>> /\ Put(p, i, "release")
      /\ Stage(p) = "victim"
  BY <1>1, RefsAre DEF UnlinkKeep, At
<1>3. call[p] = "unlink"
  BY <1>2 DEF RefTypes, Shape, ShapeOf
<1>4. /\ Turn(p) /\ Refs(p, i, d, None)' /\ Stage(p)' = "release" /\ pc'[p] = "put"
      /\ put'[p] = i
  BY <1>1, <1>2, <1>3, PutReleaseMoves DEF SecondPath
<1> QED BY <1>1, <1>2, <1>4 DEF args

LEMMA UnlinkEntryMoves ==
  ASSUME RefTypes, NEW p \in Procs, UnlinkEntry(p)
  PROVE  \E d \in Inums, i \in Inums :
           /\ d = cur[p] /\ i = old[p] /\ pc[p] = "victim" /\ Refs(p, None, d, i) /\ Load(i)
           /\ Turn(p) /\ cwd' = cwd /\ ref' = ref /\ UNCHANGED files
           /\ Refs(p, d, None, i)' /\ Stage(p)' = "unnamed" /\ pc'[p] = "put"
           /\ put'[p] = d /\ old'[p] = i
<1>1. PICK d \in Inums, i \in Inums : d = cur[p] /\ i = old[p]
  BY RefsAre DEF UnlinkEntry, At
<1>2. /\ pc[p] = "victim" /\ Stage(p) = "victim" /\ Refs(p, None, d, i) /\ Load(i)
      /\ cwd' = cwd /\ ref' = ref /\ UNCHANGED <<files, call, to, old>>
      /\ Put(p, d, "unnamed") /\ Walked(p)
  BY <1>1, RefsAre DEF UnlinkEntry, At
<1>3. call[p] = "unlink"
  BY <1>2 DEF RefTypes, Shape, ShapeOf
<1>4. /\ Turn(p) /\ Refs(p, d, None, i)' /\ Stage(p)' = "unnamed" /\ pc'[p] = "put"
      /\ put'[p] = d /\ old'[p] = i
  BY <1>1, <1>2, <1>3, PutDirMoves
<1> QED BY <1>1, <1>2, <1>4

\* UnlinkDone, LinkDone and LinkBad: the last reference of the call.
LEMMA DoneMoves ==
  ASSUME RefTypes, NEW p \in Procs, pc[p] \in {"unnamed", "linked", "bad"},
         LastPut(p, old[p]), UNCHANGED cwd
  PROVE  \E i \in Inums :
           /\ i = old[p] /\ Refs(p, None, None, i) /\ Stage(p) = pc[p]
           /\ Turn(p) /\ Refs(p, i, None, None)' /\ Stage(p)' = "idle"
           /\ pc'[p] = "put" /\ put'[p] = i
<1>1. PICK i \in Inums : i = old[p]
  BY RefsAre
<1>2. Refs(p, None, None, i) /\ Stage(p) = pc[p]
  BY <1>1, RefsAre
<1> QED BY <1>1, <1>2, LastPutMoves

LEMMA ReleaseMoves ==
  ASSUME RefTypes, NEW p \in Procs, Release(p)
  PROVE  \E d \in Inums, o \in Inums \cup {None} :
           /\ d = cur[p] /\ pc[p] = "release" /\ Refs(p, None, d, o)
           /\ o = IF SecondPath(p) THEN old[p] ELSE None
           /\ Turn(p) /\ cwd' = cwd /\ UNCHANGED <<onDisk, ref, valid, ctype, files>>
           /\ holder' = [holder EXCEPT ![d] = Nobody]
           /\ Refs(p, d, None, o)' /\ pc'[p] = "put" /\ put'[p] = d
           /\ \/ Stage(p)' = "idle" /\ o = None
              \/ Stage(p)' = "bad" /\ o # None /\ old'[p] = o
<1>1. PICK d \in Inums : d = cur[p]
  BY RefsAre DEF Release, At
<1>2. PICK o \in Inums \cup {None} : o = IF SecondPath(p) THEN old[p] ELSE None
  BY DEF RefTypes, CallTypes
<1>3. /\ pc[p] = "release" /\ Refs(p, None, d, o) /\ Fail(p, d) /\ cwd' = cwd
      /\ UNCHANGED <<onDisk, ref, valid, ctype, files>>
      /\ holder' = [holder EXCEPT ![d] = Nobody]
  BY <1>1, <1>2, RefsAre DEF Release, At, Refs
<1>4. CASE SecondPath(p)
  <2>1. PICK k \in Inums : k = old[p] /\ o = k
    BY <1>2, <1>4, Constants DEF RefTypes, CallTypes, SecondPath
  <2>2. /\ Turn(p) /\ Refs(p, d, None, k)' /\ Stage(p)' = "bad"
        /\ pc'[p] = "put" /\ put'[p] = d /\ old'[p] = k
    BY <1>3, <1>4, <2>1, PutDirMoves DEF Fail, SecondPath
  <2> QED BY <1>1, <1>2, <1>3, <2>1, <2>2, Constants
<1>5. CASE ~SecondPath(p)
  <2>1. /\ Turn(p) /\ Refs(p, d, None, None)' /\ Stage(p)' = "idle"
        /\ pc'[p] = "put" /\ put'[p] = d
    BY <1>3, <1>5, LastPutMoves DEF Fail
  <2> QED BY <1>1, <1>2, <1>3, <1>5, <2>1
<1> QED BY <1>4, <1>5

LEMMA LinkCountMoves ==
  ASSUME RefTypes, NEW p \in Procs, LinkCount(p)
  PROVE  \E i \in Inums :
           /\ i = cur[p] /\ pc[p] = "found" /\ Refs(p, None, i, None) /\ Load(i)
           /\ call[p] = "link" /\ old[p] = None
           /\ Turn(p) /\ cwd' = cwd /\ UNCHANGED <<type, entries, dotdot, holder, files>>
           /\ \/ /\ Loaded(i) = "dir" /\ UNCHANGED <<nlink, ref>> /\ Refs(p, i, None, None)'
                 /\ Stage(p)' = "idle" /\ pc'[p] = "put" /\ put'[p] = i
              \/ /\ Loaded(i) # "dir" /\ nlink' = [nlink EXCEPT ![i] = @ + 1]
                 /\ \E s \in Inums : s \in {ROOTINO, cwd[p]} /\ Iget(s) /\ Refs(p, None, s, i)'
                 /\ Stage(p)' = "walk" /\ pc'[p] = "walk" /\ old'[p] = i
                 /\ call'[p] = "link"
<1>1. PICK i \in Inums : i = cur[p]
  BY RefsAre DEF LinkCount, At
<1>2. /\ pc[p] = "found" /\ Stage(p) = "found" /\ Refs(p, None, i, None) /\ Load(i)
      /\ call[p] = "link" /\ cwd' = cwd
      /\ UNCHANGED <<type, entries, dotdot, holder, files>>
  BY <1>1, RefsAre DEF LinkCount, At
<1>3. old[p] = None /\ to[p] # <<>> /\ to[p] \in Seq(Element)
  BY <1>2 DEF RefTypes, Shape, ShapeOf, CallTypes
<1>4. CASE Loaded(i) = "dir"
  <2>1. LastPut(p, i) /\ UNCHANGED <<nlink, ref>>
    BY <1>1, <1>4 DEF LinkCount
  <2> QED BY <1>1, <1>2, <1>3, <1>4, <2>1, LastPutMoves
<1>5. CASE Loaded(i) # "dir"
  <2>1. /\ nlink' = [nlink EXCEPT ![i] = @ + 1] /\ old' = [old EXCEPT ![p] = i]
        /\ \E s \in Inums : Walk(p, s, to[p])
        /\ to' = [to EXCEPT ![p] = <<>>] /\ UNCHANGED <<call, put, after>>
    BY <1>1, <1>5 DEF LinkCount
  <2>2. PICK s \in Inums : Walk(p, s, to[p])
    BY <2>1
  <2>3. CallTypes' /\ Others(p)
    BY <1>2, <1>3, <2>1, <2>2, Constants DEF RefTypes, CallTypes, Others, Walk, Goto, Points
  <2>4. /\ pc'[p] = "walk" /\ cur'[p] = s /\ old'[p] = i /\ call'[p] = "link"
        /\ path'[p] # <<>>
    BY <1>2, <1>3, <2>1, <2>2 DEF RefTypes, CallTypes, Walk, Goto
  <2>5. HoldsCur(p)' /\ HoldsOld(p)' /\ ~HoldsPut(p)' /\ Stage(p)' = "walk"
    BY <2>4, Constants DEF HoldsPut, HoldsCur, HoldsOld, Stage
  <2>6. ShapeOf(p)'
    BY <2>4, <2>5, Constants DEF ShapeOf
  <2>7. s \in {ROOTINO, cwd[p]} /\ Iget(s)
    BY <2>2 DEF Walk
  <2> QED BY <1>1, <1>2, <1>3, <1>5, <2>1, <2>3, <2>4, <2>5, <2>6, <2>7
          DEF Turn, Refs, PutRef, CurRef, OldRef
<1> QED BY <1>4, <1>5

LEMMA LinkEntryMoves ==
  ASSUME RefTypes, NEW p \in Procs, LinkEntry(p)
  PROVE  \E d \in Inums, n \in Element, o \in Inums :
           /\ d = cur[p] /\ o = old[p] /\ n = Name(p) /\ pc[p] = "parent"
           /\ Refs(p, None, d, o) /\ Load(d) /\ call[p] = "link"
           /\ Turn(p) /\ cwd' = cwd /\ UNCHANGED <<type, nlink, dotdot, files>>
           /\ \/ /\ Lookup(d, n) = None /\ UNCHANGED <<ref, holder>>
                 /\ entries' = [entries EXCEPT ![d][n] = o]
                 /\ Refs(p, d, None, o)' /\ Stage(p)' = "linked" /\ pc'[p] = "put"
                 /\ put'[p] = d /\ old'[p] = o
              \/ /\ entries' = entries
                 /\ \E i \in Inums : /\ i = Lookup(d, n) /\ Iget(i) /\ Refs(p, i, d, o)'
                                     /\ put'[p] = i
                 /\ holder' = [holder EXCEPT ![d] = p]
                 /\ Stage(p)' = "release" /\ pc'[p] = "put" /\ args' = args
<1>1. PICK d \in Inums, o \in Inums : d = cur[p] /\ o = old[p]
  BY RefsAre DEF LinkEntry, At
<1>2. /\ pc[p] = "parent" /\ Stage(p) = "parent" /\ Refs(p, None, d, o) /\ Load(d)
      /\ call[p] = "link" /\ cwd' = cwd /\ UNCHANGED <<type, nlink, dotdot, files>>
  BY <1>1, RefsAre DEF LinkEntry, At, Refs
<1>3. path[p] # <<>> /\ o # None
  BY <1>2, Constants DEF RefTypes, Shape, ShapeOf
<1>4. PICK n \in Element : n = Name(p)
  BY <1>3, PathIs DEF RefTypes
<1>5. Lookup(d, n) \in Inums \cup {None}
  BY LookupIs DEF RefTypes
<1>6. CASE Lookup(d, n) = None
  <2>1. /\ entries' = [entries EXCEPT ![d][n] = o] /\ Put(p, d, "linked") /\ Walked(p)
        /\ UNCHANGED <<ref, holder, call, to, old>>
    BY <1>1, <1>4, <1>6 DEF LinkEntry
  <2>2. /\ Turn(p) /\ Refs(p, d, None, o)' /\ Stage(p)' = "linked"
        /\ pc'[p] = "put" /\ put'[p] = d /\ old'[p] = o
    BY <1>1, <1>2, <2>1, PutDirMoves
  <2> QED BY <1>1, <1>2, <1>4, <1>6, <2>1, <2>2
<1>7. CASE Lookup(d, n) # None
  <2>1. PICK i \in Inums : i = Lookup(d, n)
    BY <1>5, <1>7
  <2>2. /\ Iget(i) /\ HoldParent(p, d) /\ Put(p, i, "release") /\ UNCHANGED <<entries, args>>
    BY <1>1, <1>4, <1>7, <2>1 DEF LinkEntry
  <2>3. /\ Turn(p) /\ Refs(p, i, d, o)' /\ Stage(p)' = "release" /\ pc'[p] = "put"
        /\ put'[p] = i
    BY <1>1, <1>2, <1>3, <2>2, PutReleaseMoves DEF SecondPath
  <2> QED BY <1>1, <1>2, <1>4, <1>7, <2>1, <2>2, <2>3 DEF HoldParent
<1> QED BY <1>6, <1>7

----------------------------------------------------------------------------
(* The counts of references *)

\* Who refers to an inode is counted; with one reference there is nobody else.

LEMMA AtMostOne ==
  ASSUME NEW S, IsFiniteSet(S)
  PROVE  /\ Cardinality(S) \in Nat /\ (S # {} => Cardinality(S) >= 1)
         /\ Cardinality(S) <= 1 => \A x, y \in S : x = y
<1>1. Cardinality(S) \in Nat /\ (S # {} => Cardinality(S) # 0)
  BY FS_CardinalityType, FS_EmptySet
<1>2. ASSUME NEW x \in S, NEW y \in S, x # y PROVE Cardinality(S) >= 2
  <2>1. IsFiniteSet(S \ {x}) /\ Cardinality(S \ {x}) = Cardinality(S) - 1
    BY FS_RemoveElement
  <2>2. S \ {x} # {}
    BY <1>2
  <2>3. Cardinality(S \ {x}) # 0 /\ Cardinality(S \ {x}) \in Nat
    BY <2>1, <2>2, FS_EmptySet, FS_CardinalityType
  <2> QED BY <1>1, <2>1, <2>3
<1> QED BY <1>1, <1>2

LEMMA Referred ==
  ASSUME Counted, NEW i \in Inums
  PROVE  /\ \A p \in Procs : (cwd[p] = i \/ PutRef(p) = i \/ CurRef(p) = i \/ OldRef(p) = i)
              => ref[i] \in Nat \ {0}
         /\ \A f \in Files : (fref[f] > 0 /\ fip[f] = i) => ref[i] \in Nat \ {0}
         /\ ref[i] = 1 =>
              /\ \A p \in Procs : PutRef(p) = i =>
                   /\ \A q \in Procs : /\ cwd[q] # i /\ CurRef(q) # i /\ OldRef(q) # i
                                       /\ PutRef(q) = i => q = p
                   /\ \A f \in Files : ~(fref[f] > 0 /\ fip[f] = i)
              /\ \A p \in Procs : OldRef(p) = i =>
                   /\ \A q \in Procs : /\ cwd[q] # i /\ CurRef(q) # i /\ PutRef(q) # i
                                       /\ OldRef(q) = i => q = p
                   /\ \A f \in Files : ~(fref[f] > 0 /\ fip[f] = i)
<1> DEFINE W == {p \in Procs : cwd[p] = i}
           U == {p \in Procs : HoldsPut(p) /\ put[p] = i}
           K == {p \in Procs : HoldsCur(p) /\ cur[p] = i}
           O == {p \in Procs : HoldsOld(p) /\ old[p] = i}
           F == {f \in Files : fref[f] > 0 /\ fip[f] = i}
<1>1. i # None
  BY Constants
<1>2. /\ \A p \in Procs : cwd[p] = i <=> p \in W
      /\ \A p \in Procs : PutRef(p) = i <=> p \in U
      /\ \A p \in Procs : CurRef(p) = i <=> p \in K
      /\ \A p \in Procs : OldRef(p) = i <=> p \in O
      /\ \A f \in Files : (fref[f] > 0 /\ fip[f] = i) <=> f \in F
  BY <1>1 DEF PutRef, CurRef, OldRef
<1>3. /\ W \in SUBSET Procs /\ U \in SUBSET Procs /\ K \in SUBSET Procs
      /\ O \in SUBSET Procs /\ F \in SUBSET Files
  OBVIOUS
<1>4. ref[i] = Cardinality(W) + Cardinality(F) + Cardinality(U) + Cardinality(K)
               + Cardinality(O)
  BY DEF Counted, RefsTo
<1> HIDE DEF W, U, K, O, F
<1>5. /\ IsFiniteSet(W) /\ IsFiniteSet(U) /\ IsFiniteSet(K) /\ IsFiniteSet(O)
      /\ IsFiniteSet(F)
  BY <1>3, Finite
<1>6. /\ Cardinality(W) \in Nat /\ (W # {} => Cardinality(W) >= 1)
      /\ Cardinality(U) \in Nat /\ (U # {} => Cardinality(U) >= 1)
      /\ Cardinality(K) \in Nat /\ (K # {} => Cardinality(K) >= 1)
      /\ Cardinality(O) \in Nat /\ (O # {} => Cardinality(O) >= 1)
      /\ Cardinality(F) \in Nat /\ (F # {} => Cardinality(F) >= 1)
  BY <1>5, AtMostOne
<1>7. /\ (W # {} \/ U # {} \/ K # {} \/ O # {} \/ F # {}) => ref[i] \in Nat \ {0}
      /\ (ref[i] = 1 /\ U # {}) => Cardinality(U) <= 1 /\ W = {} /\ K = {} /\ O = {} /\ F = {}
      /\ (ref[i] = 1 /\ O # {}) => Cardinality(O) <= 1 /\ W = {} /\ K = {} /\ U = {} /\ F = {}
  BY <1>4, <1>6
<1>8. /\ Cardinality(U) <= 1 => \A p, q \in U : p = q
      /\ Cardinality(O) <= 1 => \A p, q \in O : p = q
  BY <1>5, AtMostOne
<1> QED BY <1>2, <1>7, <1>8

LEMMA TurnKeeps ==
  ASSUME Shape, NEW p \in Procs, Turn(p)
  PROVE  CallTypes' /\ Shape'
BY OthersAre DEF Turn, Shape

\* References are counted when a process takes one, gives one back, or only
\* keeps it elsewhere.
LEMMA QuietKeeps ==
  ASSUME RefInv, NEW p \in Procs, Turn(p), DataTypes', UNCHANGED files,
         \A i \in Inums : ref'[i] = ref[i] + Own(p, i)' - Own(p, i)
  PROVE  RefInv'
<1>1. CallTypes' /\ Shape'
  BY TurnKeeps DEF RefInv
<1>2. FilesRight'
  BY DEF RefInv, FilesRight, Users, files
<1>3. Counted'
  BY CountedKeeps DEF RefInv, Turn, files
<1> QED BY <1>1, <1>2, <1>3 DEF RefInv

LEMMA TakeKeeps ==
  ASSUME RefInv, NEW p \in Procs, Turn(p), DataTypes', UNCHANGED files,
         NEW s \in Inums, Iget(s),
         \A i \in Inums : Own(p, i)' = Own(p, i) + Flag(s = i)
  PROVE  RefInv'
<1>1. ASSUME NEW i \in Inums PROVE ref'[i] = ref[i] + Own(p, i)' - Own(p, i)
  <2>1. Own(p, i) \in Int /\ ref[i] \in Int
    BY DEF RefInv, DataTypes, Own, Flag
  <2>2. ref'[i] = ref[i] + Flag(s = i)
    BY DEF RefInv, DataTypes, Iget, Flag
  <2>3. Own(p, i)' = Own(p, i) + Flag(s = i)
    OBVIOUS
  <2>4. Flag(s = i) \in Int
    BY DEF Flag
  <2> QED BY <2>1, <2>2, <2>3, <2>4
<1> QED BY <1>1, QuietKeeps

LEMMA SameKeeps ==
  ASSUME RefInv, NEW p \in Procs, Turn(p), DataTypes', UNCHANGED files,
         ref' = ref, \A i \in Inums : Own(p, i)' = Own(p, i)
  PROVE  RefInv'
<1>1. ASSUME NEW i \in Inums PROVE ref'[i] = ref[i] + Own(p, i)' - Own(p, i)
  <2>1. Own(p, i) \in Int /\ ref[i] \in Int
    BY DEF RefInv, DataTypes, Own, Flag
  <2> QED BY <2>1
<1> QED BY <1>1, QuietKeeps

LEMMA OneLess ==
  ASSUME NEW S, NEW f \in [S -> Nat], NEW x \in S, f[x] \in Nat \ {0}
  PROVE  [f EXCEPT ![x] = @ - 1] \in [S -> Nat]
OBVIOUS

LEMMA LoadTypes ==
  ASSUME DataTypes, NEW i \in Inums, Load(i)
  PROVE  valid' \in [Inums -> BOOLEAN] /\ ctype' \in [Inums -> Types]
BY DEF DataTypes, Load, Loaded

LEMMA OpenedTypes ==
  ASSUME DataTypes, NEW p \in Procs, NEW i \in Inums, Opened(p, i)
  PROVE  /\ fref' \in [Files -> Nat] /\ fip' \in [Files -> Inums \cup {None}]
         /\ fd' \in [Procs -> Files \cup {NoFile}]
BY DEF DataTypes, Opened

LEMMA StepTypes ==
  ASSUME RefInv, Next
  PROVE  DataTypes'
<1> USE DEF Iget
<1>0. RefTypes /\ FilesRight /\ Counted
  BY DEF RefInv, RefTypes
<1>1. ASSUME NEW p \in Procs, NEW c \in Calls \ {"none"}, Begin(p, c) PROVE DataTypes'
  <2>1. PICK s \in Inums : Iget(s) /\ cwd' = cwd
    BY <1>0, <1>1, BeginMoves
  <2> QED BY <1>1, <2>1 DEF RefInv, DataTypes, Begin, onDisk, files
<1>2. ASSUME NEW p \in Procs, PutCheck(p) PROVE DataTypes'
  BY <1>2 DEF RefInv, DataTypes, PutCheck, onDisk, files
<1>3. ASSUME NEW p \in Procs, PutTrunc(p) PROVE DataTypes'
  BY <1>3, Constants DEF RefInv, DataTypes, PutTrunc, NoEntries, Types, files
<1>4. ASSUME NEW p \in Procs, PutInvalid(p) PROVE DataTypes'
  BY <1>4 DEF RefInv, DataTypes, PutInvalid, onDisk, files
<1>5. ASSUME NEW p \in Procs, PutDrop(p) PROVE DataTypes'
  <2>1. put[p] \in Inums /\ PutRef(p) = put[p]
    BY <1>0, <1>5, PutDropMoves
  <2>2. ref[put[p]] \in Nat \ {0}
    BY <1>0, <2>1, Referred
  <2>3. /\ ref' = [ref EXCEPT ![put[p]] = @ - 1]
        /\ UNCHANGED <<onDisk, ctype, holder, files, cwd, panicked>>
        /\ valid' = [valid EXCEPT ![put[p]] = @ /\ ref[put[p]] > 1]
    BY <1>5 DEF PutDrop
  <2>4. valid' \in [Inums -> BOOLEAN]
    BY <2>3 DEF RefInv, DataTypes
  <2>5. ref' \in [Inums -> Nat]
    BY <2>1, <2>2, <2>3, OneLess DEF RefInv, DataTypes
  <2> QED BY <2>3, <2>4, <2>5 DEF RefInv, DataTypes, onDisk, files
<1>6. ASSUME NEW p \in Procs, Step(p) PROVE DataTypes'
  <2>1. PICK d \in Inums : /\ Load(d) /\ cwd' = cwd
                           /\ ref' = ref \/ \E i \in Inums : Iget(i)
    BY <1>0, <1>6, StepMoves
  <2>2. valid' \in [Inums -> BOOLEAN] /\ ctype' \in [Inums -> Types]
    BY <2>1, LoadTypes DEF RefInv
  <2>3. ref' \in [Inums -> Nat]
    BY <2>1 DEF RefInv, DataTypes
  <2> QED BY <1>6, <2>1, <2>2, <2>3 DEF RefInv, DataTypes, Step, onDisk, files
<1>7. ASSUME NEW p \in Procs, Open(p) PROVE DataTypes'
  <2>1. PICK i \in Inums : Load(i) /\ (Opened(p, i) \/ UNCHANGED files)
    BY <1>0, <1>7, OpenMoves
  <2>2. valid' \in [Inums -> BOOLEAN] /\ ctype' \in [Inums -> Types]
    BY <2>1, LoadTypes DEF RefInv
  <2>3. /\ fref' \in [Files -> Nat] /\ fip' \in [Files -> Inums \cup {None}]
        /\ fd' \in [Procs -> Files \cup {NoFile}]
    BY <2>1, OpenedTypes DEF RefInv, files, DataTypes
  <2> QED BY <1>7, <2>1, <2>2, <2>3 DEF RefInv, DataTypes, Open, onDisk
<1>8. ASSUME NEW p \in Procs, Chdir(p) PROVE DataTypes'
  <2>1. PICK i \in Inums : Load(i) /\ cwd' \in [Procs -> Inums]
    BY <1>0, <1>8, ChdirMoves DEF RefInv, DataTypes
  <2>2. valid' \in [Inums -> BOOLEAN] /\ ctype' \in [Inums -> Types]
    BY <2>1, LoadTypes DEF RefInv
  <2> QED BY <1>8, <2>1, <2>2 DEF RefInv, DataTypes, Chdir, onDisk, files
<1>9. ASSUME NEW p \in Procs, Close(p) PROVE DataTypes'
  <2>1. PICK f \in Files : /\ cwd' = cwd /\ UNCHANGED <<onDisk, cache>>
                           /\ fd' = [fd EXCEPT ![p] = NoFile]
                           /\ fref' = [fref EXCEPT ![f] = @ - 1] /\ fref[f] \in Nat \ {0}
                           /\ fip' = [fip EXCEPT ![f] = None] \/ fip' = fip
    BY <1>0, <1>9, CloseMoves
  <2>2. fref' \in [Files -> Nat]
    BY <2>1, OneLess DEF RefInv, DataTypes
  <2>3. fip' \in [Files -> Inums \cup {None}] /\ fd' \in [Procs -> Files \cup {NoFile}]
    BY <2>1 DEF RefInv, DataTypes
  <2>4. panicked' = panicked
    BY <1>9 DEF Close
  <2> QED BY <2>1, <2>2, <2>3, <2>4 DEF RefInv, DataTypes, onDisk, cache
<1>10. ASSUME NEW p \in Procs, NEW q \in Procs, Filedup(p, q) PROVE DataTypes'
  <2>1. fd[p] \in Files
    BY <1>10 DEF Filedup, RefInv, DataTypes
  <2> QED BY <1>10, <2>1 DEF RefInv, DataTypes, Filedup, onDisk, cache
<1>11. ASSUME NEW p \in Procs, CreateExists(p) PROVE DataTypes'
  <2>1. PICK d \in Inums, i \in Inums : Load(d) /\ Iget(i) /\ cwd' = cwd
    BY <1>0, <1>11, CreateExistsMoves
  <2>2. valid' \in [Inums -> BOOLEAN] /\ ctype' \in [Inums -> Types]
    BY <2>1, LoadTypes DEF RefInv
  <2>3. ref' \in [Inums -> Nat]
    BY <2>1 DEF RefInv, DataTypes
  <2>4. UNCHANGED <<onDisk, holder, files, panicked>>
    BY <1>11 DEF CreateExists
  <2> QED BY <2>1, <2>2, <2>3, <2>4 DEF RefInv, DataTypes, onDisk, files
<1>12. ASSUME NEW p \in Procs, CreateAlloc(p) PROVE DataTypes'
  <2>1. PICK d \in Inums : d = cur[p]
    BY <1>0, <1>12, RefsAre DEF CreateAlloc, At
  <2>2. Load(d) /\ UNCHANGED <<entries, dotdot, ref, files, cwd>>
    BY <1>12, <2>1 DEF CreateAlloc
  <2>3. valid' \in [Inums -> BOOLEAN] /\ ctype' \in [Inums -> Types]
    BY <2>2, LoadTypes DEF RefInv
  <2>4. PICK k \in Types : k = IF call[p] = "mkdir" THEN "dir" ELSE "file"
    BY DEF Types
  <2>5. CASE \A i \in Inums : type[i] # "free"
    <3>1. panicked' = TRUE /\ UNCHANGED <<type, nlink, holder>>
      BY <1>12, <2>5 DEF CreateAlloc
    <3> QED BY <2>2, <2>3, <3>1 DEF RefInv, DataTypes, files
  <2>6. CASE ~\A i \in Inums : type[i] # "free"
    <3>1. /\ \E i \in Inums : /\ type' = [type EXCEPT ![i] = k]
                             /\ nlink' = [nlink EXCEPT ![i] = 0]
          /\ holder' = [holder EXCEPT ![d] = p] /\ panicked' = panicked
      BY <1>12, <2>1, <2>4, <2>6 DEF CreateAlloc, HoldParent
    <3>2. type' \in [Inums -> Types] /\ nlink' \in [Inums -> Int]
      BY <3>1 DEF RefInv, DataTypes
    <3>3. holder' \in [Inums -> Procs \cup {Nobody}]
      BY <3>1 DEF RefInv, DataTypes
    <3> QED BY <2>2, <2>3, <3>1, <3>2, <3>3 DEF RefInv, DataTypes, files
  <2> QED BY <2>5, <2>6
<1>13. ASSUME NEW p \in Procs, CreateGet(p) PROVE DataTypes'
  <2>1. old[p] \in Inums
    BY <1>0, <1>13, RefsAre DEF CreateGet, At
  <2> QED BY <1>13, <2>1 DEF RefInv, DataTypes, CreateGet, onDisk, files
<1>14. ASSUME NEW p \in Procs, CreateLink(p) PROVE DataTypes'
  <2>1. PICK d \in Inums, i \in Inums : /\ d = cur[p] /\ i = old[p] /\ Load(i)
                                        /\ path[p] # <<>>
    BY <1>0, <1>14, CreateLinkMoves
  <2>2. valid' \in [Inums -> BOOLEAN] /\ ctype' \in [Inums -> Types]
    BY <2>1, LoadTypes DEF RefInv
  <2>3. nlink' \in [Inums -> Int] /\ dotdot' \in [Inums -> Inums]
        /\ holder' \in [Inums -> Procs \cup {Nobody}]
    <3>1. nlink' = [nlink EXCEPT ![i] = 1, ![d] = @ + IF call[p] = "mkdir" THEN 1 ELSE 0]
      BY <1>14, <2>1 DEF CreateLink
    <3>2. dotdot' = (IF call[p] = "mkdir" THEN [dotdot EXCEPT ![i] = d] ELSE dotdot)
          /\ holder' = [holder EXCEPT ![i] = p, ![d] = Nobody]
      BY <1>14, <2>1 DEF CreateLink
    <3> QED BY <3>1, <3>2 DEF RefInv, DataTypes
  <2>4. entries' \in [Inums -> [Names -> Inums \cup {None}]]
    <3>1. entries' = [entries EXCEPT ![d][Name(p)] = i]
      BY <1>14, <2>1 DEF CreateLink
    <3> QED BY <3>1 DEF RefInv, DataTypes
  <2> QED BY <1>14, <2>1, <2>2, <2>3, <2>4 DEF RefInv, DataTypes, CreateLink, files
<1>15. ASSUME NEW p \in Procs, CreateDone(p) PROVE DataTypes'
  <2>1. PICK i \in Inums : /\ cwd' = cwd /\ ref' = ref /\ UNCHANGED <<onDisk, valid, ctype>>
                           /\ holder' = [holder EXCEPT ![i] = Nobody]
                           /\ Opened(p, i) \/ UNCHANGED files
    BY <1>0, <1>15, CreateDoneMoves
  <2>2. /\ fref' \in [Files -> Nat] /\ fip' \in [Files -> Inums \cup {None}]
        /\ fd' \in [Procs -> Files \cup {NoFile}]
    BY <2>1, OpenedTypes DEF RefInv, files, DataTypes
  <2>3. holder' \in [Inums -> Procs \cup {Nobody}]
    BY <2>1 DEF RefInv, DataTypes
  <2>4. panicked' = panicked
    BY <1>15 DEF CreateDone
  <2> QED BY <2>1, <2>2, <2>3, <2>4 DEF RefInv, DataTypes, onDisk
<1>16. ASSUME NEW p \in Procs, UnlinkFails(p) PROVE DataTypes'
  <2>1. PICK d \in Inums : Load(d)
    BY <1>0, <1>16, UnlinkFailsMoves
  <2>2. valid' \in [Inums -> BOOLEAN] /\ ctype' \in [Inums -> Types]
    BY <2>1, LoadTypes DEF RefInv
  <2> QED BY <1>16, <2>2 DEF RefInv, DataTypes, UnlinkFails, onDisk, files
<1>17. ASSUME NEW p \in Procs, UnlinkFind(p) PROVE DataTypes'
  <2>1. PICK d \in Inums, i \in Inums : Load(d) /\ Iget(i) /\ holder' = [holder EXCEPT ![d] = p]
    BY <1>0, <1>17, UnlinkFindMoves
  <2>2. valid' \in [Inums -> BOOLEAN] /\ ctype' \in [Inums -> Types]
    BY <2>1, LoadTypes DEF RefInv
  <2>3. ref' \in [Inums -> Nat]
    BY <2>1 DEF RefInv, DataTypes
  <2>4. holder' \in [Inums -> Procs \cup {Nobody}]
    BY <2>1 DEF RefInv, DataTypes
  <2>5. UNCHANGED <<onDisk, files, cwd, panicked>>
    BY <1>17 DEF UnlinkFind
  <2> QED BY <2>2, <2>3, <2>4, <2>5 DEF RefInv, DataTypes, onDisk, files
<1>18. ASSUME NEW p \in Procs, UnlinkKeep(p) PROVE DataTypes'
  <2>1. PICK i \in Inums : Load(i)
    BY <1>0, <1>18, UnlinkKeepMoves
  <2>2. valid' \in [Inums -> BOOLEAN] /\ ctype' \in [Inums -> Types]
    BY <2>1, LoadTypes DEF RefInv
  <2> QED BY <1>18, <2>2 DEF RefInv, DataTypes, UnlinkKeep, onDisk, files
<1>19. ASSUME NEW p \in Procs, UnlinkEntry(p) PROVE DataTypes'
  <2>1. PICK d \in Inums, i \in Inums : d = cur[p] /\ i = old[p] /\ Load(i)
    BY <1>0, <1>19, UnlinkEntryMoves
  <2>2. valid' \in [Inums -> BOOLEAN] /\ ctype' \in [Inums -> Types]
    BY <2>1, LoadTypes DEF RefInv
  <2>3. nlink' \in [Inums -> Int] /\ holder' \in [Inums -> Procs \cup {Nobody}]
    <3>1. nlink' = [nlink EXCEPT ![d] = @ - IF Loaded(i) = "dir" THEN 1 ELSE 0]
      BY <1>19, <2>1 DEF UnlinkEntry
    <3>2. holder' = [holder EXCEPT ![i] = p, ![d] = Nobody]
      BY <1>19, <2>1 DEF UnlinkEntry
    <3> QED BY <3>1, <3>2 DEF RefInv, DataTypes
  <2>4. entries' \in [Inums -> [Names -> Inums \cup {None}]]
    <3>1. entries' = [entries EXCEPT ![d][Name(p)] = None]
      BY <1>19, <2>1 DEF UnlinkEntry
    <3> QED BY <3>1 DEF RefInv, DataTypes
  <2> QED BY <1>19, <2>2, <2>3, <2>4 DEF RefInv, DataTypes, UnlinkEntry, files
<1>20. ASSUME NEW p \in Procs, UnlinkDone(p) PROVE DataTypes'
  <2>1. old[p] \in Inums
    BY <1>0, <1>20, RefsAre DEF UnlinkDone, At
  <2> QED BY <1>20, <2>1 DEF RefInv, DataTypes, UnlinkDone, files
<1>21. ASSUME NEW p \in Procs, Release(p) PROVE DataTypes'
  BY <1>21 DEF RefInv, DataTypes, Release, onDisk, files
<1>22. ASSUME NEW p \in Procs, LinkCount(p) PROVE DataTypes'
  <2>1. PICK i \in Inums :
          /\ Load(i) /\ cwd' = cwd /\ UNCHANGED <<type, entries, dotdot, holder, files>>
          /\ \/ UNCHANGED <<nlink, ref>>
             \/ /\ nlink' = [nlink EXCEPT ![i] = @ + 1]
                /\ \E s \in Inums : Iget(s)
    BY <1>0, <1>22, LinkCountMoves
  <2>2. valid' \in [Inums -> BOOLEAN] /\ ctype' \in [Inums -> Types]
    BY <2>1, LoadTypes DEF RefInv
  <2>3. nlink' \in [Inums -> Int] /\ ref' \in [Inums -> Nat]
    BY <2>1 DEF RefInv, DataTypes
  <2> QED BY <1>22, <2>1, <2>2, <2>3 DEF RefInv, DataTypes, LinkCount, files
<1>23. ASSUME NEW p \in Procs, LinkEntry(p) PROVE DataTypes'
  <2>1. PICK d \in Inums, n \in Element, o \in Inums :
          /\ Load(d) /\ cwd' = cwd /\ UNCHANGED <<type, nlink, dotdot, files>>
          /\ \/ UNCHANGED <<ref, holder>> /\ entries' = [entries EXCEPT ![d][n] = o]
             \/ /\ entries' = entries /\ holder' = [holder EXCEPT ![d] = p]
                /\ \E i \in Inums : Iget(i)
    BY <1>0, <1>23, LinkEntryMoves
  <2>2. valid' \in [Inums -> BOOLEAN] /\ ctype' \in [Inums -> Types]
    BY <2>1, LoadTypes DEF RefInv
  <2>3. entries' \in [Inums -> [Names -> Inums \cup {None}]]
    <3>1. CASE entries' = [entries EXCEPT ![d][n] = o]
      BY <3>1 DEF RefInv, DataTypes
    <3> QED BY <2>1, <3>1 DEF RefInv, DataTypes
  <2>4. ref' \in [Inums -> Nat]
    BY <2>1 DEF RefInv, DataTypes
  <2>5. holder' \in [Inums -> Procs \cup {Nobody}]
    <3>1. holder' = holder \/ holder' = [holder EXCEPT ![d] = p]
      BY <2>1
    <3> QED BY <3>1 DEF RefInv, DataTypes
  <2> QED BY <1>23, <2>1, <2>2, <2>3, <2>4, <2>5 DEF RefInv, DataTypes, LinkEntry, files
<1>24. ASSUME NEW p \in Procs, LinkDone(p) PROVE DataTypes'
  BY <1>24 DEF RefInv, DataTypes, LinkDone, onDisk, cache, files
<1>25. ASSUME NEW p \in Procs, LinkBad(p) PROVE DataTypes'
  <2>1. old[p] \in Inums
    BY <1>0, <1>25, RefsAre DEF LinkBad, At
  <2>2. valid' \in [Inums -> BOOLEAN] /\ ctype' \in [Inums -> Types]
    BY <1>25, <2>1, LoadTypes DEF RefInv, LinkBad
  <2>3. nlink' = [nlink EXCEPT ![old[p]] = @ - 1]
    BY <1>25 DEF LinkBad, TakenBack
  <2>4. nlink' \in [Inums -> Int]
    BY <2>1, <2>3 DEF RefInv, DataTypes
  <2>5. UNCHANGED <<type, entries, dotdot, ref, holder, files, cwd, panicked>>
    BY <1>25 DEF LinkBad
  <2> QED BY <2>2, <2>4, <2>5 DEF RefInv, DataTypes, files
<1> QED BY <1>1, <1>2, <1>3, <1>4, <1>5, <1>6, <1>7, <1>8, <1>9, <1>10, <1>11, <1>12,
        <1>13, <1>14, <1>15, <1>16, <1>17, <1>18, <1>19, <1>20, <1>21, <1>22, <1>23,
        <1>24, <1>25 DEF Next, Calls

\* A file that takes over the reference of a call.
LEMMA OpenedKeeps ==
  ASSUME RefInv, NEW p \in Procs, NEW i \in Inums, Opened(p, i), Turn(p), DataTypes',
         ref' = ref, cwd' = cwd, NEW k \in Inums \cup {None}, NEW o \in Inums \cup {None},
         Refs(p, None, k, o), (k = i /\ o = None) \/ (k = None /\ o = i),
         Refs(p, None, None, None)'
  PROVE  RefInv'
<1>1. PICK f \in Files : /\ fref[f] = 0 /\ fref' = [fref EXCEPT ![f] = 1]
                         /\ fip' = [fip EXCEPT ![f] = i] /\ fd' = [fd EXCEPT ![p] = f]
                         /\ fd[p] = NoFile
  BY DEF Opened
<1>2. CallTypes' /\ Shape'
  BY TurnKeeps DEF RefInv
<1>3. ASSUME NEW g \in Files
      PROVE  fref'[g] = Cardinality(Users(g)') /\ (fref'[g] > 0 => fip'[g] # None)
  <2>1. /\ fref[g] = Cardinality(Users(g)) /\ (fref[g] > 0 => fip[g] # None)
        /\ fref[g] \in Nat /\ p \notin Users(g) /\ Users(g) \in SUBSET Procs
    BY <1>1, Constants DEF RefInv, DataTypes, FilesRight, Users
  <2>2. Users(g)' = {q \in Procs : fd'[q] = g}
    BY DEF Users
  <2>3. Users(g)' \ {p} = Users(g) \ {p} /\ (p \in Users(g)' <=> g = f)
    BY <1>1, <2>2 DEF RefInv, DataTypes, Users
  <2>4. Cardinality(Users(g)') = Cardinality(Users(g))
                                + Flag(p \in Users(g)') - Flag(p \in Users(g))
    BY <2>1, <2>3, Finite, CountsOne
  <2>5. CASE g = f
    <3>1. fref'[g] = 1 /\ fip'[g] = i /\ fref[g] = 0
      BY <1>1, <2>5 DEF RefInv, DataTypes
    <3> QED BY <2>1, <2>3, <2>4, <2>5, <3>1, Constants DEF Flag
  <2>6. CASE g # f
    <3>1. fref'[g] = fref[g] /\ fip'[g] = fip[g]
      BY <1>1, <2>6 DEF RefInv, DataTypes
    <3> QED BY <2>1, <2>3, <2>4, <2>6, <3>1, Constants DEF Flag
  <2> QED BY <2>5, <2>6
<1>4. FilesRight'
  BY <1>3 DEF FilesRight
<1>5. ASSUME NEW j \in Inums PROVE ref'[j] = RefsTo(j)'
  <2> DEFINE F == {g \in Files : fref[g] > 0 /\ fip[g] = j}
  <2>1. F \in SUBSET Files /\ f \notin F
    BY <1>1
  <2>2. F' \ {f} = F \ {f} /\ (f \in F' <=> i = j)
    BY <1>1 DEF RefInv, DataTypes
  <2>3. Cardinality(F') = Cardinality(F) + Flag(f \in F') - Flag(f \in F)
    BY <2>1, <2>2, Finite, CountsOne
  <2>4. FileRefs(j)' = FileRefs(j) + Flag(i = j)
    <3>1. FileRefs(j) = Cardinality(F) /\ FileRefs(j)' = Cardinality(F')
      BY DEF FileRefs
    <3>2. FileRefs(j) \in Nat
      BY Finite DEF FileRefs
    <3> HIDE DEF F
    <3> QED BY <2>1, <2>2, <2>3, <3>1, <3>2 DEF Flag
  <2>5. /\ RefsTo(j) \in Nat /\ FileRefs(j) \in Nat
        /\ RefsTo(j)' = RefsTo(j) + Own(p, j)' - Own(p, j) + FileRefs(j)' - FileRefs(j)
    BY OneProcess DEF Turn
  <2>6. Own(p, j)' = Own(p, j) - Flag(i = j) /\ Own(p, j) \in Int
    <3>1. None # j
      BY Constants
    <3>2. /\ Own(p, j) = Flag(cwd[p] = j) + Flag(None = j) + Flag(k = j) + Flag(o = j)
          /\ Own(p, j)' = Flag(cwd'[p] = j) + Flag(None = j) + Flag(None = j) + Flag(None = j)
      BY DEF Refs, Own
    <3> QED BY <3>1, <3>2 DEF Flag
  <2>7. Flag(i = j) \in Int
    BY DEF Flag
  <2> QED BY <2>4, <2>5, <2>6, <2>7 DEF RefInv, Counted
<1> QED BY <1>2, <1>4, <1>5 DEF RefInv, Counted

LEMMA CloseKeeps ==
  ASSUME RefInv, NEW p \in Procs, Close(p), DataTypes'
  PROVE  RefInv'
<1>1. RefTypes /\ FilesRight
  BY DEF RefInv, RefTypes
<1>2. PICK f \in Files :
        /\ f = fd[p] /\ pc[p] = "idle" /\ Refs(p, None, None, None)
        /\ Turn(p) /\ cwd' = cwd /\ UNCHANGED <<onDisk, cache>>
        /\ fd' = [fd EXCEPT ![p] = NoFile]
        /\ fref' = [fref EXCEPT ![f] = @ - 1] /\ fref[f] \in Nat \ {0}
        /\ Stage(p)' = "idle"
        /\ \/ \E u \in Inums :
                /\ fref[f] = 1 /\ fip[f] = u /\ Refs(p, u, None, None)'
                /\ fip' = [fip EXCEPT ![f] = None] /\ pc'[p] = "put" /\ put'[p] = u
           \/ /\ fref[f] # 1 /\ Refs(p, None, None, None)' /\ fip' = fip
              /\ pc'[p] = "idle"
  BY <1>1, CloseMoves
<1>3. CallTypes' /\ Shape'
  BY <1>2, TurnKeeps DEF RefInv
<1>4. ASSUME NEW g \in Files
      PROVE  fref'[g] = Cardinality(Users(g)') /\ (fref'[g] > 0 => fip'[g] # None)
  <2>1. /\ fref[g] = Cardinality(Users(g)) /\ (fref[g] > 0 => fip[g] # None)
        /\ fref[g] \in Nat /\ (p \in Users(g) <=> g = f) /\ Users(g) \in SUBSET Procs
    BY <1>1, <1>2 DEF RefTypes, DataTypes, FilesRight, Users
  <2>2. Users(g)' = {q \in Procs : fd'[q] = g}
    BY DEF Users
  <2>3. fd \in [Procs -> Files \cup {NoFile}]
    BY <1>1 DEF RefTypes, DataTypes
  <2>4. Users(g)' \ {p} = Users(g) \ {p} /\ p \notin Users(g)'
    BY <1>2, <2>2, <2>3, Constants DEF Users
  <2>5. Cardinality(Users(g)') = Cardinality(Users(g))
                                + Flag(p \in Users(g)') - Flag(p \in Users(g))
    BY <2>1, <2>4, Finite, CountsOne
  <2>6. CASE g = f
    <3>1. fref'[g] = fref[g] - 1 /\ (fref[f] # 1 => fip'[g] = fip[g])
      BY <1>1, <1>2, <2>6 DEF RefTypes, DataTypes
    <3> QED BY <2>1, <2>4, <2>5, <2>6, <3>1, <1>2, Constants DEF Flag
  <2>7. CASE g # f
    <3>1. fref'[g] = fref[g] /\ fip'[g] = fip[g]
      BY <1>1, <1>2, <2>7 DEF RefTypes, DataTypes
    <3> QED BY <2>1, <2>4, <2>5, <2>7, <3>1 DEF Flag
  <2> QED BY <2>6, <2>7
<1>5. FilesRight'
  BY <1>4 DEF FilesRight
<1>6. ref' = ref
  BY <1>2 DEF cache
<1>7. CASE fref[f] # 1
  <2>1. ASSUME NEW j \in Inums PROVE ref'[j] = RefsTo(j)'
    <3>1. FileRefs(j)' = FileRefs(j)
      <4>1. \A g \in Files : fip'[g] = fip[g] /\ (fref'[g] > 0 <=> fref[g] > 0)
        BY <1>1, <1>2, <1>7 DEF RefTypes, DataTypes
      <4> QED BY <4>1 DEF FileRefs
    <3>2. Own(p, j)' = Own(p, j)
      BY <1>2, <1>7 DEF Refs, Own
    <3>3. Own(p, j) \in Int
      BY DEF Own, Flag
    <3>4. /\ RefsTo(j) \in Nat /\ FileRefs(j) \in Nat
          /\ RefsTo(j)' = RefsTo(j) + Own(p, j)' - Own(p, j) + FileRefs(j)' - FileRefs(j)
      BY <1>2, OneProcess DEF Turn
    <3> QED BY <1>6, <3>1, <3>2, <3>3, <3>4 DEF RefInv, Counted
  <2> QED BY <1>3, <1>5, <2>1 DEF RefInv, Counted
<1>8. CASE fref[f] = 1
  <2>1. PICK u \in Inums : /\ fip[f] = u /\ Refs(p, u, None, None)'
                           /\ fip' = [fip EXCEPT ![f] = None]
    BY <1>2, <1>8
  <2>2. ASSUME NEW j \in Inums PROVE ref'[j] = RefsTo(j)'
    <3> DEFINE F == {g \in Files : fref[g] > 0 /\ fip[g] = j}
    <3>1. F \in SUBSET Files /\ (f \in F <=> u = j)
      BY <1>8, <2>1
    <3>2. F' \ {f} = F \ {f} /\ f \notin F'
      BY <1>1, <1>2, <2>1, Constants DEF RefTypes, DataTypes
    <3>3. Cardinality(F') = Cardinality(F) + Flag(f \in F') - Flag(f \in F)
      <4>1. IsFiniteSet(F)
        BY <3>1, Finite
      <4> HIDE DEF F
      <4> QED BY <3>2, <4>1, CountsOne
    <3>4. FileRefs(j)' = FileRefs(j) - Flag(u = j) /\ FileRefs(j) \in Nat
      <4>1. FileRefs(j) = Cardinality(F) /\ FileRefs(j)' = Cardinality(F')
        BY DEF FileRefs
      <4>2. FileRefs(j) \in Nat
        BY Finite DEF FileRefs
      <4> HIDE DEF F
      <4> QED BY <3>1, <3>2, <3>3, <4>1, <4>2 DEF Flag
    <3>5. Own(p, j)' = Own(p, j) + Flag(u = j) /\ Own(p, j) \in Int
      <4>1. None # j
        BY Constants
      <4>2. /\ Own(p, j) = Flag(cwd[p] = j) + Flag(None = j) + Flag(None = j) + Flag(None = j)
            /\ Own(p, j)' = Flag(cwd'[p] = j) + Flag(u = j) + Flag(None = j) + Flag(None = j)
        BY <1>2, <2>1 DEF Refs, Own
      <4> QED BY <1>2, <4>1, <4>2 DEF Flag
    <3>6. /\ RefsTo(j) \in Nat
          /\ RefsTo(j)' = RefsTo(j) + Own(p, j)' - Own(p, j) + FileRefs(j)' - FileRefs(j)
      BY <1>2, OneProcess DEF Turn
    <3>7. Flag(u = j) \in Int
      BY DEF Flag
    <3> QED BY <1>6, <3>4, <3>5, <3>6, <3>7 DEF RefInv, Counted
  <2> QED BY <1>3, <1>5, <2>2 DEF RefInv, Counted
<1> QED BY <1>7, <1>8

LEMMA FiledupKeeps ==
  ASSUME RefInv, NEW p \in Procs, NEW q \in Procs, Filedup(p, q), DataTypes'
  PROVE  RefInv'
<1>1. PICK f \in Files : f = fd[p]
  BY DEF Filedup, RefInv, DataTypes
<1>2. /\ fd' = [fd EXCEPT ![q] = f] /\ fref' = [fref EXCEPT ![f] = @ + 1]
      /\ UNCHANGED <<ref, fip, cwd, pc, locals>> /\ fd[q] = NoFile
  BY <1>1 DEF Filedup, cache
<1>3. fref[f] \in Nat \ {0}
  <2>1. p \in Users(f) /\ Users(f) \in SUBSET Procs
    BY <1>1 DEF Users
  <2>2. Cardinality(Users(f)) \in Nat \ {0}
    BY <2>1, Finite, AtMostOne
  <2> QED BY <2>2 DEF RefInv, FilesRight
<1>4. CallTypes' /\ Shape' /\ Others(p)
  BY <1>2 DEF RefInv, CallTypes, Shape, ShapeOf, Others, HoldsPut, HoldsCur, Stage, ForParent,
     SecondPath, locals, args
<1>5. ASSUME NEW g \in Files
      PROVE  fref'[g] = Cardinality(Users(g)') /\ (fref'[g] > 0 => fip'[g] # None)
  <2>1. /\ fref[g] = Cardinality(Users(g)) /\ (fref[g] > 0 => fip[g] # None)
        /\ fref[g] \in Nat /\ q \notin Users(g) /\ Users(g) \in SUBSET Procs
    BY <1>2, Constants DEF RefInv, DataTypes, FilesRight, Users
  <2>2. Users(g)' = {r \in Procs : fd'[r] = g}
    BY DEF Users
  <2>3. Users(g)' \ {q} = Users(g) \ {q} /\ (q \in Users(g)' <=> g = f)
    BY <1>2, <2>2 DEF RefInv, DataTypes, Users
  <2>4. Cardinality(Users(g)') = Cardinality(Users(g))
                                + Flag(q \in Users(g)') - Flag(q \in Users(g))
    BY <2>1, <2>3, Finite, CountsOne
  <2>5. fip'[g] = fip[g] /\ fref'[g] = fref[g] + Flag(g = f)
    BY <1>2 DEF RefInv, DataTypes, Flag
  <2> QED BY <1>3, <2>1, <2>3, <2>4, <2>5 DEF Flag
<1>6. ASSUME NEW j \in Inums PROVE ref'[j] = RefsTo(j)'
  <2>1. \A g \in Files : fip'[g] = fip[g] /\ (fref'[g] > 0 <=> fref[g] > 0)
    BY <1>2, <1>3 DEF RefInv, DataTypes
  <2>2. RefsTo(j)' = RefsTo(j)
    BY <1>2, <2>1 DEF RefsTo, HoldsPut, HoldsCur, HoldsOld, Stage, locals, args
  <2> QED BY <1>2, <2>2 DEF RefInv, Counted
<1> QED BY <1>4, <1>5, <1>6 DEF RefInv, FilesRight, Counted

LEMMA RefStep ==
  ASSUME RefInv, Next
  PROVE  RefInv'
<1>0. DataTypes' /\ RefTypes /\ FilesRight /\ Counted
  BY StepTypes DEF RefInv, RefTypes
<1>a. \A i \in Inums : Flag(None = i) = 0
  BY Constants DEF Flag
<1>b. \A x : Flag(x) \in {0, 1}
  BY DEF Flag
<1>1. ASSUME NEW p \in Procs, NEW c \in Calls \ {"none"}, Begin(p, c) PROVE RefInv'
  <2>1. PICK s \in Inums : Iget(s) /\ Turn(p) /\ cwd' = cwd /\ Refs(p, None, s, None)'
                           /\ pc[p] = "idle"
    BY <1>0, <1>1, BeginMoves
  <2>2. Refs(p, None, None, None)
    BY <1>0, <2>1, RefsAre
  <2>3. \A i \in Inums : Own(p, i)' = Own(p, i) + Flag(s = i)
    BY <2>1, <2>2, Constants DEF Own, Refs, Flag
  <2>4. UNCHANGED files
    BY <1>1 DEF Begin
  <2> QED BY <1>0, <2>1, <2>3, <2>4, TakeKeeps
<1>2. ASSUME NEW p \in Procs, PutCheck(p) \/ PutTrunc(p) \/ PutInvalid(p) PROVE RefInv'
  <2>1. PICK point \in {"trunc", "inval", "drop"} : Goto(p, point)
    BY <1>2 DEF PutCheck, PutTrunc, PutInvalid
  <2>2. HoldsPut(p) /\ UNCHANGED <<locals, cwd, ref, files>>
    BY <1>2 DEF PutCheck, PutTrunc, PutInvalid, At, HoldsPut
  <2>3. /\ Turn(p) /\ PutRef(p)' = PutRef(p) /\ CurRef(p)' = CurRef(p)
        /\ OldRef(p)' = OldRef(p)
    BY <1>0, <2>1, <2>2, PutGoesOn
  <2>4. \A i \in Inums : Own(p, i)' = Own(p, i)
    BY <2>2, <2>3 DEF Own
  <2> QED BY <1>0, <2>2, <2>3, <2>4, SameKeeps
<1>3. ASSUME NEW p \in Procs, PutDrop(p) PROVE RefInv'
  <2>1. /\ Turn(p) /\ cwd' = cwd /\ put[p] \in Inums /\ PutRef(p) = put[p]
        /\ PutRef(p)' = None /\ CurRef(p)' = CurRef(p) /\ OldRef(p)' = OldRef(p)
    BY <1>0, <1>3, PutDropMoves
  <2>2. ref' = [ref EXCEPT ![put[p]] = @ - 1] /\ UNCHANGED files
    BY <1>3 DEF PutDrop
  <2>3. ASSUME NEW i \in Inums PROVE ref'[i] = ref[i] + Own(p, i)' - Own(p, i)
    <3>1. Own(p, i)' = Own(p, i) - Flag(put[p] = i) /\ Own(p, i) \in Int
      BY <2>1, Constants DEF Own, Flag
    <3>2. ref'[i] = ref[i] - Flag(put[p] = i) /\ ref[i] \in Int
      BY <1>0, <2>1, <2>2 DEF RefTypes, DataTypes, Flag
    <3> QED BY <1>b, <3>1, <3>2
  <2> QED BY <1>0, <2>1, <2>2, <2>3, QuietKeeps
<1>4. ASSUME NEW p \in Procs, Step(p) PROVE RefInv'
  <2>1. PICK d \in Inums, o \in Inums \cup {None} :
          /\ Refs(p, None, d, o) /\ Turn(p) /\ cwd' = cwd
          /\ \/ ref' = ref /\ (Refs(p, None, d, o)' \/ Refs(p, d, None, o)')
             \/ \E i \in Inums : Iget(i) /\ Refs(p, d, i, o)'
    BY <1>0, <1>4, StepMoves
  <2>2. UNCHANGED files
    BY <1>4 DEF Step
  <2>3. CASE ref' = ref /\ (Refs(p, None, d, o)' \/ Refs(p, d, None, o)')
    <3>1. \A i \in Inums : Own(p, i)' = Own(p, i)
      BY <2>1, <2>3 DEF Own, Refs, Flag
    <3> QED BY <1>0, <2>1, <2>2, <2>3, <3>1, SameKeeps
  <2>4. ASSUME NEW s \in Inums, Iget(s), Refs(p, d, s, o)' PROVE RefInv'
    <3>1. \A i \in Inums : Own(p, i)' = Own(p, i) + Flag(s = i)
      BY <2>1, <2>4, Constants DEF Own, Refs, Flag
    <3> QED BY <1>0, <2>1, <2>2, <2>4, <3>1, TakeKeeps
  <2> QED BY <2>1, <2>3, <2>4
<1>5. ASSUME NEW p \in Procs, Open(p) PROVE RefInv'
  <2>1. PICK i \in Inums :
          /\ Refs(p, None, i, None) /\ Turn(p) /\ cwd' = cwd /\ ref' = ref
          /\ \/ Opened(p, i) /\ Refs(p, None, None, None)'
             \/ UNCHANGED files /\ Refs(p, i, None, None)'
    BY <1>0, <1>5, OpenMoves
  <2>2. CASE Opened(p, i) /\ Refs(p, None, None, None)'
    BY <1>0, <2>1, <2>2, OpenedKeeps
  <2>3. CASE UNCHANGED files /\ Refs(p, i, None, None)'
    <3>1. \A j \in Inums : Own(p, j)' = Own(p, j)
      BY <2>1, <2>3 DEF Own, Refs, Flag
    <3> QED BY <1>0, <2>1, <2>3, <3>1, SameKeeps
  <2> QED BY <2>1, <2>2, <2>3
<1>6. ASSUME NEW p \in Procs, Chdir(p) PROVE RefInv'
  <2>1. PICK i \in Inums, u \in Inums :
          /\ Refs(p, None, i, None) /\ Turn(p) /\ ref' = ref /\ UNCHANGED files
          /\ Refs(p, u, None, None)'
          /\ (u = cwd[p] /\ cwd'[p] = i) \/ (u = i /\ cwd' = cwd)
    BY <1>0, <1>6, ChdirMoves
  <2>2. \A j \in Inums : Own(p, j)' = Own(p, j)
    BY <2>1, Constants DEF Own, Refs, Flag
  <2> QED BY <1>0, <2>1, <2>2, SameKeeps
<1>7. ASSUME NEW p \in Procs, CreateExists(p) PROVE RefInv'
  <2>1. PICK d \in Inums, s \in Inums : /\ Refs(p, None, d, None) /\ Iget(s) /\ Turn(p)
                                        /\ cwd' = cwd /\ Refs(p, d, s, None)'
    BY <1>0, <1>7, CreateExistsMoves
  <2>2. UNCHANGED files
    BY <1>7 DEF CreateExists
  <2>3. \A i \in Inums : Own(p, i)' = Own(p, i) + Flag(s = i)
    BY <2>1, Constants DEF Own, Refs, Flag
  <2> QED BY <1>0, <2>1, <2>2, <2>3, TakeKeeps
<1>8. ASSUME NEW p \in Procs, CreateAlloc(p) PROVE RefInv'
  <2>1. PICK d \in Inums : /\ Refs(p, None, d, None) /\ Turn(p) /\ cwd' = cwd /\ ref' = ref
                           /\ UNCHANGED <<entries, dotdot, files>> /\ Refs(p, None, d, None)'
    BY <1>0, <1>8, CreateAllocMoves
  <2>2. \A i \in Inums : Own(p, i)' = Own(p, i)
    BY <2>1 DEF Own, Refs
  <2> QED BY <1>0, <2>1, <2>2, SameKeeps
<1>9. ASSUME NEW p \in Procs, CreateGet(p) PROVE RefInv'
  <2>1. PICK d \in Inums, s \in Inums : /\ Refs(p, None, d, None) /\ Iget(s) /\ Turn(p)
                                        /\ cwd' = cwd /\ Refs(p, None, d, s)'
    BY <1>0, <1>9, CreateGetMoves
  <2>2. UNCHANGED files
    BY <1>9 DEF CreateGet
  <2>3. \A i \in Inums : Own(p, i)' = Own(p, i) + Flag(s = i)
    BY <2>1, Constants DEF Own, Refs, Flag
  <2> QED BY <1>0, <2>1, <2>2, <2>3, TakeKeeps
<1>10. ASSUME NEW p \in Procs, CreateLink(p) \/ UnlinkEntry(p) PROVE RefInv'
  <2>1. PICK d \in Inums, i \in Inums : /\ Refs(p, None, d, i) /\ Turn(p) /\ cwd' = cwd
                                        /\ ref' = ref /\ UNCHANGED files /\ Refs(p, d, None, i)'
    BY <1>0, <1>10, CreateLinkMoves, UnlinkEntryMoves
  <2>2. \A j \in Inums : Own(p, j)' = Own(p, j)
    BY <2>1 DEF Own, Refs, Flag
  <2> QED BY <1>0, <2>1, <2>2, SameKeeps
<1>11. ASSUME NEW p \in Procs, CreateDone(p) PROVE RefInv'
  <2>1. PICK i \in Inums :
          /\ Refs(p, None, None, i) /\ Turn(p) /\ cwd' = cwd /\ ref' = ref
          /\ \/ Opened(p, i) /\ Refs(p, None, None, None)'
             \/ UNCHANGED files /\ Refs(p, i, None, None)'
    BY <1>0, <1>11, CreateDoneMoves
  <2>2. CASE Opened(p, i) /\ Refs(p, None, None, None)'
    BY <1>0, <2>1, <2>2, OpenedKeeps
  <2>3. CASE UNCHANGED files /\ Refs(p, i, None, None)'
    <3>1. \A j \in Inums : Own(p, j)' = Own(p, j)
      BY <2>1, <2>3 DEF Own, Refs, Flag
    <3> QED BY <1>0, <2>1, <2>3, <3>1, SameKeeps
  <2> QED BY <2>1, <2>2, <2>3
<1>12. ASSUME NEW p \in Procs, UnlinkFails(p) PROVE RefInv'
  <2>1. PICK d \in Inums : /\ Refs(p, None, d, None) /\ Turn(p) /\ cwd' = cwd
                           /\ UNCHANGED <<onDisk, ref, holder, files>>
                           /\ Refs(p, d, None, None)'
    BY <1>0, <1>12, UnlinkFailsMoves
  <2>2. \A i \in Inums : Own(p, i)' = Own(p, i)
    BY <2>1 DEF Own, Refs, Flag
  <2> QED BY <1>0, <2>1, <2>2, SameKeeps
<1>13. ASSUME NEW p \in Procs, UnlinkFind(p) PROVE RefInv'
  <2>1. PICK d \in Inums, s \in Inums : /\ Refs(p, None, d, None) /\ Iget(s) /\ Turn(p)
                                        /\ cwd' = cwd /\ UNCHANGED <<onDisk, files>>
                                        /\ Refs(p, None, d, s)'
    BY <1>0, <1>13, UnlinkFindMoves
  <2>2. \A i \in Inums : Own(p, i)' = Own(p, i) + Flag(s = i)
    BY <2>1, Constants DEF Own, Refs, Flag
  <2> QED BY <1>0, <2>1, <2>2, TakeKeeps
<1>14. ASSUME NEW p \in Procs, UnlinkKeep(p) PROVE RefInv'
  <2>1. PICK d \in Inums, i \in Inums : /\ Refs(p, None, d, i) /\ Turn(p) /\ cwd' = cwd
                                        /\ UNCHANGED <<onDisk, ref, holder, files, cur>>
                                        /\ Refs(p, i, d, None)'
    BY <1>0, <1>14, UnlinkKeepMoves
  <2>2. \A j \in Inums : Own(p, j)' = Own(p, j)
    BY <2>1 DEF Own, Refs, Flag
  <2> QED BY <1>0, <2>1, <2>2, SameKeeps
<1>15. ASSUME NEW p \in Procs, UnlinkDone(p) \/ LinkDone(p) \/ LinkBad(p) PROVE RefInv'
  <2>1. /\ pc[p] \in {"unnamed", "linked", "bad"} /\ LastPut(p, old[p])
        /\ UNCHANGED <<cwd, ref, files>>
    BY <1>15 DEF UnlinkDone, LinkDone, LinkBad, At, cache
  <2>2. PICK i \in Inums : /\ Refs(p, None, None, i) /\ Turn(p) /\ Refs(p, i, None, None)'
    BY <1>0, <2>1, DoneMoves
  <2>3. \A j \in Inums : Own(p, j)' = Own(p, j)
    BY <2>1, <2>2 DEF Own, Refs, Flag
  <2> QED BY <1>0, <2>1, <2>2, <2>3, SameKeeps
<1>16. ASSUME NEW p \in Procs, Release(p) PROVE RefInv'
  <2>1. PICK d \in Inums, o \in Inums \cup {None} :
          /\ Refs(p, None, d, o) /\ Turn(p) /\ cwd' = cwd
          /\ UNCHANGED <<onDisk, ref, valid, ctype, files>> /\ Refs(p, d, None, o)'
    BY <1>0, <1>16, ReleaseMoves
  <2>2. \A j \in Inums : Own(p, j)' = Own(p, j)
    BY <2>1 DEF Own, Refs, Flag
  <2> QED BY <1>0, <2>1, <2>2, SameKeeps
<1>17. ASSUME NEW p \in Procs, LinkCount(p) PROVE RefInv'
  <2>1. PICK i \in Inums :
          /\ Refs(p, None, i, None) /\ Turn(p) /\ cwd' = cwd
          /\ UNCHANGED <<type, entries, dotdot, holder, files>>
          /\ \/ UNCHANGED <<nlink, ref>> /\ Refs(p, i, None, None)'
             \/ \E s \in Inums : Iget(s) /\ Refs(p, None, s, i)'
    BY <1>0, <1>17, LinkCountMoves
  <2>2. CASE UNCHANGED <<nlink, ref>> /\ Refs(p, i, None, None)'
    <3>1. \A j \in Inums : Own(p, j)' = Own(p, j)
      BY <2>1, <2>2 DEF Own, Refs, Flag
    <3> QED BY <1>0, <2>1, <2>2, <3>1, SameKeeps
  <2>3. ASSUME NEW s \in Inums, Iget(s), Refs(p, None, s, i)' PROVE RefInv'
    <3>1. \A j \in Inums : Own(p, j)' = Own(p, j) + Flag(s = j)
      BY <2>1, <2>3, Constants DEF Own, Refs, Flag
    <3> QED BY <1>0, <2>1, <2>3, <3>1, TakeKeeps
  <2> QED BY <2>1, <2>2, <2>3
<1>18. ASSUME NEW p \in Procs, LinkEntry(p) PROVE RefInv'
  <2>1. PICK d \in Inums, n \in Element, o \in Inums :
          /\ Refs(p, None, d, o) /\ Turn(p) /\ cwd' = cwd
          /\ UNCHANGED <<type, nlink, dotdot, files>>
          /\ \/ UNCHANGED <<ref, holder>> /\ Refs(p, d, None, o)'
             \/ \E s \in Inums : Iget(s) /\ Refs(p, s, d, o)'
    BY <1>0, <1>18, LinkEntryMoves
  <2>2. CASE UNCHANGED <<ref, holder>> /\ Refs(p, d, None, o)'
    <3>1. \A j \in Inums : Own(p, j)' = Own(p, j)
      BY <2>1, <2>2 DEF Own, Refs, Flag
    <3> QED BY <1>0, <2>1, <2>2, <3>1, SameKeeps
  <2>3. ASSUME NEW s \in Inums, Iget(s), Refs(p, s, d, o)' PROVE RefInv'
    <3>1. \A j \in Inums : Own(p, j)' = Own(p, j) + Flag(s = j)
      BY <2>1, <2>3, Constants DEF Own, Refs, Flag
    <3> QED BY <1>0, <2>1, <2>3, <3>1, TakeKeeps
  <2> QED BY <2>1, <2>2, <2>3
<1>19. ASSUME NEW p \in Procs, Close(p) PROVE RefInv'
  BY <1>0, <1>19, CloseKeeps
<1>20. ASSUME NEW p \in Procs, NEW q \in Procs, Filedup(p, q) PROVE RefInv'
  BY <1>0, <1>20, FiledupKeeps
<1> QED BY <1>1, <1>2, <1>3, <1>4, <1>5, <1>6, <1>7, <1>8, <1>9, <1>10, <1>11, <1>12,
        <1>13, <1>14, <1>15, <1>16, <1>17, <1>18, <1>19, <1>20 DEF Next, Calls

LEMMA RefInit == Init => RefInv
<1> SUFFICES ASSUME Init PROVE RefInv
  OBVIOUS
<1>1. Cardinality({}) = 0 /\ Cardinality(Procs) \in Nat
  BY FS_EmptySet, FS_CardinalityType, InodeAssumption
<1>2. DataTypes
  <2>1. /\ type \in [Inums -> Types] /\ ctype \in [Inums -> Types]
        /\ valid \in [Inums -> BOOLEAN] /\ holder \in [Inums -> Procs \cup {Nobody}]
    BY DEF Init, Types
  <2>2. nlink \in [Inums -> Int] /\ ref \in [Inums -> Nat]
    BY <1>1 DEF Init
  <2>3. /\ entries \in [Inums -> [Names -> Inums \cup {None}]]
        /\ dotdot \in [Inums -> Inums]
    BY Constants DEF Init, NoEntries
  <2>4. /\ fref \in [Files -> Nat] /\ fip \in [Files -> Inums \cup {None}]
        /\ fd \in [Procs -> Files \cup {NoFile}]
        /\ cwd \in [Procs -> Inums] /\ panicked \in BOOLEAN
    BY Constants DEF Init
  <2> QED BY <2>1, <2>2, <2>3, <2>4 DEF DataTypes
<1>3. CallTypes
  BY Constants DEF Init, CallTypes, Points, Calls
<1>4. Shape
  BY DEF Init, Shape, ShapeOf, HoldsPut, HoldsCur, Stage
<1>5. FilesRight
  <2>1. \A f \in Files : Users(f) = {} /\ fref[f] = 0
    BY Constants DEF Init, Users
  <2> QED BY <1>1, <2>1 DEF FilesRight
<1>6. ASSUME NEW i \in Inums PROVE ref[i] = RefsTo(i)
  <2>1. /\ {p \in Procs : cwd[p] = i} = IF i = ROOTINO THEN Procs ELSE {}
        /\ {f \in Files : fref[f] > 0 /\ fip[f] = i} = {}
        /\ {p \in Procs : HoldsPut(p) /\ put[p] = i} = {}
        /\ {p \in Procs : HoldsCur(p) /\ cur[p] = i} = {}
        /\ {p \in Procs : HoldsOld(p) /\ old[p] = i} = {}
    BY Constants DEF Init, HoldsPut, HoldsCur, HoldsOld, Stage
  <2>2. ref[i] = IF i = ROOTINO THEN Cardinality(Procs) ELSE 0
    BY DEF Init
  <2>3. RefsTo(i) = Cardinality({p \in Procs : cwd[p] = i})
                    + Cardinality({}) + Cardinality({}) + Cardinality({}) + Cardinality({})
    BY <2>1 DEF RefsTo
  <2>4. CASE i = ROOTINO
    <3>1. RefsTo(i) = Cardinality(Procs) + 0 + 0 + 0 + 0
      BY <1>1, <2>1, <2>3, <2>4
    <3> QED BY <1>1, <2>2, <2>4, <3>1
  <2>5. CASE i # ROOTINO
    <3>1. RefsTo(i) = 0 + 0 + 0 + 0 + 0
      BY <1>1, <2>1, <2>3, <2>5
    <3> QED BY <2>2, <2>5, <3>1
  <2> QED BY <2>4, <2>5
<1> QED BY <1>2, <1>3, <1>4, <1>5, <1>6 DEF RefInv, Counted

LEMMA RefStutter == RefInv /\ UNCHANGED vars => RefInv'
<1> SUFFICES ASSUME RefInv, UNCHANGED vars PROVE RefInv'
  OBVIOUS
<1> USE DEF vars, onDisk, cache, files, locals, args
<1>1. DataTypes' /\ CallTypes'
  BY DEF RefInv, DataTypes, CallTypes
<1>2. Shape'
  BY DEF RefInv, Shape, ShapeOf, HoldsPut, HoldsCur, Stage, ForParent, SecondPath
<1>3. FilesRight'
  BY DEF RefInv, FilesRight, Users
<1>4. \A i \in Inums : RefsTo(i)' = RefsTo(i)
  BY DEF RefsTo, HoldsPut, HoldsCur, HoldsOld, Stage
<1>5. Counted'
  BY <1>4 DEF RefInv, Counted
<1> QED BY <1>1, <1>2, <1>3, <1>5 DEF RefInv

\* Whatever programs remove, and whichever way a call fails, ip->ref is the
\* number of pointers to the inode, and f->ref the number of descriptors (fs.c
\* iget, idup, iput; file.c filealloc, filedup, fileclose; sysfile.c).
THEOREM RefInvariant == Spec => []RefInv
<1>1. RefInv /\ [Next]_vars => RefInv'
  BY RefStep, RefStutter
<1> QED BY <1>1, RefInit, PTL DEF Spec

----------------------------------------------------------------------------
(* Links, the tree and the cache *)

LEMMA FiniteLinks ==
  ASSUME NEW i \in Inums
  PROVE  /\ IsFiniteSet(NamesOf(i)) /\ Cardinality(NamesOf(i)) \in Nat
         /\ IsFiniteSet(Children(i)) /\ Cardinality(Children(i)) \in Nat
         /\ Uncounted(i) \in Nat
<1>1. IsFiniteSet(Inums)
  BY FS_Interval, InodeAssumption DEF Inums
<1>2. IsFiniteSet(Inums \X Names)
  BY <1>1, FS_Product, InodeAssumption
<1>3. NamesOf(i) \in SUBSET (Inums \X Names) /\ Children(i) \in SUBSET Inums
  BY DEF NamesOf, Children
<1>4. IsFiniteSet(NamesOf(i)) /\ IsFiniteSet(Children(i))
  BY <1>1, <1>2, <1>3, FS_Subset
<1>5. Uncounted(i) \in Nat
  BY Finite DEF Uncounted
<1> QED BY <1>4, <1>5, FS_CardinalityType

LEMMA Empty ==
  ASSUME NEW S, IsFiniteSet(S)
  PROVE  Cardinality(S) = 0 <=> S = {}
BY FS_EmptySet

\* Nothing names an inode without links, and it names nothing.
LEMMA NoLinks ==
  ASSUME Tree, LinkCounts, NEW i \in Inums, nlink[i] = 0
  PROVE  /\ i # ROOTINO /\ NamesOf(i) = {} /\ ~InTree(i) /\ entries[i] = NoEntries
         /\ Children(i) = {} /\ Uncounted(i) = 0
<1>1. nlink[i] = Flag(i = ROOTINO) + Cardinality(NamesOf(i)) + Uncounted(i)
                 + Cardinality(Children(i))
  BY DEF LinkCounts, LinksOf
<1>2. Flag(i = ROOTINO) = 0 /\ Cardinality(NamesOf(i)) = 0 /\ Uncounted(i) = 0
      /\ Cardinality(Children(i)) = 0
  BY <1>1, FiniteLinks DEF Flag
<1>3. i # ROOTINO /\ NamesOf(i) = {} /\ Children(i) = {}
  BY <1>2, FiniteLinks, Empty DEF Flag
<1> QED BY <1>2, <1>3 DEF InTree, Tree

LEMMA TreeLive ==
  ASSUME Tree, NEW i \in Inums, InTree(i)
  PROVE  type[i] # "free"
BY DEF Tree, InTree

LEMMA Named ==
  ASSUME DataTypes, NEW d \in Inums, NEW n \in Names, NEW i \in Inums, i = entries[d][n]
  PROVE  <<d, n>> \in NamesOf(i) /\ NamesOf(i) # {} /\ InTree(i) /\ entries[d] # NoEntries
<1>1. <<d, n>> \in NamesOf(i)
  BY DEF NamesOf
<1>2. entries[d] # NoEntries
  BY Constants DEF NoEntries
<1> QED BY <1>1, <1>2 DEF InTree

LEMMA NamedBy ==
  ASSUME NEW i \in Inums, NEW e \in NamesOf(i)
  PROVE  \E d \in Inums, n \in Names : e = <<d, n>> /\ i = entries[d][n]
BY DEF NamesOf

\* A lookup from a directory in the tree stays in the tree.
LEMMA LookupTree ==
  ASSUME DataTypes, Tree, NEW d \in Inums, NEW n \in Element, type[d] = "dir", InTree(d),
         NEW i \in Inums, i = Lookup(d, n)
  PROVE  InTree(i) /\ type[i] # "free"
<1>1. CASE n # ".."
  BY <1>1, Named, TreeLive DEF Lookup, Element
<1>2. CASE n = ".." /\ d = ROOTINO
  BY <1>2, Constants, TreeLive DEF Lookup, Tree, InTree
<1>3. CASE n = ".." /\ d # ROOTINO
  <2>1. PICK e \in NamesOf(d) : TRUE
    BY <1>3 DEF InTree
  <2>2. PICK j \in Inums, m \in Names : d = entries[j][m]
    BY <2>1, NamedBy
  <2>3. dotdot[d] = j /\ entries[j] # NoEntries
    BY <2>2, Named DEF Tree
  <2>4. InTree(j)
    BY <2>3 DEF Tree
  <2> QED BY <1>3, <2>3, <2>4, TreeLive DEF Lookup
<1> QED BY <1>1, <1>2, <1>3

\* A directory is the child of the directory that names it.
LEMMA ChildOf ==
  ASSUME DataTypes, Tree, NEW i \in Inums, NEW j \in Children(i)
  PROVE  j \in Inums /\ j # ROOTINO /\ type[i] = "dir" /\ entries[i] # NoEntries
         /\ \E n \in Names : j = entries[i][n]
<1>1. j \in Inums /\ j # ROOTINO /\ type[j] = "dir" /\ NamesOf(j) # {} /\ dotdot[j] = i
  BY DEF Children
<1>2. PICK e \in NamesOf(j) : TRUE
  BY <1>1
<1>3. PICK k \in Inums, m \in Names : j = entries[k][m]
  BY <1>1, <1>2, NamedBy
<1>4. dotdot[j] = k /\ entries[k] # NoEntries
  BY <1>1, <1>3, Named DEF Tree
<1> QED BY <1>1, <1>3, <1>4 DEF Tree

\* An inode that is not allocated has no links, in the sense of nlink too.
LEMMA FreeHasNone ==
  ASSUME RefInv, Tree, Live, LinkCounts, NEW i \in Inums, type[i] = "free"
  PROVE  nlink[i] = 0
<1>1. i # ROOTINO /\ NamesOf(i) = {}
  BY DEF Tree
<1>2. Children(i) = {}
  BY ChildOf DEF RefInv
<1>3. Uncounted(i) = 0
  <2> DEFINE L == {p \in Procs : /\ call[p] = "link" /\ old[p] = i
                                 /\ Stage(p) \in {"walk", "parent", "release", "bad"}}
             U == {p \in Procs : old[p] = i /\ Stage(p) = "unnamed"}
  <2>1. ASSUME NEW p \in L \cup U PROVE FALSE
    <3>1. OldRef(p) = i
      BY <2>1, Constants DEF OldRef, HoldsOld
    <3> QED BY <3>1 DEF Live, HeldBy
  <2>2. L = {} /\ U = {}
    BY <2>1
  <2>3. Uncounted(i) = Cardinality({}) + Cardinality({})
    BY <2>2 DEF Uncounted
  <2> QED BY <2>3, FS_EmptySet
<1> QED BY <1>1, <1>2, <1>3, FS_EmptySet DEF LinkCounts, LinksOf, Flag

\* What ilock finds when it can go on.
LEMMA LoadedIs ==
  ASSUME Locks, CacheRight, NEW i \in Inums, CanLock(i)
  PROVE  Loaded(i) = type[i] /\ type[i] # "free" /\ holder[i] = Nobody /\ ~Loading(i)
<1>1. ~Loading(i)
  BY Constants DEF Locks, LocksOf, CanLock, Loading
<1> QED BY <1>1 DEF CacheRight, CanLock, Loaded

----------------------------------------------------------------------------
(* What a step of one process does to what the others rely on *)

DiskEffect(p) == \A x \in Inums :
  /\ holder'[x] # holder[x] => holder[x] \in {Nobody, p}
  /\ entries'[x] # entries[x] => holder[x] \in {Nobody, p}
  /\ type'[x] # type[x] => type[x] = "free" \/ (pc[p] = "trunc" /\ put[p] = x)
  /\ nlink'[x] # nlink[x] => HeldBy(p, x)
  /\ (InTree(x) /\ type[x] = "dir" /\ \E q \in Procs : WalkedBy(q, x)) => InTree(x)'

\* Where new references come from.
MayTake(p, x) == HeldBy(p, x) \/ InTree(x) \/ (pc[p] = "iget" /\ old[p] = x)
RefEffect(p) == \A x \in Inums :
  /\ HeldBy(p, x)' => MayTake(p, x) \/ HeldByFile(x)
  /\ HeldByFile(x)' => HeldByFile(x) \/ HeldBy(p, x)
  /\ (HeldBy(p, x) \/ HeldByFile(x))' => ~(pc[p] = "trunc" /\ put[p] = x)
  /\ ref'[x] # ref[x] => MayTake(p, x) \/ PutRef(p) = x
  /\ WalkedBy(p, x)' => WalkedBy(p, x) \/ InTree(x)'
  /\ (call'[p] = "link" /\ OldRef(p)' = x) => type[x] = "file"
  /\ (pc'[p] = "iget" /\ old'[p] = x) => type[x] = "free"
  /\ cwd'[p] = x => type[x] = "dir"

\* What is about to be freed nobody else refers to.
LEMMA FreedAlone ==
  ASSUME RefInv, LinkInv, NEW p \in Procs, pc[p] = "trunc"
  PROVE  /\ put[p] \in Inums /\ PutRef(p) = put[p] /\ nlink[put[p]] = 0
         /\ type[put[p]] # "free" /\ ~HeldByFile(put[p])
         /\ \A q \in Procs : /\ cwd[q] # put[p] /\ CurRef(q) # put[p] /\ OldRef(q) # put[p]
                             /\ PutRef(q) = put[p] => q = p
                             /\ q # p => ~HeldBy(q, put[p])
<1>1. RefTypes /\ Counted
  BY DEF RefInv, RefTypes
<1>2. PICK i \in Inums : i = put[p]
  BY <1>1, RefsAre DEF HoldsPut
<1>3. PutRef(p) = i
  BY <1>2 DEF PutRef, HoldsPut
<1>4. ref[i] = 1 /\ nlink[i] = 0 /\ type[i] # "free"
  BY <1>2 DEF LinkInv, Freeing, Live, HeldBy
<1>5. /\ \A q \in Procs : /\ cwd[q] # i /\ CurRef(q) # i /\ OldRef(q) # i
                          /\ PutRef(q) = i => q = p
      /\ ~HeldByFile(i)
  BY <1>1, <1>3, <1>4, Referred DEF HeldByFile
<1>6. \A q \in Procs : q # p => ~HeldBy(q, i)
  BY <1>5 DEF HeldBy, PutRef, HoldsPut
<1> QED BY <1>2, <1>3, <1>4, <1>5, <1>6

\* So what is referred to keeps its type.
LEMMA TypeKept ==
  ASSUME RefInv, LinkInv, NEW p \in Procs, DiskEffect(p), NEW x \in Inums
  PROVE  /\ \A q \in Procs : (q # p /\ HeldBy(q, x)) => type'[x] = type[x] /\ type[x] # "free"
         /\ (HeldBy(p, x) /\ ~(pc[p] = "trunc" /\ put[p] = x)) =>
              type'[x] = type[x] /\ type[x] # "free"
<1>1. \A q \in Procs : HeldBy(q, x) => type[x] # "free"
  BY DEF LinkInv, Live
<1> QED BY <1>1, FreedAlone DEF DiskEffect

LEMMA HeldOthers ==
  ASSUME NEW p \in Procs, Others(p)
  PROVE  \A q \in Procs : q # p => \A x : /\ HeldBy(q, x)' <=> HeldBy(q, x)
                                          /\ WalkedBy(q, x)' <=> WalkedBy(q, x)
BY OthersAre DEF HeldBy, WalkedBy

LEMMA LiveKept ==
  ASSUME RefInv, LinkInv, NEW p \in Procs, Others(p), DiskEffect(p), RefEffect(p),
         DataTypes', CallTypes'
  PROVE  Live'
<1>1. ASSUME NEW x \in Inums, NEW q \in Procs, HeldBy(q, x)' PROVE type'[x] # "free"
  <2>1. CASE q # p
    BY <1>1, <2>1, HeldOthers, TypeKept
  <2>2. CASE q = p
    <3>1. ~(pc[p] = "trunc" /\ put[p] = x) /\ (MayTake(p, x) \/ HeldByFile(x))
      BY <1>1, <2>2 DEF RefEffect
    <3>2. type[x] # "free"
      BY <3>1, TreeLive DEF LinkInv, Live, MayTake, Fresh, FreshOf
    <3> QED BY <3>1, <3>2 DEF DiskEffect
  <2> QED BY <2>1, <2>2
<1>2. ASSUME NEW x \in Inums, HeldByFile(x)' PROVE type'[x] # "free"
  <2>1. ~(pc[p] = "trunc" /\ put[p] = x) /\ (HeldByFile(x) \/ HeldBy(p, x))
    BY <1>2 DEF RefEffect
  <2>2. type[x] # "free"
    BY <2>1 DEF LinkInv, Live
  <2> QED BY <2>1, <2>2 DEF DiskEffect
<1>3. ASSUME NEW q \in Procs PROVE type'[cwd'[q]] = "dir"
  <2>1. PICK x \in Inums : x = cwd'[q]
    BY DEF DataTypes
  <2>2. HeldBy(q, x)'
    BY <2>1 DEF HeldBy
  <2>3. CASE q # p
    <3>1. cwd[q] = x /\ type[x] = "dir"
      BY <2>1, <2>3 DEF Others, LinkInv, Live
    <3> QED BY <2>1, <2>2, <2>3, <3>1, HeldOthers, TypeKept
  <2>4. CASE q = p
    <3>1. type[x] = "dir" /\ ~(pc[p] = "trunc" /\ put[p] = x)
      BY <2>1, <2>2, <2>4 DEF RefEffect
    <3> QED BY <2>1, <3>1 DEF DiskEffect
  <2> QED BY <2>3, <2>4
<1>4. ASSUME NEW q \in Procs, call'[q] = "link", NEW x \in Inums, OldRef(q)' = x
      PROVE  type'[x] = "file"
  <2>1. HeldBy(q, x)'
    BY <1>4 DEF HeldBy
  <2>2. CASE q # p
    <3>1. call[q] = "link" /\ OldRef(q) = x
      BY <1>4, <2>2, OthersAre
    <3>2. type[x] = "file"
      BY <3>1, Constants DEF LinkInv, Live
    <3> QED BY <2>1, <2>2, <3>2, HeldOthers, TypeKept
  <2>3. CASE q = p
    <3>1. type[x] = "file" /\ ~(pc[p] = "trunc" /\ put[p] = x)
      BY <1>4, <2>1, <2>3 DEF RefEffect
    <3> QED BY <3>1 DEF DiskEffect
  <2> QED BY <2>2, <2>3
<1>5. \A q \in Procs : OldRef(q)' # None => OldRef(q)' \in Inums
  BY DEF OldRef, CallTypes
<1>6. \A q \in Procs : (call'[q] = "link" /\ OldRef(q)' # None) => type'[OldRef(q)'] = "file"
  BY <1>4, <1>5
<1> QED BY <1>1, <1>2, <1>3, <1>6 DEF Live

LEMMA WalkersKept ==
  ASSUME RefInv, LinkInv, NEW p \in Procs, Others(p), DiskEffect(p), RefEffect(p)
  PROVE  Walkers'
<1>1. ASSUME NEW x \in Inums, type'[x] = "dir", NEW q \in Procs, WalkedBy(q, x)'
      PROVE  InTree(x)'
  <2>1. HeldBy(q, x)'
    BY <1>1 DEF HeldBy, WalkedBy
  <2>2. ASSUME WalkedBy(q, x) PROVE InTree(x)'
    <3>1. HeldBy(q, x) /\ (q = p => ~(pc[p] = "trunc" /\ put[p] = x))
      BY <2>1, <2>2 DEF HeldBy, WalkedBy, RefEffect
    <3>2. type[x] = "dir"
      BY <1>1, <3>1, TypeKept
    <3>3. InTree(x)
      BY <2>2, <3>2 DEF LinkInv, Walkers
    <3> QED BY <2>2, <3>2, <3>3 DEF DiskEffect
  <2>3. CASE q # p
    BY <1>1, <2>2, <2>3, HeldOthers
  <2>4. CASE q = p
    BY <1>1, <2>2, <2>4 DEF RefEffect
  <2> QED BY <2>3, <2>4
<1> QED BY <1>1 DEF Walkers

LEMMA FreshKept ==
  ASSUME RefInv, LinkInv, NEW p \in Procs, Others(p), DiskEffect(p), RefEffect(p), FreshOf(p)'
  PROVE  Fresh'
<1>1. ASSUME NEW q \in Procs \ {p}, pc[q] \in {"iget", "new"} PROVE FreshOf(q)'
  <2>1. PICK x \in Inums : x = old[q]
    BY <1>1, RefsAre DEF RefInv, RefTypes
  <2>2. /\ type[x] = (IF call[q] = "mkdir" THEN "dir" ELSE "file") /\ nlink[x] = 0
        /\ cwd[q] # x /\ CurRef(q) # x /\ ~HeldByFile(x)
        /\ \A r \in Procs \ {q} : ~HeldBy(r, x) /\ ~(pc[r] = "iget" /\ old[r] = x)
    BY <1>1, <2>1 DEF LinkInv, Fresh, FreshOf
  <2>3. ~InTree(x) /\ ~MayTake(p, x)
    BY <1>1, <2>2, NoLinks DEF LinkInv, MayTake
  <2>4. ~(pc[p] = "trunc" /\ put[p] = x)
    BY <1>1, <2>2 DEF HeldBy
  <2>5. type'[x] = type[x] /\ nlink'[x] = nlink[x]
    BY <2>2, <2>3, <2>4 DEF DiskEffect, MayTake
  <2>6. ~HeldBy(p, x)' /\ ~HeldByFile(x)' /\ ~(pc'[p] = "iget" /\ old'[p] = x)
    BY <2>2, <2>3 DEF RefEffect, MayTake
  <2>7. /\ pc'[q] = pc[q] /\ old'[q] = x /\ call'[q] = call[q] /\ cwd'[q] = cwd[q]
        /\ CurRef(q)' = CurRef(q)
    BY <1>1, <2>1, OthersAre
  <2>8. \A r \in Procs \ {q} : ~HeldBy(r, x)' /\ ~(pc'[r] = "iget" /\ old'[r] = x)
    BY <2>2, <2>6, OthersAre, HeldOthers
  <2>9. \A r \in Procs \ {q} : ~HeldBy(r, old[q])'
    BY <2>7, <2>8 DEF HeldBy
  <2>10. ~HeldByFile(old[q])'
    BY <2>6, <2>7 DEF HeldByFile
  <2> QED BY <2>2, <2>5, <2>7, <2>8, <2>9, <2>10 DEF FreshOf
<1>2. ASSUME NEW q \in Procs PROVE FreshOf(q)'
  <2>1. CASE q # p /\ pc[q] \notin {"iget", "new"}
    BY <2>1 DEF Others, FreshOf
  <2> QED BY <1>1, <2>1
<1> QED BY <1>2 DEF Fresh

LEMMA FreeingKept ==
  ASSUME RefInv, LinkInv, NEW p \in Procs, Others(p), DiskEffect(p), RefEffect(p),
         pc'[p] = "trunc" => nlink'[put'[p]] = 0 /\ ref'[put'[p]] = 1
  PROVE  Freeing'
<1>1. ASSUME NEW q \in Procs \ {p}, pc[q] = "trunc"
      PROVE  nlink'[put[q]] = 0 /\ ref'[put[q]] = 1
  <2>1. PICK x \in Inums : x = put[q]
    BY <1>1, FreedAlone
  <2>2. /\ nlink[x] = 0 /\ ref[x] = 1 /\ ~HeldBy(p, x) /\ PutRef(p) # x
    BY <1>1, <2>1, FreedAlone DEF LinkInv, Freeing
  <2>3. ~InTree(x)
    BY <2>2, NoLinks DEF LinkInv
  <2>4. HeldBy(q, x)
    BY <1>1, <2>1 DEF HeldBy
  <2>5. ~(pc[p] = "iget" /\ old[p] = x)
    BY <2>4 DEF LinkInv, Fresh, FreshOf
  <2> QED BY <2>1, <2>2, <2>3, <2>5 DEF DiskEffect, RefEffect, MayTake
<1>2. ASSUME NEW q \in Procs, q # p
      PROVE  pc'[q] = "trunc" => nlink'[put'[q]] = 0 /\ ref'[put'[q]] = 1
  BY <1>1, <1>2 DEF Others
<1> QED BY <1>2 DEF Freeing

\* The locks of the others, and what they have found under them.
LEMMA LocksKept ==
  ASSUME RefInv, LinkInv, NEW p \in Procs, Others(p), DiskEffect(p), LocksOf(p)', FoundBy(p)'
  PROVE  Locks' /\ Found'
<1>1. ASSUME NEW q \in Procs, q # p PROVE LocksOf(q)' /\ FoundBy(q)'
  <2>1. /\ pc'[q] = pc[q] /\ cur'[q] = cur[q] /\ old'[q] = old[q] /\ put'[q] = put[q]
        /\ Stage(q)' = Stage(q) /\ CurRef(q)' = CurRef(q) /\ OldRef(q)' = OldRef(q)
        /\ Name(q)' = Name(q)
    BY <1>1, OthersAre
  <2>2. LocksOf(q) /\ FoundBy(q)
    BY DEF LinkInv, Locks, Found
  <2>3. \A x \in Inums : holder[x] = q => holder'[x] = q /\ entries'[x] = entries[x]
    BY <1>1, Constants DEF DiskEffect
  <2>4. /\ Stage(q) \in {"iget", "new", "victim", "release"} => cur[q] \in Inums
        /\ Stage(q) \in {"made", "unnamed"} => old[q] \in Inums
        /\ pc[q] \in {"trunc", "inval"} => put[q] \in Inums
    BY DEF RefInv, Shape, ShapeOf, CallTypes, HoldsCur, HoldsPut
  <2>5. LocksOf(q)'
    BY <2>1, <2>2, <2>3, <2>4 DEF LocksOf
  <2>6. pc[q] \in {"iget", "new", "victim", "parent"} =>
          CurRef(q) = cur[q] /\ cur[q] \in Inums
    BY RefsAre DEF RefInv, RefTypes, Refs
  <2>7. pc[q] \in {"iget", "new", "victim", "parent"} => type'[cur[q]] = type[cur[q]]
    BY <1>1, <2>6, TypeKept DEF HeldBy
  <2>8. pc[q] \in {"iget", "new", "victim"} => entries'[cur[q]] = entries[cur[q]]
    BY <2>2, <2>3, <2>6 DEF LocksOf, Stage, HoldsPut
  <2>9. FoundBy(q)'
    BY <2>1, <2>2, <2>7, <2>8 DEF FoundBy
  <2> QED BY <2>5, <2>9
<1> QED BY <1>1 DEF Locks, Found

----------------------------------------------------------------------------
(* The steps that leave the disk alone *)

\* What a call has yet to enter or to uncount.
Pending(p, i) ==
  Flag(OldRef(p) = i /\ Stage(p) \in {"walk", "parent", "release", "bad", "unnamed"})

LEMMA UncountedMoves ==
  ASSUME NEW p \in Procs, Others(p), NEW i \in Inums
  PROVE  Uncounted(i)' = Uncounted(i) + Pending(p, i)' - Pending(p, i)
<1> DEFINE L == {q \in Procs : /\ call[q] = "link" /\ old[q] = i
                               /\ Stage(q) \in {"walk", "parent", "release", "bad"}}
           U == {q \in Procs : old[q] = i /\ Stage(q) = "unnamed"}
<1>1. L \in SUBSET Procs /\ U \in SUBSET Procs
  OBVIOUS
<1>2. L' \ {p} = L \ {p} /\ U' \ {p} = U \ {p}
  BY OthersAre
<1>3. /\ Cardinality(L') = Cardinality(L) + Flag(p \in L') - Flag(p \in L)
      /\ Cardinality(U') = Cardinality(U) + Flag(p \in U') - Flag(p \in U)
      /\ Cardinality(L) \in Nat /\ Cardinality(U) \in Nat
  BY <1>1, <1>2, Finite, CountsOne
<1>4. /\ Uncounted(i) = Cardinality(L) + Cardinality(U)
      /\ Uncounted(i)' = Cardinality(L') + Cardinality(U')
  BY DEF Uncounted
<1>5. /\ Pending(p, i) = Flag(p \in L) + Flag(p \in U)
      /\ Pending(p, i)' = Flag(p \in L') + Flag(p \in U')
  BY Constants DEF Pending, Flag, OldRef, HoldsOld
<1> HIDE DEF L, U
<1> QED BY <1>3, <1>4, <1>5 DEF Flag

LEMMA LinksKept ==
  ASSUME LinkCounts, NEW p \in Procs, Others(p), UNCHANGED onDisk,
         \A i \in Inums : Pending(p, i)' = Pending(p, i)
  PROVE  LinkCounts'
<1>1. ASSUME NEW i \in Inums PROVE nlink'[i] = LinksOf(i)'
  <2>1. Uncounted(i)' = Uncounted(i)
    <3>1. Pending(p, i) \in Int /\ Uncounted(i) \in Int
      BY FiniteLinks DEF Pending, Flag
    <3> QED BY <3>1, UncountedMoves
  <2>2. NamesOf(i)' = NamesOf(i) /\ Children(i)' = Children(i)
    BY DEF NamesOf, Children, onDisk
  <2>3. nlink'[i] = nlink[i] /\ Flag(i = ROOTINO)' = Flag(i = ROOTINO)
    BY DEF onDisk, ROOTINO
  <2> QED BY <2>1, <2>2, <2>3 DEF LinkCounts, LinksOf
<1> QED BY <1>1 DEF LinkCounts

\* ilock reads what is on the disk.
LEMMA CacheKept ==
  ASSUME RefInv, LinkInv, NEW p \in Procs, Others(p),
         UNCHANGED <<valid, ctype>> \/ \E i \in Inums : Load(i),
         \A x \in Inums : type'[x] # type[x] => type[x] = "free",
         pc[p] # "inval", pc'[p] # "inval"
  PROVE  CacheRight'
<1>1. ASSUME NEW x \in Inums PROVE Loading(x)' <=> Loading(x)
  BY DEF Loading, Others
<1>2. ASSUME NEW x \in Inums, valid'[x], ~Loading(x)'
      PROVE  ctype'[x] = type'[x] /\ type'[x] # "free"
  <2>1. CASE valid[x] /\ ctype'[x] = ctype[x]
    BY <1>1, <1>2, <2>1 DEF LinkInv, CacheRight
  <2>2. ASSUME NEW i \in Inums, Load(i), ~(valid[x] /\ ctype'[x] = ctype[x])
        PROVE  ctype'[x] = type'[x] /\ type'[x] # "free"
    <3>1. x = i /\ ctype'[x] = Loaded(i)
      BY <1>2, <2>2 DEF Load, RefInv, DataTypes
    <3>2. Loaded(i) = type[i] /\ type[i] # "free"
      BY <2>2, LoadedIs DEF Load, LinkInv
    <3> QED BY <3>1, <3>2
  <2> QED BY <1>2, <2>1, <2>2
<1> QED BY <1>2 DEF CacheRight

LEMMA QuietDisk ==
  ASSUME NEW p \in Procs, UNCHANGED onDisk,
         \A x \in Inums : holder'[x] # holder[x] => holder[x] \in {Nobody, p}
  PROVE  /\ DiskEffect(p)
         /\ \A x : (InTree(x)' <=> InTree(x)) /\ NamesOf(x)' = NamesOf(x)
BY DEF DiskEffect, InTree, NamesOf, onDisk, ROOTINO

LEMMA QuietLinks ==
  ASSUME RefInv, RefInv', LinkInv, NEW p \in Procs, Others(p), UNCHANGED onDisk,
         \A x \in Inums : holder'[x] # holder[x] => holder[x] \in {Nobody, p},
         RefEffect(p), \A i \in Inums : Pending(p, i)' = Pending(p, i),
         LocksOf(p)', FoundBy(p)', FreshOf(p)', CacheRight',
         pc'[p] = "trunc" => nlink'[put'[p]] = 0 /\ ref'[put'[p]] = 1
  PROVE  LinkInv'
<1>1. DiskEffect(p) /\ (\A x : NamesOf(x)' = NamesOf(x)) /\ DataTypes' /\ CallTypes'
  BY QuietDisk DEF RefInv
<1>2. Live' /\ Walkers' /\ Fresh' /\ Freeing' /\ Locks' /\ Found'
  BY <1>1, LiveKept, WalkersKept, FreshKept, FreeingKept, LocksKept
<1>3. Tree'
  <2>1. \A x : NamesOf(x)' = NamesOf(x) /\ (InTree(x)' <=> InTree(x))
    BY QuietDisk
  <2>2. Tree
    BY DEF LinkInv
  <2> QED BY <2>1, <2>2 DEF Tree, onDisk, NoEntries, ROOTINO
<1>4. LinkCounts'
  BY LinksKept DEF LinkInv
<1> QED BY <1>2, <1>3, <1>4 DEF LinkInv

\* What a process takes is in the tree, or it had it before.
LEMMA CallRefs ==
  ASSUME RefInv, LinkInv, NEW p \in Procs, UNCHANGED files, cwd' = cwd,
         NEW u, NEW k, NEW o, NEW v, NEW l, NEW r,
         Refs(p, u, k, o), Refs(p, v, l, r)',
         \A x \in Inums : x \in {v, l, r} => MayTake(p, x),
         \A x \in Inums : x = l => WalkedBy(p, x) \/ InTree(x)',
         \A x \in Inums : (x = r /\ call'[p] = "link") => type[x] = "file",
         ref' = ref \/ \E s \in Inums : Iget(s) /\ s \in {v, l, r},
         pc'[p] \in {"put", "trunc"} => put'[p] = v,
         pc[p] # "trunc", pc'[p] # "iget"
  PROVE  RefEffect(p)
<1>1. \A x : HeldByFile(x)' <=> HeldByFile(x)
  BY DEF HeldByFile, files
<1>2. ASSUME NEW x \in Inums PROVE ref'[x] # ref[x] => MayTake(p, x)
  BY DEF Iget, RefInv, DataTypes
<1>3. ASSUME NEW x \in Inums
      PROVE  /\ HeldBy(p, x)' => cwd[p] = x \/ x \in {v, l, r}
             /\ WalkedBy(p, x)' => cwd[p] = x \/ x = l
  BY DEF HeldBy, WalkedBy, Refs
<1>4. \A x \in Inums : cwd[p] = x => MayTake(p, x) /\ WalkedBy(p, x) /\ type[x] = "dir"
  BY DEF MayTake, HeldBy, WalkedBy, LinkInv, Live
<1>5. \A x \in Inums : (call'[p] = "link" /\ OldRef(p)' = x) => type[x] = "file"
  BY DEF Refs
<1> QED BY <1>1, <1>2, <1>3, <1>4, <1>5 DEF RefEffect

LEMMA QuietCall ==
  ASSUME RefInv, RefInv', LinkInv, NEW p \in Procs, Turn(p), UNCHANGED <<onDisk, files, cwd>>,
         NEW u, NEW k, NEW o, NEW v, NEW l, NEW r,
         Refs(p, u, k, o), Refs(p, v, l, r)',
         \A x \in Inums : x \in {v, l, r} => MayTake(p, x),
         \A x \in Inums : x = l => WalkedBy(p, x) \/ InTree(x),
         \A x \in Inums : (x = r /\ call'[p] = "link") => type[x] = "file",
         ref' = ref \/ \E s \in Inums : Iget(s) /\ s \in {v, l, r},
         pc'[p] = "put" => put'[p] = v,
         pc[p] \notin {"trunc", "inval"}, pc'[p] \notin {"trunc", "inval", "iget"},
         UNCHANGED <<valid, ctype>> \/ \E i \in Inums : Load(i),
         \A x \in Inums : holder'[x] # holder[x] => holder[x] \in {Nobody, p},
         \A i \in Inums : Pending(p, i)' = Pending(p, i),
         LocksOf(p)', FoundBy(p)', FreshOf(p)'
  PROVE  LinkInv'
<1>0. \A x : InTree(x) => InTree(x)'
  BY DEF InTree, NamesOf, onDisk, ROOTINO
<1>1. RefEffect(p)
  BY <1>0, CallRefs
<1>2. CacheRight'
  BY CacheKept DEF Turn, onDisk
<1> QED BY <1>1, <1>2, QuietLinks DEF Turn

\* Between its locks a call relies on nothing of this.
LEMMA Unlocked ==
  ASSUME NEW p \in Procs
  PROVE  /\ (/\ Stage(p)' \notin {"iget", "new", "victim", "release", "made", "unnamed"}
             /\ pc'[p] \notin {"trunc", "inval"}) => LocksOf(p)'
         /\ pc'[p] \notin {"iget", "new", "victim", "parent"} => FoundBy(p)'
         /\ pc'[p] \notin {"iget", "new"} => FreshOf(p)'
BY DEF LocksOf, FoundBy, FreshOf

LEMMA BeginLinks ==
  ASSUME RefInv, RefInv', LinkInv, NEW p \in Procs, NEW c \in Calls \ {"none"}, Begin(p, c)
  PROVE  LinkInv'
<1>1. RefTypes
  BY DEF RefInv, RefTypes
<1>2. PICK s \in Inums :
        /\ s \in {ROOTINO, cwd[p]} /\ Iget(s) /\ Turn(p) /\ cwd' = cwd
        /\ pc[p] = "idle" /\ pc'[p] = "walk" /\ Refs(p, None, s, None)'
        /\ Stage(p)' = "walk" /\ old'[p] = None
  BY <1>1, BeginMoves
<1>3. Refs(p, None, None, None)
  BY <1>1, <1>2, RefsAre
<1>4. UNCHANGED <<onDisk, valid, ctype, holder, files>>
  BY DEF Begin
<1>5. MayTake(p, s) /\ (WalkedBy(p, s) \/ InTree(s))
  BY <1>2 DEF MayTake, HeldBy, WalkedBy, InTree
<1>6. \A i \in Inums : Pending(p, i)' = Pending(p, i)
  BY <1>2, <1>3, Constants DEF Pending, Refs
<1>7. LocksOf(p)' /\ FoundBy(p)' /\ FreshOf(p)'
  BY <1>2, Unlocked
<1>8. \A x \in Inums : x \in {None, s} => x = s
  BY Constants
<1> QED BY <1>2, <1>3, <1>4, <1>5, <1>6, <1>7, <1>8, Constants, QuietCall

LEMMA StepLinks ==
  ASSUME RefInv, RefInv', LinkInv, NEW p \in Procs, Step(p)
  PROVE  LinkInv'
<1>1. RefTypes
  BY DEF RefInv, RefTypes
<1>2. PICK d \in Inums, o \in Inums \cup {None} :
        /\ d = cur[p] /\ pc[p] = "walk" /\ Refs(p, None, d, o) /\ Load(d)
        /\ o # None => old[p] = o /\ call[p] = "link"
        /\ Turn(p) /\ cwd' = cwd
        /\ \/ /\ Loaded(d) = "dir" /\ ref' = ref /\ Refs(p, None, d, o)'
              /\ pc'[p] = "parent" /\ Stage(p)' = "parent"
           \/ \E n \in Element, i \in Inums :
                /\ Loaded(d) = "dir" /\ i = Lookup(d, n) /\ Iget(i)
                /\ Refs(p, d, i, o)' /\ pc'[p] = "put" /\ put'[p] = d
                /\ Stage(p)' \in {"walk", "found"} /\ old'[p] = old[p]
                /\ Stage(p)' = "found" => o = None
           \/ /\ ref' = ref /\ Refs(p, d, None, o)' /\ pc'[p] = "put"
              /\ put'[p] = d
              /\ \/ Stage(p)' = "idle" /\ o = None
                 \/ Stage(p)' = "bad" /\ o # None /\ old'[p] = o
  BY <1>1, StepMoves
<1>3. UNCHANGED <<onDisk, holder, files>> /\ Stage(p) = "walk"
  BY <1>1, <1>2, RefsAre DEF Step
<1>4. Loaded(d) = type[d]
  BY <1>2, LoadedIs DEF LinkInv, Load
<1>5. /\ MayTake(p, d) /\ WalkedBy(p, d)
      /\ \A x \in Inums : x = o => MayTake(p, x) /\ type[x] = "file"
  BY <1>2, Constants DEF MayTake, HeldBy, WalkedBy, Refs, LinkInv, Live
<1>6. CASE /\ Loaded(d) = "dir" /\ ref' = ref /\ Refs(p, None, d, o)'
           /\ pc'[p] = "parent" /\ Stage(p)' = "parent"
  <2>1. LocksOf(p)' /\ FreshOf(p)'
    BY <1>6, Unlocked
  <2>2. CurRef(p)' = cur'[p] /\ type'[d] = "dir"
    BY <1>3, <1>4, <1>6 DEF CurRef, HoldsCur, onDisk
  <2>3. FoundBy(p)'
    BY <1>6, <2>2 DEF FoundBy, Refs
  <2>4. \A i \in Inums : Pending(p, i)' = Pending(p, i)
    BY <1>2, <1>3, <1>6 DEF Pending, Refs
  <2>5. \A x \in Inums : x \in {None, d, o} => x = d \/ x = o
    BY Constants
  <2> QED BY <1>2, <1>3, <1>5, <1>6, <2>1, <2>3, <2>4, <2>5, QuietCall
<1>7. ASSUME NEW n \in Element, NEW i \in Inums,
             Loaded(d) = "dir" /\ i = Lookup(d, n) /\ Iget(i),
             Refs(p, d, i, o)' /\ pc'[p] = "put" /\ put'[p] = d,
             Stage(p)' \in {"walk", "found"}, Stage(p)' = "found" => o = None
      PROVE  LinkInv'
  <2>1. LocksOf(p)' /\ FoundBy(p)' /\ FreshOf(p)'
    BY <1>7, Unlocked
  <2>2. InTree(i)
    <3>1. InTree(d)
      BY <1>4, <1>5, <1>7 DEF LinkInv, Walkers
    <3> QED BY <1>1, <1>4, <1>7, <3>1, LookupTree DEF LinkInv, RefTypes
  <2>3. \A j \in Inums : Pending(p, j)' = Pending(p, j)
    BY <1>2, <1>3, <1>7, Constants DEF Pending, Refs
  <2>4. MayTake(p, i)
    BY <2>2 DEF MayTake
  <2> QED BY <1>2, <1>3, <1>5, <1>7, <2>1, <2>2, <2>3, <2>4, QuietCall
<1>8. CASE /\ ref' = ref /\ Refs(p, d, None, o)' /\ pc'[p] = "put"
           /\ put'[p] = d
           /\ \/ Stage(p)' = "idle" /\ o = None
              \/ Stage(p)' = "bad" /\ o # None
  <2>1. LocksOf(p)' /\ FoundBy(p)' /\ FreshOf(p)'
    BY <1>8, Unlocked
  <2>2. \A j \in Inums : Pending(p, j)' = Pending(p, j)
    BY <1>2, <1>3, <1>8, Constants DEF Pending, Refs
  <2>3. \A x \in Inums : x \in {d, None, o} => x = d \/ x = o
    BY Constants
  <2> QED BY <1>2, <1>3, <1>5, <1>8, <2>1, <2>2, <2>3, Constants, QuietCall
<1> QED BY <1>2, <1>6, <1>7, <1>8

LEMMA CreateExistsLinks ==
  ASSUME RefInv, RefInv', LinkInv, NEW p \in Procs, CreateExists(p)
  PROVE  LinkInv'
<1>1. RefTypes
  BY DEF RefInv, RefTypes
<1>2. PICK d \in Inums, n \in Element, i \in Inums :
        /\ d = cur[p] /\ pc[p] = "parent" /\ Refs(p, None, d, None) /\ Load(d)
        /\ n = Name(p) /\ i = Lookup(d, n) /\ Iget(i) /\ Turn(p) /\ cwd' = cwd
        /\ Refs(p, d, i, None)' /\ Stage(p)' = "found" /\ pc'[p] = "put"
        /\ put'[p] = d
  BY <1>1, CreateExistsMoves
<1>3. UNCHANGED <<onDisk, holder, files>>
  BY DEF CreateExists
<1>4. InTree(i)
  <2>1. type[d] = "dir" /\ WalkedBy(p, d)
    BY <1>2 DEF LinkInv, Found, FoundBy, WalkedBy, Refs
  <2>2. InTree(d)
    BY <2>1 DEF LinkInv, Walkers
  <2> QED BY <1>1, <1>2, <2>1, <2>2, LookupTree DEF LinkInv, RefTypes
<1>5. MayTake(p, d) /\ MayTake(p, i)
  BY <1>2, <1>4 DEF MayTake, HeldBy, Refs
<1>6. LocksOf(p)' /\ FoundBy(p)' /\ FreshOf(p)'
  BY <1>2, Unlocked
<1>7. \A j \in Inums : Pending(p, j)' = Pending(p, j)
  BY <1>2, Constants DEF Pending, Refs
<1>8. \A x \in Inums : x \in {d, i, None} => x = d \/ x = i
  BY Constants
<1> QED BY <1>2, <1>3, <1>4, <1>5, <1>6, <1>7, <1>8, Constants, QuietCall

LEMMA CreateGetLinks ==
  ASSUME RefInv, RefInv', LinkInv, NEW p \in Procs, CreateGet(p)
  PROVE  LinkInv'
<1>1. RefTypes
  BY DEF RefInv, RefTypes
<1>2. PICK d \in Inums, i \in Inums :
        /\ d = cur[p] /\ i = old[p] /\ pc[p] = "iget" /\ Refs(p, None, d, None)
        /\ Iget(i) /\ Turn(p) /\ cwd' = cwd /\ Refs(p, None, d, i)'
        /\ Stage(p)' = "new" /\ pc'[p] = "new" /\ locals' = locals
  BY <1>1, CreateGetMoves
<1>3. /\ UNCHANGED <<onDisk, valid, ctype, holder, files>>
      /\ UNCHANGED <<call, path, to, cur, old>> /\ Stage(p) = "iget"
  BY <1>1, <1>2, RefsAre DEF CreateGet, locals, args
<1>4. LocksOf(p) /\ FoundBy(p) /\ FreshOf(p)
  BY DEF LinkInv, Locks, Found, Fresh
<1>5. LocksOf(p)' /\ FoundBy(p)'
  <2>1. Name(p)' = Name(p)
    BY <1>3 DEF Name
  <2>2. LocksOf(p)'
    BY <1>2, <1>3, <1>4 DEF LocksOf
  <2>3. FoundBy(p)'
    BY <1>2, <1>3, <1>4, <2>1 DEF FoundBy, onDisk
  <2> QED BY <2>2, <2>3
<1>6. FreshOf(p)'
  <2>1. \A q \in Procs \ {p} : \A x : (HeldBy(q, x)' <=> HeldBy(q, x)) /\ pc'[q] = pc[q]
    BY <1>2, HeldOthers DEF Turn, Others
  <2>2. \A x : HeldByFile(x)' <=> HeldByFile(x)
    BY <1>3 DEF HeldByFile, files
  <2>3. /\ type[i] = (IF call[p] = "mkdir" THEN "dir" ELSE "file") /\ nlink[i] = 0
        /\ cwd[p] # i /\ CurRef(p) # i /\ ~HeldByFile(i)
        /\ \A q \in Procs \ {p} : ~HeldBy(q, i) /\ ~(pc[q] = "iget" /\ old[q] = i)
    BY <1>2, <1>4 DEF FreshOf
  <2>4. CurRef(p)' = CurRef(p) /\ old'[p] = i
    BY <1>2, <1>3 DEF Refs
  <2>5. \A q \in Procs \ {p} : ~HeldBy(q, old[p])' /\ ~(pc'[q] = "iget" /\ old'[q] = i)
    BY <1>2, <1>3, <2>1, <2>3
  <2>6. ~HeldByFile(old[p])'
    BY <2>2, <2>3, <2>4 DEF HeldByFile
  <2> QED BY <1>2, <1>3, <2>3, <2>4, <2>5, <2>6 DEF FreshOf, onDisk
<1>7. MayTake(p, d) /\ MayTake(p, i) /\ WalkedBy(p, d)
  BY <1>2 DEF MayTake, HeldBy, WalkedBy, Refs
<1>8. \A j \in Inums : Pending(p, j)' = Pending(p, j)
  BY <1>2, <1>3, Constants DEF Pending, Refs
<1>9. call'[p] # "link"
  BY <1>1, <1>2, <1>3 DEF RefTypes, Shape, ShapeOf
<1>10. \A x \in Inums : x \in {None, d, i} => x = d \/ x = i
  BY Constants
<1> QED BY <1>2, <1>3, <1>5, <1>6, <1>7, <1>8, <1>9, <1>10, Constants, QuietCall

LEMMA UnlinkFailsLinks ==
  ASSUME RefInv, RefInv', LinkInv, NEW p \in Procs, UnlinkFails(p)
  PROVE  LinkInv'
<1>1. RefTypes
  BY DEF RefInv, RefTypes
<1>2. PICK d \in Inums :
        /\ d = cur[p] /\ pc[p] = "parent" /\ Refs(p, None, d, None) /\ Load(d)
        /\ Turn(p) /\ cwd' = cwd /\ UNCHANGED <<onDisk, ref, holder, files>>
        /\ Refs(p, d, None, None)' /\ Stage(p)' = "idle" /\ pc'[p] = "put"
        /\ put'[p] = d
  BY <1>1, UnlinkFailsMoves
<1>3. MayTake(p, d)
  BY <1>2 DEF MayTake, HeldBy, Refs
<1>4. LocksOf(p)' /\ FoundBy(p)' /\ FreshOf(p)'
  BY <1>2, Unlocked
<1>5. \A j \in Inums : Pending(p, j)' = Pending(p, j)
  BY <1>2, Constants DEF Pending, Refs
<1>6. \A x \in Inums : x \in {d, None} => x = d
  BY Constants
<1> QED BY <1>2, <1>3, <1>4, <1>5, <1>6, Constants, QuietCall

LEMMA UnlinkFindLinks ==
  ASSUME RefInv, RefInv', LinkInv, NEW p \in Procs, UnlinkFind(p)
  PROVE  LinkInv'
<1>1. RefTypes
  BY DEF RefInv, RefTypes
<1>2. PICK d \in Inums, n \in Names, i \in Inums :
        /\ d = cur[p] /\ pc[p] = "parent" /\ Refs(p, None, d, None) /\ Load(d)
        /\ n = Name(p) /\ i = entries[d][n] /\ Iget(i)
        /\ holder' = [holder EXCEPT ![d] = p]
        /\ Turn(p) /\ cwd' = cwd /\ UNCHANGED <<onDisk, files>>
        /\ Refs(p, None, d, i)' /\ Stage(p)' = "victim" /\ pc'[p] = "victim"
        /\ cur'[p] = d /\ old'[p] = i /\ Name(p)' = n
  BY <1>1, UnlinkFindMoves
<1>3. InTree(i) /\ WalkedBy(p, d) /\ MayTake(p, d) /\ MayTake(p, i)
  <2>1. InTree(i)
    BY <1>1, <1>2, Named DEF RefTypes
  <2> QED BY <1>2, <2>1 DEF MayTake, HeldBy, WalkedBy, Refs
<1>4. holder[d] = Nobody /\ holder'[d] = p
  BY <1>1, <1>2 DEF Load, CanLock, RefTypes, DataTypes
<1>5. \A x \in Inums : holder'[x] # holder[x] => holder[x] \in {Nobody, p}
  BY <1>1, <1>2, <1>4 DEF RefTypes, DataTypes
<1>6. LocksOf(p)'
  BY <1>2, <1>4 DEF LocksOf
<1>7. FoundBy(p)' /\ FreshOf(p)'
  BY <1>2, Constants DEF FoundBy, FreshOf, onDisk
<1>8. \A j \in Inums : Pending(p, j)' = Pending(p, j)
  BY <1>2, Constants DEF Pending, Refs
<1>9. call'[p] # "link"
  BY <1>2 DEF Turn, ShapeOf
<1>10. \A x \in Inums : x \in {None, d, i} => x = d \/ x = i
  BY Constants
<1> QED BY <1>2, <1>3, <1>5, <1>6, <1>7, <1>8, <1>9, <1>10, Constants, QuietCall

LEMMA UnlinkKeepLinks ==
  ASSUME RefInv, RefInv', LinkInv, NEW p \in Procs, UnlinkKeep(p)
  PROVE  LinkInv'
<1>1. RefTypes
  BY DEF RefInv, RefTypes
<1>2. PICK d \in Inums, i \in Inums :
        /\ d = cur[p] /\ i = old[p] /\ pc[p] = "victim" /\ Refs(p, None, d, i) /\ Load(i)
        /\ Turn(p) /\ cwd' = cwd /\ UNCHANGED <<onDisk, ref, holder, files, cur>>
        /\ Refs(p, i, d, None)' /\ Stage(p)' = "release" /\ pc'[p] = "put"
        /\ put'[p] = i
  BY <1>1, UnlinkKeepMoves
<1>3. MayTake(p, d) /\ MayTake(p, i) /\ WalkedBy(p, d)
  BY <1>2 DEF MayTake, HeldBy, WalkedBy, Refs
<1>4. Stage(p) = "victim" /\ LocksOf(p)
  BY <1>1, <1>2, RefsAre DEF LinkInv, Locks
<1>5. LocksOf(p)'
  BY <1>2, <1>4 DEF LocksOf
<1>6. FoundBy(p)' /\ FreshOf(p)'
  BY <1>2, Unlocked
<1>7. \A j \in Inums : Pending(p, j)' = Pending(p, j)
  BY <1>2, <1>4, Constants DEF Pending, Refs
<1>8. \A x \in Inums : x \in {i, d, None} => x = d \/ x = i
  BY Constants
<1> QED BY <1>2, <1>3, <1>5, <1>6, <1>7, <1>8, Constants, QuietCall

LEMMA ReleaseLinks ==
  ASSUME RefInv, RefInv', LinkInv, NEW p \in Procs, Release(p)
  PROVE  LinkInv'
<1>1. RefTypes
  BY DEF RefInv, RefTypes
<1>2. PICK d \in Inums, o \in Inums \cup {None} :
        /\ d = cur[p] /\ pc[p] = "release" /\ Refs(p, None, d, o)
        /\ o = IF SecondPath(p) THEN old[p] ELSE None
        /\ Turn(p) /\ cwd' = cwd /\ UNCHANGED <<onDisk, ref, valid, ctype, files>>
        /\ holder' = [holder EXCEPT ![d] = Nobody]
        /\ Refs(p, d, None, o)' /\ pc'[p] = "put" /\ put'[p] = d
        /\ \/ Stage(p)' = "idle" /\ o = None
           \/ Stage(p)' = "bad" /\ o # None /\ old'[p] = o
  BY <1>1, ReleaseMoves
<1>3. Stage(p) = "release" /\ holder[d] = p
  BY <1>1, <1>2, RefsAre DEF LinkInv, Locks, LocksOf
<1>4. \A x \in Inums : holder'[x] # holder[x] => holder[x] \in {Nobody, p}
  BY <1>1, <1>2, <1>3 DEF RefTypes, DataTypes
<1>5. MayTake(p, d) /\ \A x \in Inums : x = o => MayTake(p, x) /\ type[x] = "file"
  BY <1>2, Constants DEF MayTake, HeldBy, Refs, LinkInv, Live, SecondPath
<1>6. LocksOf(p)' /\ FoundBy(p)' /\ FreshOf(p)'
  BY <1>2, Unlocked
<1>7. \A j \in Inums : Pending(p, j)' = Pending(p, j)
  BY <1>2, <1>3, Constants DEF Pending, Refs
<1>8. \A x \in Inums : x \in {d, None, o} => x = d \/ x = o
  BY Constants
<1> QED BY <1>2, <1>4, <1>5, <1>6, <1>7, <1>8, Constants, QuietCall

LEMMA LinkDoneLinks ==
  ASSUME RefInv, RefInv', LinkInv, NEW p \in Procs, LinkDone(p)
  PROVE  LinkInv'
<1>1. RefTypes
  BY DEF RefInv, RefTypes
<1>2. pc[p] = "linked" /\ UNCHANGED <<onDisk, cache, files, cwd>> /\ LastPut(p, old[p])
  BY DEF LinkDone, At
<1>3. PICK i \in Inums :
        /\ i = old[p] /\ Refs(p, None, None, i) /\ Stage(p) = pc[p]
        /\ Turn(p) /\ Refs(p, i, None, None)' /\ Stage(p)' = "idle"
        /\ pc'[p] = "put" /\ put'[p] = i
  BY <1>1, <1>2, DoneMoves
<1>4. MayTake(p, i)
  BY <1>3 DEF MayTake, HeldBy, Refs
<1>5. LocksOf(p)' /\ FoundBy(p)' /\ FreshOf(p)'
  BY <1>3, Unlocked
<1>6. \A j \in Inums : Pending(p, j)' = Pending(p, j)
  BY <1>2, <1>3, Constants DEF Pending, Refs
<1>7. \A x \in Inums : x \in {i, None} => x = i
  BY Constants
<1>8. UNCHANGED <<ref, valid, ctype, holder>>
  BY <1>2 DEF cache
<1> QED BY <1>2, <1>3, <1>4, <1>5, <1>6, <1>7, <1>8, Constants, QuietCall

\* The file takes the reference of the call.
LEMMA OpenedRefs ==
  ASSUME RefInv, LinkInv, NEW p \in Procs, NEW i \in Inums, Opened(p, i), HeldBy(p, i),
         UNCHANGED <<onDisk, ref, cwd>>, Refs(p, None, None, None)', pc'[p] = "idle",
         pc[p] # "trunc"
  PROVE  RefEffect(p)
<1>1. PICK f \in Files : /\ fref[f] = 0 /\ fref' = [fref EXCEPT ![f] = 1]
                         /\ fip' = [fip EXCEPT ![f] = i]
  BY DEF Opened
<1>2. ASSUME NEW x \in Inums, HeldByFile(x)' PROVE HeldByFile(x) \/ HeldBy(p, x)
  <2>1. PICK g \in Files : fref'[g] > 0 /\ fip'[g] = x
    BY <1>2 DEF HeldByFile
  <2>2. CASE g = f
    BY <1>1, <2>1, <2>2 DEF RefInv, DataTypes
  <2>3. CASE g # f
    BY <1>1, <2>1, <2>3 DEF RefInv, DataTypes, HeldByFile
  <2> QED BY <2>2, <2>3
<1>3. \A x \in Inums : /\ HeldBy(p, x)' => cwd[p] = x
                       /\ WalkedBy(p, x)' => cwd[p] = x
                       /\ OldRef(p)' # x
  BY Constants DEF HeldBy, WalkedBy, Refs
<1>4. \A x \in Inums : cwd[p] = x => MayTake(p, x) /\ WalkedBy(p, x) /\ type[x] = "dir"
  BY DEF MayTake, HeldBy, WalkedBy, LinkInv, Live
<1> QED BY <1>2, <1>3, <1>4 DEF RefEffect

LEMMA OpenLinks ==
  ASSUME RefInv, RefInv', LinkInv, NEW p \in Procs, Open(p)
  PROVE  LinkInv'
<1>1. RefTypes
  BY DEF RefInv, RefTypes
<1>2. PICK i \in Inums :
        /\ i = cur[p] /\ pc[p] = "found" /\ Refs(p, None, i, None) /\ Load(i)
        /\ Turn(p) /\ cwd' = cwd /\ ref' = ref /\ Stage(p)' = "idle"
        /\ \/ Opened(p, i) /\ Refs(p, None, None, None)' /\ pc'[p] = "idle"
           \/ /\ UNCHANGED files /\ Refs(p, i, None, None)'
              /\ pc'[p] = "put" /\ put'[p] = i
  BY <1>1, OpenMoves
<1>3. UNCHANGED <<onDisk, holder>>
  BY DEF Open
<1>4. MayTake(p, i) /\ HeldBy(p, i)
  BY <1>2 DEF MayTake, HeldBy, Refs
<1>5. LocksOf(p)' /\ FoundBy(p)' /\ FreshOf(p)'
  BY <1>2, Unlocked
<1>6. \A j \in Inums : Pending(p, j)' = Pending(p, j)
  BY <1>2, Constants DEF Pending, Refs
<1>7. CASE Opened(p, i) /\ Refs(p, None, None, None)' /\ pc'[p] = "idle"
  <2>1. RefEffect(p)
    BY <1>2, <1>3, <1>4, <1>7, OpenedRefs
  <2>2. CacheRight'
    BY <1>2, <1>3, <1>7, CacheKept DEF Turn, onDisk
  <2> QED BY <1>2, <1>3, <1>5, <1>6, <1>7, <2>1, <2>2, QuietLinks DEF Turn
<1>8. CASE UNCHANGED files /\ Refs(p, i, None, None)' /\ pc'[p] = "put" /\ put'[p] = i
  <2>1. \A x \in Inums : x \in {i, None} => x = i
    BY Constants
  <2> QED BY <1>2, <1>3, <1>4, <1>5, <1>6, <1>8, <2>1, Constants, QuietCall
<1> QED BY <1>2, <1>7, <1>8

LEMMA CreateDoneLinks ==
  ASSUME RefInv, RefInv', LinkInv, NEW p \in Procs, CreateDone(p)
  PROVE  LinkInv'
<1>1. RefTypes
  BY DEF RefInv, RefTypes
<1>2. PICK i \in Inums :
        /\ i = old[p] /\ pc[p] = "made" /\ Refs(p, None, None, i)
        /\ Turn(p) /\ cwd' = cwd /\ ref' = ref /\ UNCHANGED <<onDisk, valid, ctype>>
        /\ holder' = [holder EXCEPT ![i] = Nobody] /\ Stage(p)' = "idle"
        /\ \/ Opened(p, i) /\ Refs(p, None, None, None)' /\ pc'[p] = "idle"
           \/ /\ UNCHANGED files /\ Refs(p, i, None, None)'
              /\ pc'[p] = "put" /\ put'[p] = i
  BY <1>1, CreateDoneMoves
<1>3. Stage(p) = "made" /\ holder[i] = p
  BY <1>1, <1>2, RefsAre DEF LinkInv, Locks, LocksOf
<1>4. \A x \in Inums : holder'[x] # holder[x] => holder[x] \in {Nobody, p}
  BY <1>1, <1>2, <1>3 DEF RefTypes, DataTypes
<1>5. MayTake(p, i) /\ HeldBy(p, i)
  BY <1>2 DEF MayTake, HeldBy, Refs
<1>6. LocksOf(p)' /\ FoundBy(p)' /\ FreshOf(p)'
  BY <1>2, Unlocked
<1>7. \A j \in Inums : Pending(p, j)' = Pending(p, j)
  BY <1>2, <1>3, Constants DEF Pending, Refs
<1>8. CASE Opened(p, i) /\ Refs(p, None, None, None)' /\ pc'[p] = "idle"
  <2>1. RefEffect(p)
    BY <1>2, <1>5, <1>8, OpenedRefs
  <2>2. CacheRight'
    BY <1>2, <1>8, CacheKept DEF Turn, onDisk
  <2> QED BY <1>2, <1>4, <1>6, <1>7, <1>8, <2>1, <2>2, QuietLinks DEF Turn
<1>9. CASE UNCHANGED files /\ Refs(p, i, None, None)' /\ pc'[p] = "put" /\ put'[p] = i
  <2>1. \A x \in Inums : x \in {i, None} => x = i
    BY Constants
  <2> QED BY <1>2, <1>4, <1>5, <1>6, <1>7, <1>9, <2>1, Constants, QuietCall
<1> QED BY <1>2, <1>8, <1>9

LEMMA ChdirLinks ==
  ASSUME RefInv, RefInv', LinkInv, NEW p \in Procs, Chdir(p)
  PROVE  LinkInv'
<1>1. RefTypes
  BY DEF RefInv, RefTypes
<1>2. PICK i \in Inums, u \in Inums :
        /\ i = cur[p] /\ pc[p] = "found" /\ Refs(p, None, i, None) /\ Load(i)
        /\ Turn(p) /\ ref' = ref /\ UNCHANGED files
        /\ Refs(p, u, None, None)' /\ Stage(p)' = "idle" /\ pc'[p] = "put"
        /\ put'[p] = u
        /\ \/ u = cwd[p] /\ cwd'[p] = i /\ cwd' \in [Procs -> Inums] /\ Loaded(i) = "dir"
           \/ u = i /\ cwd' = cwd
  BY <1>1, ChdirMoves
<1>3. UNCHANGED <<onDisk, holder>>
  BY DEF Chdir
<1>4. LocksOf(p)' /\ FoundBy(p)' /\ FreshOf(p)'
  BY <1>2, Unlocked
<1>5. \A j \in Inums : Pending(p, j)' = Pending(p, j)
  BY <1>2, Constants DEF Pending, Refs
<1>6. CacheRight'
  BY <1>2, <1>3, CacheKept DEF Turn, onDisk
<1>7. RefEffect(p)
  <2>1. \A x \in Inums : /\ HeldBy(p, x)' => x \in {i, cwd[p]}
                         /\ WalkedBy(p, x)' => x \in {i, cwd[p]}
                         /\ OldRef(p)' # x
    BY <1>2, Constants DEF HeldBy, WalkedBy, Refs
  <2>2. \A x \in Inums : x \in {i, cwd[p]} => MayTake(p, x) /\ WalkedBy(p, x)
    BY <1>2 DEF MayTake, HeldBy, WalkedBy, Refs
  <2>3. \A x \in Inums : cwd'[p] = x => type[x] = "dir"
    <3>1. Loaded(i) = type[i]
      BY <1>2, LoadedIs DEF LinkInv, Load
    <3> QED BY <1>2, <3>1 DEF LinkInv, Live
  <2>4. \A x : HeldByFile(x)' <=> HeldByFile(x)
    BY <1>2 DEF HeldByFile, files
  <2> QED BY <1>2, <2>1, <2>2, <2>3, <2>4 DEF RefEffect
<1> QED BY <1>2, <1>3, <1>4, <1>5, <1>6, <1>7, QuietLinks DEF Turn

LEMMA CloseLinks ==
  ASSUME RefInv, RefInv', LinkInv, NEW p \in Procs, Close(p)
  PROVE  LinkInv'
<1>1. RefTypes /\ FilesRight
  BY DEF RefInv, RefTypes
<1>2. PICK f \in Files :
        /\ f = fd[p] /\ pc[p] = "idle" /\ Refs(p, None, None, None)
        /\ Turn(p) /\ cwd' = cwd /\ UNCHANGED <<onDisk, cache>>
        /\ fd' = [fd EXCEPT ![p] = NoFile]
        /\ fref' = [fref EXCEPT ![f] = @ - 1] /\ fref[f] \in Nat \ {0}
        /\ Stage(p)' = "idle"
        /\ \/ \E u \in Inums :
                /\ fref[f] = 1 /\ fip[f] = u /\ Refs(p, u, None, None)'
                /\ fip' = [fip EXCEPT ![f] = None] /\ pc'[p] = "put" /\ put'[p] = u
           \/ /\ fref[f] # 1 /\ Refs(p, None, None, None)' /\ fip' = fip
              /\ pc'[p] = "idle"
  BY <1>1, CloseMoves
<1>3. UNCHANGED <<ref, valid, ctype, holder>> /\ pc'[p] \in {"put", "idle"}
  BY <1>2 DEF cache
<1>4. LocksOf(p)' /\ FoundBy(p)' /\ FreshOf(p)'
  BY <1>2, <1>3, Unlocked
<1>5. \A j \in Inums : Pending(p, j)' = Pending(p, j)
  BY <1>2, Constants DEF Pending, Refs
<1>6. CacheRight'
  BY <1>2, <1>3, CacheKept DEF Turn, onDisk
<1>7. RefEffect(p)
  <2>1. \A x \in Inums : HeldByFile(x)' => HeldByFile(x)
    <3>1. ASSUME NEW x \in Inums, NEW g \in Files, fref'[g] > 0, fip'[g] = x
          PROVE  fref[g] > 0 /\ fip[g] = x
      <4>1. fref[g] \in Nat /\ fip'[g] \in {None, fip[g]}
        BY <1>1, <1>2 DEF RefTypes, DataTypes
      <4>2. fref'[g] \in {fref[g], fref[g] - 1}
        BY <1>1, <1>2 DEF RefTypes, DataTypes
      <4> QED BY <3>1, <4>1, <4>2, Constants
    <3> QED BY <3>1 DEF HeldByFile
  <2>2. \A x \in Inums : /\ HeldBy(p, x)' => cwd[p] = x \/ HeldByFile(x)
                         /\ WalkedBy(p, x)' => cwd[p] = x
                         /\ OldRef(p)' # x
    <3>1. ASSUME NEW x \in Inums, pc'[p] = "put", put'[p] = x PROVE HeldByFile(x)
      <4>1. fref[f] = 1 /\ fip[f] = x
        BY <1>2, <3>1
      <4> QED BY <4>1 DEF HeldByFile
    <3>2. CurRef(p)' = None /\ OldRef(p)' = None
      BY <1>2 DEF Refs
    <3> QED BY <1>2, <1>3, <3>1, <3>2, Constants DEF HeldBy, WalkedBy
  <2>3. \A x \in Inums : cwd[p] = x => MayTake(p, x) /\ WalkedBy(p, x) /\ type[x] = "dir"
    BY DEF MayTake, HeldBy, WalkedBy, LinkInv, Live
  <2> QED BY <1>2, <1>3, <2>1, <2>2, <2>3 DEF RefEffect
<1> QED BY <1>2, <1>3, <1>4, <1>5, <1>6, <1>7, QuietLinks DEF Turn

LEMMA FiledupLinks ==
  ASSUME RefInv, RefInv', LinkInv, NEW p \in Procs, NEW q \in Procs, Filedup(p, q)
  PROVE  LinkInv'
<1>1. /\ UNCHANGED <<onDisk, cache, fip, cwd, pc, locals>> /\ pc[p] = "idle"
      /\ fref' = [fref EXCEPT ![fd[p]] = @ + 1] /\ fd[p] \in Files
  BY DEF Filedup, At, RefInv, DataTypes
<1>2. UNCHANGED <<ref, valid, ctype, holder, call, path, to, cur, old, put, after>>
  BY <1>1 DEF cache, locals, args
<1>3. fref[fd[p]] > 0
  <2>1. p \in Users(fd[p]) /\ Users(fd[p]) \in SUBSET Procs
    BY DEF Users
  <2>2. Cardinality(Users(fd[p])) \in Nat \ {0}
    BY <2>1, Finite, AtMostOne
  <2> QED BY <1>1, <2>2 DEF RefInv, FilesRight
<1>4. \A x : HeldByFile(x)' <=> HeldByFile(x)
  <2>1. \A g \in Files : fip'[g] = fip[g] /\ (fref'[g] > 0 <=> fref[g] > 0)
    BY <1>1, <1>3 DEF RefInv, DataTypes
  <2> QED BY <2>1 DEF HeldByFile
<1>5. Others(p) /\ Stage(p)' = Stage(p) /\ CurRef(p)' = CurRef(p) /\ OldRef(p)' = OldRef(p)
  BY <1>1, <1>2 DEF Others, Stage, CurRef, OldRef, HoldsPut, HoldsCur, HoldsOld
<1>6. Stage(p) = "idle"
  BY <1>1, RefsAre DEF RefInv, RefTypes
<1>7. LocksOf(p)' /\ FoundBy(p)' /\ FreshOf(p)'
  BY <1>1, <1>5, <1>6, Unlocked
<1>8. \A j \in Inums : Pending(p, j)' = Pending(p, j)
  BY <1>5 DEF Pending
<1>9. CacheRight'
  BY <1>1, <1>2, <1>5, CacheKept DEF onDisk
<1>10. RefEffect(p)
  <2>1. \A x : (HeldBy(p, x)' <=> HeldBy(p, x)) /\ (WalkedBy(p, x)' <=> WalkedBy(p, x))
    BY <1>1, <1>2, <1>5 DEF HeldBy, WalkedBy
  <2>2. \A x \in Inums : (call'[p] = "link" /\ OldRef(p)' = x) => type[x] = "file"
    BY <1>2, <1>5, Constants DEF LinkInv, Live
  <2>3. \A x \in Inums : cwd'[p] = x => type[x] = "dir"
    BY <1>1 DEF LinkInv, Live
  <2> QED BY <1>1, <1>2, <1>4, <2>1, <2>2, <2>3 DEF RefEffect, MayTake
<1> QED BY <1>1, <1>2, <1>5, <1>7, <1>8, <1>9, <1>10, QuietLinks

\* The steps of iput: what the call keeps stays.
LEMMA PutRefs ==
  ASSUME RefInv, LinkInv, NEW p \in Procs, UNCHANGED <<onDisk, files, cwd>>,
         \A x \in Inums : ref'[x] # ref[x] => PutRef(p) = x,
         CurRef(p)' = CurRef(p), OldRef(p)' = OldRef(p), call'[p] = call[p],
         pc'[p] \in {"put", "trunc"} => pc[p] \in {"put", "trunc"} /\ put'[p] = put[p],
         pc[p] # "trunc", pc'[p] # "iget"
  PROVE  RefEffect(p)
<1>1. \A x : /\ HeldBy(p, x)' => HeldBy(p, x)
             /\ WalkedBy(p, x)' => WalkedBy(p, x)
             /\ HeldByFile(x)' <=> HeldByFile(x)
  BY DEF HeldBy, WalkedBy, HeldByFile, files
<1>2. \A x \in Inums : (call'[p] = "link" /\ OldRef(p)' = x) => type[x] = "file"
  BY Constants DEF LinkInv, Live
<1>3. \A x \in Inums : cwd'[p] = x => type[x] = "dir"
  BY DEF LinkInv, Live
<1> QED BY <1>1, <1>2, <1>3 DEF RefEffect, MayTake

LEMMA PutCheckLinks ==
  ASSUME RefInv, RefInv', LinkInv, NEW p \in Procs, PutCheck(p)
  PROVE  LinkInv'
<1>1. RefTypes
  BY DEF RefInv, RefTypes
<1>2. PICK i \in Inums : i = put[p]
  BY <1>1, RefsAre DEF PutCheck, At, HoldsPut
<1>3. /\ pc[p] = "put" /\ holder[i] = Nobody
      /\ UNCHANGED <<onDisk, ref, valid, ctype, files, cwd, locals>>
      /\ \/ nlink[i] = 0 /\ ref[i] = 1 /\ Goto(p, "trunc") /\ holder' = [holder EXCEPT ![i] = p]
         \/ Goto(p, "drop") /\ holder' = holder
  BY <1>2 DEF PutCheck, At, Unlinked
<1>4. HoldsPut(p) /\ UNCHANGED <<call, path, to, cur, old, put, after>>
  BY <1>3 DEF HoldsPut, locals, args
<1>5. PICK point \in {"trunc", "drop"} : Goto(p, point)
  BY <1>3
<1>6. /\ Turn(p) /\ CurRef(p)' = CurRef(p) /\ OldRef(p)' = OldRef(p)
      /\ Stage(p)' = Stage(p) /\ pc'[p] = point /\ put'[p] = i
  BY <1>1, <1>2, <1>3, <1>4, <1>5, PutGoesOn
<1>7. pc'[p] = "trunc" => /\ nlink'[put'[p]] = 0 /\ ref'[put'[p]] = 1 /\ holder'[i] = p
  BY <1>1, <1>3, <1>6 DEF onDisk, RefTypes, DataTypes, CallTypes, Goto
<1>8. \A x \in Inums : /\ holder'[x] # holder[x] => holder[x] \in {Nobody, p}
                       /\ holder[x] = p => holder'[x] = p
  BY <1>1, <1>3, Constants DEF RefTypes, DataTypes
<1>9. LocksOf(p)'
  <2>1. LocksOf(p)
    BY DEF LinkInv, Locks
  <2>2. /\ Stage(p) \in {"iget", "new", "victim", "release"} => cur[p] \in Inums
        /\ Stage(p) \in {"made", "unnamed"} => old[p] \in Inums
    BY <1>1 DEF RefTypes, Shape, ShapeOf, CallTypes, HoldsCur
  <2> QED BY <1>4, <1>6, <1>7, <1>8, <2>1, <2>2 DEF LocksOf
<1>10. FoundBy(p)' /\ FreshOf(p)'
  BY <1>6, Unlocked
<1>11. RefEffect(p)
  BY <1>3, <1>4, <1>6, PutRefs
<1>12. CacheRight'
  BY <1>3, <1>6, CacheKept DEF Turn, onDisk
<1>13. \A j \in Inums : Pending(p, j)' = Pending(p, j)
  BY <1>6 DEF Pending
<1> QED BY <1>3, <1>6, <1>7, <1>8, <1>9, <1>10, <1>11, <1>12, <1>13, QuietLinks DEF Turn

LEMMA PutInvalidLinks ==
  ASSUME RefInv, RefInv', LinkInv, NEW p \in Procs, PutInvalid(p)
  PROVE  LinkInv'
<1>1. RefTypes
  BY DEF RefInv, RefTypes
<1>2. PICK i \in Inums : i = put[p]
  BY <1>1, RefsAre DEF PutInvalid, At, HoldsPut
<1>3. /\ pc[p] = "inval" /\ UNCHANGED <<onDisk, ref, ctype, files, cwd, locals>>
      /\ Goto(p, "drop") /\ holder' = [holder EXCEPT ![i] = Nobody]
      /\ valid' = [valid EXCEPT ![i] = FALSE]
  BY <1>2 DEF PutInvalid, At
<1>4. HoldsPut(p) /\ UNCHANGED <<call, path, to, cur, old, put, after>>
  BY <1>3 DEF HoldsPut, locals, args
<1>5. /\ Turn(p) /\ CurRef(p)' = CurRef(p) /\ OldRef(p)' = OldRef(p)
      /\ Stage(p)' = Stage(p) /\ pc'[p] = "drop" /\ put'[p] = i
  BY <1>1, <1>2, <1>3, <1>4, PutGoesOn
<1>6. LocksOf(p) /\ holder[i] = p /\ CurRef(p) # i /\ OldRef(p) # i
  BY <1>2, <1>3 DEF LinkInv, Locks, LocksOf
<1>7. \A x \in Inums : /\ holder'[x] # holder[x] => holder[x] \in {Nobody, p}
                       /\ x # i => holder'[x] = holder[x]
  BY <1>1, <1>3, <1>6 DEF RefTypes, DataTypes
<1>8. LocksOf(p)'
  <2>1. /\ Stage(p) \in {"iget", "new", "victim", "release"} =>
             cur[p] \in Inums /\ CurRef(p) = cur[p]
        /\ Stage(p) \in {"made", "unnamed"} => old[p] \in Inums /\ OldRef(p) = old[p]
    BY <1>1 DEF RefTypes, Shape, ShapeOf, CallTypes, HoldsCur, HoldsOld, CurRef, OldRef
  <2> QED BY <1>4, <1>5, <1>6, <1>7, <2>1 DEF LocksOf
<1>9. FoundBy(p)' /\ FreshOf(p)'
  BY <1>5, Unlocked
<1>10. RefEffect(p)
  BY <1>3, <1>4, <1>5, PutRefs
<1>11. CacheRight'
  <2>1. ASSUME NEW x \in Inums, valid'[x], ~Loading(x)'
        PROVE  ctype'[x] = type'[x] /\ type'[x] # "free"
    <3>1. x # i /\ valid[x]
      BY <1>1, <1>3, <2>1 DEF RefTypes, DataTypes
    <3>2. ~Loading(x)
      BY <1>2, <1>5, <2>1, <3>1 DEF Loading, Turn, Others
    <3> QED BY <1>3, <3>1, <3>2 DEF LinkInv, CacheRight, onDisk
  <2> QED BY <2>1 DEF CacheRight
<1>12. \A j \in Inums : Pending(p, j)' = Pending(p, j)
  BY <1>5 DEF Pending
<1> QED BY <1>3, <1>5, <1>7, <1>8, <1>9, <1>10, <1>11, <1>12, QuietLinks DEF Turn

LEMMA PutDropLinks ==
  ASSUME RefInv, RefInv', LinkInv, NEW p \in Procs, PutDrop(p)
  PROVE  LinkInv'
<1>1. RefTypes
  BY DEF RefInv, RefTypes
<1>2. /\ Turn(p) /\ cwd' = cwd /\ put[p] \in Inums /\ PutRef(p) = put[p]
      /\ PutRef(p)' = None /\ CurRef(p)' = CurRef(p) /\ OldRef(p)' = OldRef(p)
      /\ Stage(p)' = Stage(p) /\ pc'[p] = Stage(p) /\ old' = old
      /\ pc[p] = "drop" /\ call' = call
  BY <1>1, PutDropMoves
<1>3. PICK i \in Inums : i = put[p]
  BY <1>2
<1>4. /\ UNCHANGED <<onDisk, ctype, holder, files, cur>>
      /\ ref' = [ref EXCEPT ![i] = @ - 1]
      /\ valid' = [valid EXCEPT ![i] = @ /\ ref[i] > 1]
  BY <1>3 DEF PutDrop, args
<1>5. Stage(p) \in AfterPut
  BY <1>1, <1>2, RefsAre DEF HoldsPut
<1>6. LocksOf(p)' /\ FoundBy(p)' /\ FreshOf(p)'
  <2>1. LocksOf(p) /\ pc'[p] \notin {"trunc", "inval", "iget", "new", "victim", "parent"}
    BY <1>2, <1>5 DEF LinkInv, Locks, AfterPut
  <2>2. LocksOf(p)'
    BY <1>2, <1>4, <2>1 DEF LocksOf
  <2> QED BY <2>1, <2>2, Unlocked
<1>7. \A x \in Inums : ref'[x] # ref[x] => PutRef(p) = x
  BY <1>1, <1>2, <1>3, <1>4 DEF RefTypes, DataTypes
<1>8. pc'[p] \notin {"put", "trunc", "iget", "inval"}
  BY <1>2, <1>5 DEF AfterPut
<1>9. RefEffect(p)
  BY <1>2, <1>4, <1>7, <1>8, PutRefs
<1>10. CacheRight'
  <2>1. ASSUME NEW x \in Inums, valid'[x], ~Loading(x)'
        PROVE  ctype'[x] = type'[x] /\ type'[x] # "free"
    <3>1. valid[x]
      BY <1>1, <1>4, <2>1 DEF RefTypes, DataTypes
    <3>2. ~Loading(x)
      BY <1>2, <2>1 DEF Loading, Turn, Others
    <3> QED BY <1>4, <3>1, <3>2 DEF LinkInv, CacheRight, onDisk
  <2> QED BY <2>1 DEF CacheRight
<1>11. \A j \in Inums : Pending(p, j)' = Pending(p, j)
  BY <1>2 DEF Pending
<1> QED BY <1>2, <1>4, <1>6, <1>8, <1>9, <1>10, <1>11, QuietLinks DEF Turn


----------------------------------------------------------------------------
(* The steps that change what is on the disk *)

LEMMA DiskLinks ==
  ASSUME RefInv, RefInv', LinkInv, NEW p \in Procs, Others(p), DiskEffect(p), RefEffect(p),
         LocksOf(p)', FoundBy(p)', FreshOf(p)', Tree', LinkCounts', CacheRight',
         pc'[p] # "trunc"
  PROVE  LinkInv'
<1>1. DataTypes' /\ CallTypes'
  BY DEF RefInv
<1>2. Live' /\ Walkers' /\ Fresh' /\ Freeing' /\ Locks' /\ Found'
  BY <1>1, LiveKept, WalkersKept, FreshKept, FreeingKept, LocksKept
<1> QED BY <1>2 DEF LinkInv

\* A count changes with what the call has yet to enter or to uncount.
LEMMA CountMoves ==
  ASSUME RefInv, LinkInv, NEW p \in Procs, Others(p), UNCHANGED <<type, entries, dotdot>>,
         NEW i \in Inums, HeldBy(p, i), NEW k \in Int,
         nlink' = [nlink EXCEPT ![i] = @ + k],
         Pending(p, i)' = Pending(p, i) + k,
         \A x \in Inums : x # i => Pending(p, x)' = Pending(p, x),
         \A x \in Inums : holder'[x] # holder[x] => holder[x] \in {Nobody, p}
  PROVE  DiskEffect(p) /\ Tree' /\ LinkCounts'
<1>1. \A x : NamesOf(x)' = NamesOf(x) /\ (InTree(x)' <=> InTree(x))
             /\ Children(x)' = Children(x)
  BY DEF NamesOf, InTree, Children, ROOTINO
<1>2. \A x \in Inums : nlink'[x] = IF x = i THEN nlink[i] + k ELSE nlink[x]
  BY DEF RefInv, DataTypes
<1>3. DiskEffect(p)
  BY <1>1, <1>2 DEF DiskEffect
<1>4. Tree'
  <2>1. Tree
    BY DEF LinkInv
  <2> QED BY <1>1, <2>1 DEF Tree, NoEntries, ROOTINO
<1>5. ASSUME NEW x \in Inums PROVE nlink'[x] = LinksOf(x)'
  <2>1. Uncounted(x)' = Uncounted(x) + (IF x = i THEN k ELSE 0)
    <3>1. Pending(p, x) \in Int /\ Uncounted(x) \in Int
      BY FiniteLinks DEF Pending, Flag
    <3>2. Uncounted(x)' = Uncounted(x) + Pending(p, x)' - Pending(p, x)
      BY UncountedMoves
    <3> QED BY <3>1, <3>2
  <2>2. nlink[x] = Flag(x = ROOTINO) + Cardinality(NamesOf(x)) + Uncounted(x)
                   + Cardinality(Children(x))
    BY DEF LinkInv, LinkCounts, LinksOf
  <2>3. LinksOf(x)' = Flag(x = ROOTINO) + Cardinality(NamesOf(x)) + Uncounted(x)'
                      + Cardinality(Children(x))
    BY <1>1 DEF LinksOf, ROOTINO
  <2>4. Flag(x = ROOTINO) \in Int
    BY DEF Flag
  <2> QED BY <1>2, <2>1, <2>2, <2>3, <2>4, FiniteLinks
<1>6. LinkCounts'
  BY <1>5 DEF LinkCounts
<1> QED BY <1>3, <1>4, <1>6

LEMMA LinkCountLinks ==
  ASSUME RefInv, RefInv', LinkInv, NEW p \in Procs, LinkCount(p)
  PROVE  LinkInv'
<1>1. RefTypes
  BY DEF RefInv, RefTypes
<1>2. PICK i \in Inums :
        /\ i = cur[p] /\ pc[p] = "found" /\ Refs(p, None, i, None) /\ Load(i)
        /\ call[p] = "link" /\ old[p] = None
        /\ Turn(p) /\ cwd' = cwd /\ UNCHANGED <<type, entries, dotdot, holder, files>>
        /\ \/ /\ Loaded(i) = "dir" /\ UNCHANGED <<nlink, ref>> /\ Refs(p, i, None, None)'
              /\ Stage(p)' = "idle" /\ pc'[p] = "put" /\ put'[p] = i
           \/ /\ Loaded(i) # "dir" /\ nlink' = [nlink EXCEPT ![i] = @ + 1]
              /\ \E s \in Inums : s \in {ROOTINO, cwd[p]} /\ Iget(s) /\ Refs(p, None, s, i)'
              /\ Stage(p)' = "walk" /\ pc'[p] = "walk" /\ old'[p] = i
              /\ call'[p] = "link"
  BY <1>1, LinkCountMoves
<1>3. MayTake(p, i) /\ HeldBy(p, i) /\ Others(p)
  BY <1>2 DEF MayTake, HeldBy, Refs, Turn
<1>4. CASE /\ Loaded(i) = "dir" /\ UNCHANGED <<nlink, ref>> /\ Refs(p, i, None, None)'
           /\ Stage(p)' = "idle" /\ pc'[p] = "put" /\ put'[p] = i
  <2>1. LocksOf(p)' /\ FoundBy(p)' /\ FreshOf(p)'
    BY <1>4, Unlocked
  <2>2. \A j \in Inums : Pending(p, j)' = Pending(p, j)
    BY <1>2, <1>4, Constants DEF Pending, Refs
  <2>3. \A x \in Inums : x \in {i, None} => x = i
    BY Constants
  <2>4. UNCHANGED onDisk
    BY <1>2, <1>4 DEF onDisk
  <2> QED BY <1>2, <1>3, <1>4, <2>1, <2>2, <2>3, <2>4, Constants, QuietCall
<1>5. ASSUME NEW s \in Inums, s \in {ROOTINO, cwd[p]}, Iget(s), Refs(p, None, s, i)',
             Loaded(i) # "dir", nlink' = [nlink EXCEPT ![i] = @ + 1],
             Stage(p)' = "walk", pc'[p] = "walk", old'[p] = i
      PROVE  LinkInv'
  <2>1. type[i] = "file"
    <3>1. type[i] # "dir" /\ type[i] # "free"
      BY <1>2, <1>5, LoadedIs DEF LinkInv, Load
    <3> QED BY <1>1, <3>1 DEF RefTypes, DataTypes, Types
  <2>2. LocksOf(p)' /\ FoundBy(p)' /\ FreshOf(p)'
    BY <1>5, Unlocked
  <2>3. /\ Pending(p, i)' = Pending(p, i) + 1
        /\ \A x \in Inums : x # i => Pending(p, x)' = Pending(p, x)
    <3>1. \A x \in Inums : Pending(p, x) = 0
      BY <1>2, Constants DEF Pending, Refs, Flag
    <3>2. \A x \in Inums : Pending(p, x)' = Flag(x = i)
      BY <1>5 DEF Pending, Refs, Flag
    <3> QED BY <3>1, <3>2 DEF Flag
  <2>4. DiskEffect(p) /\ Tree' /\ LinkCounts'
    <3>1. 1 \in Int
      OBVIOUS
    <3> QED BY <1>2, <1>3, <1>5, <2>3, <3>1, CountMoves
  <2>5. RefEffect(p)
    <3>1. MayTake(p, s) /\ (WalkedBy(p, s) \/ InTree(s)')
      BY <1>5 DEF MayTake, HeldBy, WalkedBy, InTree, ROOTINO
    <3>2. \A x \in Inums : x \in {None, s, i} => x = s \/ x = i
      BY Constants
    <3> QED BY <1>2, <1>3, <1>5, <2>1, <3>1, <3>2, CallRefs
  <2>6. CacheRight'
    BY <1>2, <1>3, <1>5, CacheKept
  <2> QED BY <1>3, <1>5, <2>2, <2>4, <2>5, <2>6, DiskLinks
<1> QED BY <1>2, <1>4, <1>5

\* unlink takes the count of the name it has removed, and link of the one it has
\* not made.
LEMMA UncountLinks ==
  ASSUME RefInv, RefInv', LinkInv, NEW p \in Procs, pc[p] \in {"unnamed", "bad"},
         LastPut(p, old[p]), nlink' = [nlink EXCEPT ![old[p]] = @ - 1],
         UNCHANGED <<type, entries, dotdot, ref, files, cwd>>,
         UNCHANGED <<valid, ctype>> \/ \E x \in Inums : Load(x),
         \A x \in Inums : holder'[x] # holder[x] => holder[x] \in {Nobody, p}
  PROVE  LinkInv'
<1>1. RefTypes
  BY DEF RefInv, RefTypes
<1>2. PICK i \in Inums :
        /\ i = old[p] /\ Refs(p, None, None, i) /\ Stage(p) = pc[p]
        /\ Turn(p) /\ Refs(p, i, None, None)' /\ Stage(p)' = "idle"
        /\ pc'[p] = "put" /\ put'[p] = i
  BY <1>1, DoneMoves
<1>3. MayTake(p, i) /\ HeldBy(p, i) /\ Others(p)
  BY <1>2 DEF MayTake, HeldBy, Refs, Turn
<1>4. LocksOf(p)' /\ FoundBy(p)' /\ FreshOf(p)'
  BY <1>2, Unlocked
<1>5. /\ Pending(p, i)' = Pending(p, i) + (-1)
      /\ \A x \in Inums : x # i => Pending(p, x)' = Pending(p, x)
  <2>1. \A x \in Inums : Pending(p, x) = Flag(x = i)
    BY <1>2 DEF Pending, Refs, Flag
  <2>2. \A x \in Inums : Pending(p, x)' = 0
    BY <1>2, Constants DEF Pending, Refs, Flag
  <2> QED BY <2>1, <2>2 DEF Flag
<1>6. DiskEffect(p) /\ Tree' /\ LinkCounts'
  <2>1. -1 \in Int /\ nlink[i] \in Int
    BY <1>1 DEF RefTypes, DataTypes
  <2>2. nlink' = [nlink EXCEPT ![i] = @ + (-1)]
    BY <1>2, <2>1
  <2> QED BY <1>3, <1>5, <2>1, <2>2, CountMoves
<1>7. RefEffect(p)
  <2>1. \A x \in Inums : x \in {i, None} => x = i
    BY Constants
  <2> QED BY <1>2, <1>3, <2>1, Constants, CallRefs
<1>8. CacheRight'
  BY <1>2, <1>3, CacheKept
<1> QED BY <1>2, <1>3, <1>4, <1>6, <1>7, <1>8, DiskLinks

LEMMA UnlinkDoneLinks ==
  ASSUME RefInv, RefInv', LinkInv, NEW p \in Procs, UnlinkDone(p)
  PROVE  LinkInv'
<1>1. /\ pc[p] = "unnamed" /\ LastPut(p, old[p]) /\ nlink' = [nlink EXCEPT ![old[p]] = @ - 1]
      /\ UNCHANGED <<type, entries, dotdot, ref, valid, ctype, files, cwd>>
      /\ holder' = [holder EXCEPT ![old[p]] = Nobody]
  BY DEF UnlinkDone, At
<1>2. holder[old[p]] = p
  <2>1. Stage(p) = "unnamed"
    BY <1>1, RefsAre DEF RefInv, RefTypes
  <2> QED BY <2>1 DEF LinkInv, Locks, LocksOf
<1>3. \A x \in Inums : holder'[x] # holder[x] => holder[x] \in {Nobody, p}
  BY <1>1, <1>2 DEF RefInv, DataTypes
<1> QED BY <1>1, <1>3, UncountLinks

LEMMA LinkBadLinks ==
  ASSUME RefInv, RefInv', LinkInv, NEW p \in Procs, LinkBad(p)
  PROVE  LinkInv'
<1>1. /\ pc[p] = "bad" /\ LastPut(p, old[p]) /\ nlink' = [nlink EXCEPT ![old[p]] = @ - 1]
      /\ UNCHANGED <<type, entries, dotdot, ref, holder, files, cwd>> /\ Load(old[p])
  BY DEF LinkBad, At, TakenBack
<1>2. old[p] \in Inums
  BY <1>1, RefsAre DEF RefInv, RefTypes
<1> QED BY <1>1, <1>2, UncountLinks

\* An inode that nothing names, and that names nothing, is freed or allocated.
LEMMA RetypeLinks ==
  ASSUME RefInv, LinkInv, NEW p \in Procs, Others(p), NEW i \in Inums, nlink[i] = 0,
         UNCHANGED <<nlink, entries>>,
         \A x \in Inums : x # i => type'[x] = type[x] /\ dotdot'[x] = dotdot[x],
         \A x \in Inums : Pending(p, x)' = Pending(p, x)
  PROVE  /\ Tree' /\ LinkCounts'
         /\ \A x : NamesOf(x)' = NamesOf(x) /\ (InTree(x)' <=> InTree(x))
<1>1. i # ROOTINO /\ NamesOf(i) = {} /\ entries[i] = NoEntries
  BY NoLinks DEF LinkInv
<1>2. \A x : NamesOf(x)' = NamesOf(x) /\ (InTree(x)' <=> InTree(x))
  BY DEF NamesOf, InTree, ROOTINO
<1>3. Tree /\ \A x \in Inums, n \in Names, j \in Inums : j = entries[x][n] => j # i
  <2>1. \A x \in Inums, n \in Names, j \in Inums : j = entries[x][n] => NamesOf(j) # {}
    BY Named DEF RefInv
  <2> QED BY <1>1, <2>1 DEF LinkInv
<1>4. Tree'
  <2>1. type'[ROOTINO] = "dir" /\ NamesOf(ROOTINO) = {} /\ dotdot'[ROOTINO] = ROOTINO
    BY <1>1, <1>3, Constants DEF Tree
  <2>2. \A x \in Inums : entries'[x] # NoEntries => type'[x] = "dir" /\ InTree(x)
    BY <1>1, <1>3 DEF Tree
  <2>3. \A x \in Inums : NamesOf(x) # {} => type'[x] # "free"
    BY <1>1, <1>3 DEF Tree
  <2>4. \A x \in Inums, n \in Names, j \in Inums :
          (j = entries'[x][n] /\ type'[j] = "dir") => dotdot'[j] = x /\ NamesOf(j) = {<<x, n>>}
    <3>1. SUFFICES ASSUME NEW x \in Inums, NEW n \in Names, NEW j \in Inums,
                          j = entries'[x][n], type'[j] = "dir"
                   PROVE  dotdot'[j] = x /\ NamesOf(j) = {<<x, n>>}
      OBVIOUS
    <3>2. j = entries[x][n] /\ j # i /\ type[j] = "dir" /\ dotdot'[j] = dotdot[j]
      BY <1>3, <3>1
    <3> QED BY <1>3, <3>2 DEF Tree
  <2> QED BY <1>2, <2>1, <2>2, <2>3, <2>4 DEF Tree, NoEntries, ROOTINO
<1>5. ASSUME NEW x \in Inums PROVE nlink'[x] = LinksOf(x)'
  <2>1. Children(x)' = Children(x)
    BY <1>1, <1>2 DEF Children, ROOTINO
  <2>2. Uncounted(x)' = Uncounted(x)
    <3>1. Pending(p, x) \in Int /\ Uncounted(x) \in Int
      BY FiniteLinks DEF Pending, Flag
    <3> QED BY <3>1, UncountedMoves
  <2> QED BY <1>2, <2>1, <2>2 DEF LinkInv, LinkCounts, LinksOf, Flag, ROOTINO
<1> QED BY <1>2, <1>4, <1>5 DEF LinkCounts

LEMMA PutTruncLinks ==
  ASSUME RefInv, RefInv', LinkInv, NEW p \in Procs, PutTrunc(p)
  PROVE  LinkInv'
<1>1. RefTypes
  BY DEF RefInv, RefTypes
<1>2. PICK i \in Inums : i = put[p]
  BY <1>1, RefsAre DEF PutTrunc, At, HoldsPut
<1>3. /\ pc[p] = "trunc" /\ Goto(p, "inval")
      /\ UNCHANGED <<nlink, ref, valid, holder, files, cwd, locals>>
      /\ type' = [type EXCEPT ![i] = "free"] /\ ctype' = [ctype EXCEPT ![i] = "free"]
      /\ entries' = [entries EXCEPT ![i] = NoEntries]
      /\ dotdot' = [dotdot EXCEPT ![i] = ROOTINO]
  BY <1>2 DEF PutTrunc, At
<1>4. HoldsPut(p) /\ UNCHANGED <<call, path, to, cur, old, put, after>>
  BY <1>3 DEF HoldsPut, locals, args
<1>5. /\ Turn(p) /\ CurRef(p)' = CurRef(p) /\ OldRef(p)' = OldRef(p)
      /\ Stage(p)' = Stage(p) /\ pc'[p] = "inval" /\ put'[p] = i
  BY <1>1, <1>2, <1>3, <1>4, PutGoesOn
<1>6. /\ nlink[i] = 0 /\ ~HeldByFile(i)
      /\ cwd[p] # i /\ CurRef(p) # i /\ OldRef(p) # i
  BY <1>2, <1>3, FreedAlone
<1>7. /\ \A x \in Inums : x # i => /\ type'[x] = type[x] /\ dotdot'[x] = dotdot[x]
                                   /\ ctype'[x] = ctype[x]
      /\ entries' = entries
  <2>1. entries[i] = NoEntries
    BY <1>6, NoLinks DEF LinkInv
  <2>2. entries' = entries
    BY <1>1, <1>3, <2>1 DEF RefTypes, DataTypes
  <2> QED BY <1>1, <1>3, <2>2 DEF RefTypes, DataTypes
<1>8. \A x \in Inums : Pending(p, x)' = Pending(p, x)
  BY <1>5 DEF Pending
<1>9. /\ Tree' /\ LinkCounts'
      /\ \A x : NamesOf(x)' = NamesOf(x) /\ (InTree(x)' <=> InTree(x))
  BY <1>3, <1>5, <1>6, <1>7, <1>8, RetypeLinks DEF Turn
<1>10. DiskEffect(p)
  BY <1>2, <1>3, <1>7, <1>9 DEF DiskEffect
<1>11. RefEffect(p)
  <2>1. \A x : HeldByFile(x)' <=> HeldByFile(x)
    BY <1>3 DEF HeldByFile, files
  <2>2. \A x \in Inums : HeldBy(p, x)' => HeldBy(p, x) /\ x # i
    BY <1>3, <1>5, <1>6 DEF HeldBy
  <2>3. \A x \in Inums : WalkedBy(p, x)' => WalkedBy(p, x)
    BY <1>3, <1>5 DEF WalkedBy
  <2>4. \A x \in Inums : /\ (call'[p] = "link" /\ OldRef(p)' = x) => type[x] = "file"
                         /\ cwd'[p] = x => type[x] = "dir"
    BY <1>3, <1>4, <1>5, Constants DEF LinkInv, Live
  <2> QED BY <1>2, <1>3, <1>5, <1>6, <2>1, <2>2, <2>3, <2>4 DEF RefEffect, MayTake
<1>12. LocksOf(p)'
  <2>1. LocksOf(p)
    BY DEF LinkInv, Locks
  <2> QED BY <1>2, <1>3, <1>4, <1>5, <1>6, <2>1 DEF LocksOf
<1>13. FoundBy(p)' /\ FreshOf(p)'
  BY <1>5, Unlocked
<1>14. CacheRight'
  <2>1. ASSUME NEW x \in Inums, valid'[x], ~Loading(x)'
        PROVE  ctype'[x] = type'[x] /\ type'[x] # "free"
    <3>1. x # i
      BY <1>5, <2>1 DEF Loading
    <3>2. ~Loading(x)
      BY <1>3, <1>5, <2>1 DEF Loading, Turn, Others
    <3> QED BY <1>3, <1>7, <2>1, <3>1, <3>2 DEF LinkInv, CacheRight
  <2> QED BY <2>1 DEF CacheRight
<1> QED BY <1>5, <1>9, <1>10, <1>11, <1>12, <1>13, <1>14, DiskLinks DEF Turn

LEMMA CreateAllocLinks ==
  ASSUME RefInv, RefInv', LinkInv, NEW p \in Procs, CreateAlloc(p)
  PROVE  LinkInv'
<1>1. RefTypes
  BY DEF RefInv, RefTypes
<1>2. PICK d \in Inums :
        /\ d = cur[p] /\ pc[p] = "parent" /\ Refs(p, None, d, None) /\ Load(d)
        /\ path[p] # <<>>
        /\ Name(p) \in Element /\ Lookup(d, Name(p)) = None
        /\ Turn(p) /\ cwd' = cwd /\ ref' = ref
        /\ UNCHANGED <<entries, dotdot, files>> /\ call[p] \in {"create", "mkdir"}
        /\ Refs(p, None, d, None)'
        /\ \/ \E i \in Inums :
                /\ type[i] = "free" /\ old'[p] = i /\ pc'[p] = "iget"
                /\ type' = [type EXCEPT ![i] = IF call[p] = "mkdir" THEN "dir" ELSE "file"]
                /\ nlink' = [nlink EXCEPT ![i] = 0]
                /\ holder' = [holder EXCEPT ![d] = p] /\ panicked' = panicked
                /\ Stage(p)' = "iget" /\ Name(p)' = Name(p) /\ call'[p] = call[p]
                /\ cur'[p] = d
           \/ /\ panicked' = TRUE
              /\ UNCHANGED <<type, nlink, holder, pc, locals>> /\ Stage(p)' = "parent"
  BY <1>1, CreateAllocMoves
<1>3. /\ HeldBy(p, d) /\ MayTake(p, d) /\ WalkedBy(p, d) /\ Others(p)
      /\ type[d] = "dir" /\ holder[d] = Nobody
  BY <1>2 DEF MayTake, HeldBy, WalkedBy, Refs, Turn, LinkInv, Found, FoundBy, Load, CanLock
<1>4. \A x \in Inums : Pending(p, x)' = Pending(p, x)
  BY <1>2, Constants DEF Pending, Refs
<1>5. CASE UNCHANGED <<type, nlink, holder, pc, locals>> /\ Stage(p)' = "parent"
  <2>1. UNCHANGED onDisk /\ pc'[p] = "parent" /\ cur'[p] = d /\ call'[p] = call[p]
    BY <1>2, <1>5 DEF onDisk, locals, args
  <2>2. LocksOf(p)' /\ FreshOf(p)'
    BY <1>5, <2>1, Unlocked
  <2>3. FoundBy(p)'
    BY <1>3, <1>5, <2>1 DEF FoundBy
  <2>4. \A x \in Inums : x \in {None, d} => x = d
    BY Constants
  <2> QED BY <1>2, <1>3, <1>4, <1>5, <2>1, <2>2, <2>3, <2>4, Constants, QuietCall
<1>6. ASSUME NEW i \in Inums, type[i] = "free", old'[p] = i, pc'[p] = "iget",
             type' = [type EXCEPT ![i] = IF call[p] = "mkdir" THEN "dir" ELSE "file"],
             nlink' = [nlink EXCEPT ![i] = 0], holder' = [holder EXCEPT ![d] = p],
             Stage(p)' = "iget", Name(p)' = Name(p), call'[p] = call[p], cur'[p] = d
      PROVE  LinkInv'
  <2>1. nlink[i] = 0
    BY <1>6, FreeHasNone DEF LinkInv
  <2>2. /\ nlink' = nlink
        /\ \A x \in Inums : type'[x] = IF x = i THEN IF call[p] = "mkdir" THEN "dir" ELSE "file"
                                       ELSE type[x]
        /\ \A x \in Inums : holder'[x] = IF x = d THEN p ELSE holder[x]
    BY <1>1, <1>6, <2>1 DEF RefTypes, DataTypes
  <2>3. /\ Tree' /\ LinkCounts'
        /\ \A x : NamesOf(x)' = NamesOf(x) /\ (InTree(x)' <=> InTree(x))
    <3>1. \A x \in Inums : x # i => type'[x] = type[x] /\ dotdot'[x] = dotdot[x]
      BY <1>2, <2>2
    <3> QED BY <1>2, <1>3, <1>4, <2>1, <2>2, <3>1, RetypeLinks
  <2>4. DiskEffect(p)
    BY <1>2, <1>3, <1>6, <2>2, <2>3 DEF DiskEffect
  <2>5. RefEffect(p)
    <3>1. \A x : HeldByFile(x)' <=> HeldByFile(x)
      BY <1>2 DEF HeldByFile, files
    <3>2. \A x \in Inums : /\ HeldBy(p, x)' => HeldBy(p, x)
                           /\ WalkedBy(p, x)' => WalkedBy(p, x)
      BY <1>2, <1>6, Constants DEF HeldBy, WalkedBy, Refs
    <3>3. \A x \in Inums : cwd'[p] = x => type[x] = "dir"
      BY <1>2 DEF LinkInv, Live
    <3> QED BY <1>2, <1>6, <3>1, <3>2, <3>3 DEF RefEffect, MayTake
  <2>6. i # d /\ LocksOf(p)'
    BY <1>3, <1>6, <2>2 DEF LocksOf
  <2>7. FoundBy(p)'
    <3>1. Name(p) # ".." /\ entries[d][Name(p)] = None
      BY <1>1, <1>2, Constants DEF Lookup, RefTypes, DataTypes
    <3> QED BY <1>2, <1>3, <1>6, <2>2, <2>6, <3>1 DEF FoundBy
  <2>8. FreshOf(p)'
    <3>1. /\ cwd[p] # i /\ ~HeldByFile(i)
          /\ \A q \in Procs : ~HeldBy(q, i) /\ ~(pc[q] = "iget" /\ old[q] = i)
      BY <1>6 DEF LinkInv, Live, HeldBy, Fresh, FreshOf
    <3>2. \A q \in Procs \ {p} : ~HeldBy(q, i)' /\ ~(pc'[q] = "iget" /\ old'[q] = i)
      BY <1>3, <3>1, OthersAre, HeldOthers
    <3>3. \A q \in Procs \ {p} : ~HeldBy(q, old[p])'
      BY <1>6, <3>2
    <3>4. ~HeldByFile(old[p])'
      BY <1>2, <1>6, <3>1 DEF HeldByFile, files
    <3>5. type'[i] = (IF call'[p] = "mkdir" THEN "dir" ELSE "file") /\ nlink'[i] = 0
      BY <1>6, <2>1, <2>2
    <3>6. cwd'[p] # i /\ CurRef(p)' # i
      BY <1>2, <2>6, <3>1 DEF Refs
    <3> QED BY <1>6, <3>2, <3>3, <3>4, <3>5, <3>6 DEF FreshOf
  <2>9. CacheRight'
    BY <1>2, <1>3, <1>6, <2>2, CacheKept
  <2> QED BY <1>3, <1>6, <2>3, <2>4, <2>5, <2>6, <2>7, <2>8, <2>9, DiskLinks
<1> QED BY <1>2, <1>5, <1>6

\* A name is entered, and removed.
LEMMA NamesEnter ==
  ASSUME DataTypes, NEW d \in Inums, NEW n \in Names, NEW i \in Inums, entries[d][n] = None,
         entries' = [entries EXCEPT ![d][n] = i]
  PROVE  /\ \A x \in Inums, m \in Names :
              entries'[x][m] = IF x = d /\ m = n THEN i ELSE entries[x][m]
         /\ \A x \in Inums : x # d => entries'[x] = entries[x]
         /\ NamesOf(i)' = NamesOf(i) \cup {<<d, n>>}
         /\ Cardinality(NamesOf(i)') = Cardinality(NamesOf(i)) + 1
         /\ \A x \in Inums : x # i => NamesOf(x)' = NamesOf(x)
         /\ \A x \in Inums : InTree(x) => InTree(x)'
<1>1. /\ \A x \in Inums, m \in Names :
           entries'[x][m] = IF x = d /\ m = n THEN i ELSE entries[x][m]
      /\ \A x \in Inums : x # d => entries'[x] = entries[x]
  BY DEF DataTypes
<1>2. NamesOf(i)' = NamesOf(i) \cup {<<d, n>>}
  <2>1. \A e \in Inums \X Names : e \in NamesOf(i)' <=> e \in NamesOf(i) \/ e = <<d, n>>
    BY <1>1 DEF NamesOf
  <2> QED BY <2>1 DEF NamesOf
<1>3. \A x \in Inums : x # i => NamesOf(x)' = NamesOf(x)
  <2>1. ASSUME NEW x \in Inums, x # i, NEW e \in Inums \X Names
        PROVE  e \in NamesOf(x)' <=> e \in NamesOf(x)
    BY <1>1, <2>1, Constants DEF NamesOf
  <2> QED BY <2>1 DEF NamesOf
<1>4. <<d, n>> \notin NamesOf(i)
  BY Constants DEF NamesOf
<1>5. Cardinality(NamesOf(i)') = Cardinality(NamesOf(i)) + 1
  BY <1>2, <1>4, FiniteLinks, FS_AddElement
<1>6. \A x \in Inums : InTree(x) => InTree(x)'
  BY <1>2, <1>3 DEF InTree, ROOTINO
<1> QED BY <1>1, <1>2, <1>3, <1>5, <1>6

LEMMA NamesRemove ==
  ASSUME DataTypes, NEW d \in Inums, NEW n \in Names, NEW i \in Inums, entries[d][n] = i,
         entries' = [entries EXCEPT ![d][n] = None]
  PROVE  /\ \A x \in Inums, m \in Names :
              entries'[x][m] = IF x = d /\ m = n THEN None ELSE entries[x][m]
         /\ \A x \in Inums : /\ x # d => entries'[x] = entries[x]
                             /\ entries'[x] # NoEntries => entries[x] # NoEntries
         /\ NamesOf(i)' = NamesOf(i) \ {<<d, n>>}
         /\ Cardinality(NamesOf(i)') = Cardinality(NamesOf(i)) - 1
         /\ \A x \in Inums : x # i => NamesOf(x)' = NamesOf(x)
<1>1. /\ \A x \in Inums, m \in Names :
           entries'[x][m] = IF x = d /\ m = n THEN None ELSE entries[x][m]
      /\ \A x \in Inums : x # d => entries'[x] = entries[x]
  BY DEF DataTypes
<1>2. NamesOf(i)' = NamesOf(i) \ {<<d, n>>}
  <2>1. \A e \in Inums \X Names : e \in NamesOf(i)' <=> e \in NamesOf(i) /\ e # <<d, n>>
    BY <1>1, Constants DEF NamesOf
  <2> QED BY <2>1 DEF NamesOf
<1>3. \A x \in Inums : x # i => NamesOf(x)' = NamesOf(x)
  <2>1. ASSUME NEW x \in Inums, x # i, NEW e \in Inums \X Names
        PROVE  e \in NamesOf(x)' <=> e \in NamesOf(x)
    BY <1>1, <2>1, Constants DEF NamesOf
  <2> QED BY <2>1 DEF NamesOf
<1>4. <<d, n>> \in NamesOf(i)
  BY DEF NamesOf
<1>5. Cardinality(NamesOf(i)') = Cardinality(NamesOf(i)) - 1
  BY <1>2, <1>4, FiniteLinks, FS_RemoveElement
<1>6. entries[d] # NoEntries
  BY Constants DEF NoEntries
<1> QED BY <1>1, <1>2, <1>3, <1>5, <1>6

\* The counts follow, inode by inode.
LEMMA CountsFollow ==
  ASSUME LinkCounts, NEW p \in Procs, Others(p), NEW x \in Inums, NEW k \in Int,
         nlink'[x] = nlink[x] + k,
         Cardinality(NamesOf(x)') + Cardinality(Children(x)') + Pending(p, x)' =
           Cardinality(NamesOf(x)) + Cardinality(Children(x)) + Pending(p, x) + k,
         Cardinality(NamesOf(x)') \in Int, Cardinality(Children(x)') \in Int
  PROVE  nlink'[x] = LinksOf(x)'
<1>1. /\ Pending(p, x) \in Int /\ Pending(p, x)' \in Int /\ Uncounted(x) \in Int
      /\ Cardinality(NamesOf(x)) \in Int /\ Cardinality(Children(x)) \in Int
  BY FiniteLinks DEF Pending, Flag
<1>2. Uncounted(x)' = Uncounted(x) + Pending(p, x)' - Pending(p, x)
  BY UncountedMoves
<1>3. nlink[x] = Flag(x = ROOTINO) + Cardinality(NamesOf(x)) + Uncounted(x)
                 + Cardinality(Children(x))
  BY DEF LinkCounts, LinksOf
<1>4. LinksOf(x)' = Flag(x = ROOTINO) + Cardinality(NamesOf(x)') + Uncounted(x)'
                    + Cardinality(Children(x)')
  BY DEF LinksOf, ROOTINO
<1>5. Flag(x = ROOTINO) \in Int
  BY DEF Flag
<1> QED BY <1>1, <1>2, <1>3, <1>4, <1>5

LEMMA CreateLinkLinks ==
  ASSUME RefInv, RefInv', LinkInv, NEW p \in Procs, CreateLink(p)
  PROVE  LinkInv'
<1>1. RefTypes /\ Tree /\ DataTypes
  BY DEF RefInv, RefTypes, LinkInv
<1>2. PICK d \in Inums, i \in Inums :
        /\ d = cur[p] /\ i = old[p] /\ pc[p] = "new" /\ Refs(p, None, d, i) /\ Load(i)
        /\ call[p] \in {"create", "mkdir"} /\ path[p] # <<>>
        /\ Turn(p) /\ cwd' = cwd /\ ref' = ref /\ UNCHANGED files
        /\ Refs(p, d, None, i)' /\ Stage(p)' = "made" /\ pc'[p] = "put"
        /\ put'[p] = d /\ old'[p] = i
  BY <1>1, CreateLinkMoves
<1>3. PICK n \in Element : n = Name(p)
  BY <1>1, <1>2, PathIs DEF RefTypes
<1>4. /\ Stage(p) = "new" /\ holder[d] = p /\ holder[i] = Nobody /\ d # i /\ Others(p)
      /\ HeldBy(p, d) /\ HeldBy(p, i) /\ WalkedBy(p, d) /\ MayTake(p, d) /\ MayTake(p, i)
  BY <1>1, <1>2, RefsAre, Constants
     DEF LinkInv, Locks, LocksOf, Load, CanLock, HeldBy, WalkedBy, MayTake, Refs, Turn
<1>5. n \in Names /\ entries[d][n] = None /\ type[d] = "dir" /\ InTree(d)
  <2>1. n # ".." /\ entries[d][n] = None /\ type[d] = "dir"
    BY <1>2, <1>3 DEF LinkInv, Found, FoundBy
  <2> QED BY <1>3, <1>4, <2>1 DEF Element, LinkInv, Walkers
<1>6. type[i] = (IF call[p] = "mkdir" THEN "dir" ELSE "file") /\ nlink[i] = 0
  BY <1>2 DEF LinkInv, Fresh, FreshOf
<1>7. /\ i # ROOTINO /\ NamesOf(i) = {} /\ entries[i] = NoEntries /\ Children(i) = {}
  BY <1>6, NoLinks DEF LinkInv
<1>8. /\ nlink' = [nlink EXCEPT ![i] = 1, ![d] = @ + IF call[p] = "mkdir" THEN 1 ELSE 0]
      /\ dotdot' = IF call[p] = "mkdir" THEN [dotdot EXCEPT ![i] = d] ELSE dotdot
      /\ entries' = [entries EXCEPT ![d][n] = i]
      /\ holder' = [holder EXCEPT ![i] = p, ![d] = Nobody] /\ type' = type
  BY <1>2, <1>3 DEF CreateLink
<1>9. /\ \A x \in Inums : nlink'[x] = nlink[x]
              + (IF x = i \/ (x = d /\ type[i] = "dir") THEN 1 ELSE 0)
      /\ \A x \in Inums : dotdot'[x] = IF x = i /\ type[i] = "dir" THEN d ELSE dotdot[x]
      /\ \A x \in Inums : holder'[x] = IF x = d THEN Nobody ELSE IF x = i THEN p ELSE holder[x]
  <2>1. \A x \in Inums : nlink[x] \in Int
    BY <1>1 DEF DataTypes
  <2>2. \A x \in Inums : nlink'[x] = nlink[x]
              + (IF x = i \/ (x = d /\ type[i] = "dir") THEN 1 ELSE 0)
    BY <1>1, <1>4, <1>6, <1>8, <2>1 DEF DataTypes
  <2>3. \A x \in Inums : dotdot'[x] = IF x = i /\ type[i] = "dir" THEN d ELSE dotdot[x]
    BY <1>1, <1>6, <1>8 DEF DataTypes
  <2>4. \A x \in Inums : holder'[x] = IF x = d THEN Nobody ELSE IF x = i THEN p ELSE holder[x]
    BY <1>1, <1>4, <1>8 DEF DataTypes
  <2> QED BY <2>2, <2>3, <2>4
<1>10. /\ \A x \in Inums, m \in Names :
            entries'[x][m] = IF x = d /\ m = n THEN i ELSE entries[x][m]
       /\ \A x \in Inums : x # d => entries'[x] = entries[x]
       /\ NamesOf(i)' = NamesOf(i) \cup {<<d, n>>}
       /\ Cardinality(NamesOf(i)') = Cardinality(NamesOf(i)) + 1
       /\ \A x \in Inums : x # i => NamesOf(x)' = NamesOf(x)
       /\ \A x \in Inums : InTree(x) => InTree(x)'
  BY <1>1, <1>5, <1>8, NamesEnter
<1>11. NamesOf(i)' = {<<d, n>>}
  BY <1>7, <1>10
<1>12. Tree'
  <2>1. /\ type'[ROOTINO] = "dir" /\ NamesOf(ROOTINO)' = {} /\ dotdot'[ROOTINO] = ROOTINO
    BY <1>1, <1>7, <1>8, <1>9, <1>10, Constants DEF Tree
  <2>2. \A x \in Inums : entries'[x] # NoEntries => type'[x] = "dir" /\ InTree(x)'
    BY <1>1, <1>5, <1>8, <1>10 DEF Tree
  <2>3. \A x \in Inums : NamesOf(x)' # {} => type'[x] # "free"
    BY <1>1, <1>6, <1>8, <1>10 DEF Tree
  <2>4. ASSUME NEW x \in Inums, NEW m \in Names, NEW j \in Inums,
               j = entries'[x][m], type'[j] = "dir"
        PROVE  dotdot'[j] = x /\ NamesOf(j)' = {<<x, m>>}
    <3>1. CASE x = d /\ m = n
      <4>1. j = i
        BY <1>10, <2>4, <3>1
      <4> QED BY <1>8, <1>9, <1>11, <2>4, <3>1, <4>1
    <3>2. CASE ~(x = d /\ m = n)
      <4>1. j = entries[x][m]
        BY <1>10, <2>4, <3>2
      <4>2. j # i
        BY <1>1, <1>7, <4>1, Named
      <4> QED BY <1>1, <1>8, <1>9, <1>10, <2>4, <4>1, <4>2 DEF Tree
    <3> QED BY <3>1, <3>2
  <2> QED BY <2>1, <2>2, <2>3, <2>4 DEF Tree, NoEntries, ROOTINO
<1>13. \A x \in Inums : Pending(p, x)' = Pending(p, x)
  BY <1>2, <1>4 DEF Pending
<1>14. ASSUME NEW x \in Inums PROVE nlink'[x] = LinksOf(x)'
  <2>1. Children(x)' = IF x = d /\ type[i] = "dir" THEN Children(x) \cup {i} ELSE Children(x)
    <3>1. \A j \in Inums : j # i => (j \in Children(x)' <=> j \in Children(x))
      BY <1>8, <1>9, <1>10 DEF Children, ROOTINO
    <3>2. i \in Children(x)' <=> x = d /\ type[i] = "dir"
      BY <1>7, <1>8, <1>9, <1>11 DEF Children, ROOTINO
    <3>3. i \notin Children(x)
      BY <1>7 DEF Children
    <3>4. Children(x) \subseteq Inums /\ Children(x)' \subseteq Inums
      BY DEF Children
    <3> QED BY <3>1, <3>2, <3>3, <3>4
  <2>2. i \notin Children(x)
    BY <1>7 DEF Children
  <2>3. /\ Cardinality(Children(x)') = Cardinality(Children(x))
                                       + (IF x = d /\ type[i] = "dir" THEN 1 ELSE 0)
        /\ Cardinality(Children(x)') \in Int
    <3>1. /\ IsFiniteSet(Children(x)) /\ Cardinality(Children(x)) \in Nat
          /\ Cardinality(Children(x) \cup {i}) = Cardinality(Children(x)) + 1
      BY <2>2, FiniteLinks, FS_AddElement
    <3>2. CASE x = d /\ type[i] = "dir"
      BY <2>1, <3>1, <3>2
    <3>3. CASE ~(x = d /\ type[i] = "dir")
      BY <2>1, <3>1, <3>3
    <3> QED BY <3>2, <3>3
  <2>4. /\ Cardinality(NamesOf(x)') = Cardinality(NamesOf(x)) + (IF x = i THEN 1 ELSE 0)
        /\ Cardinality(NamesOf(x)') \in Int
    <3>1. Cardinality(NamesOf(x)) \in Nat
      BY FiniteLinks
    <3>2. CASE x = i
      BY <1>10, <3>1, <3>2
    <3>3. CASE x # i
      BY <1>10, <3>1, <3>3
    <3> QED BY <3>2, <3>3
  <2>5. Pending(p, x) \in Int
    BY DEF Pending, Flag
  <2>6. PICK k \in Int : k = IF x = i \/ (x = d /\ type[i] = "dir") THEN 1 ELSE 0
    OBVIOUS
  <2>7. Cardinality(NamesOf(x)') + Cardinality(Children(x)') + Pending(p, x)' =
          Cardinality(NamesOf(x)) + Cardinality(Children(x)) + Pending(p, x) + k
    BY <1>4, <1>13, <2>3, <2>4, <2>5, <2>6, FiniteLinks
  <2>8. nlink'[x] = nlink[x] + k
    BY <1>9, <2>6
  <2> QED BY <1>4, <2>3, <2>4, <2>7, <2>8, CountsFollow DEF LinkInv
<1>15. DiskEffect(p)
  <2>1. \A x \in Inums : /\ holder'[x] # holder[x] => holder[x] \in {Nobody, p}
                         /\ entries'[x] # entries[x] => holder[x] \in {Nobody, p}
    BY <1>4, <1>9, <1>10
  <2>2. \A x \in Inums : nlink'[x] # nlink[x] => HeldBy(p, x)
    <3>1. \A x \in Inums : nlink[x] \in Int
      BY <1>1 DEF DataTypes
    <3>2. \A x \in Inums : (x # d /\ x # i) => nlink'[x] = nlink[x]
      BY <1>9, <3>1
    <3> QED BY <1>4, <3>2
  <2> QED BY <1>8, <1>10, <2>1, <2>2 DEF DiskEffect
<1>16. RefEffect(p)
  <2>1. call'[p] # "link"
    BY <1>2 DEF Turn, ShapeOf
  <2>2. \A x \in Inums : x \in {d, None, i} => x = d \/ x = i
    BY Constants
  <2> QED BY <1>2, <1>4, <2>1, <2>2, Constants, CallRefs
<1>17. LocksOf(p)'
  BY <1>2, <1>4, <1>9 DEF LocksOf
<1>18. FoundBy(p)' /\ FreshOf(p)'
  BY <1>2, Unlocked
<1>19. CacheRight'
  BY <1>2, <1>4, <1>8, CacheKept
<1>20. LinkCounts'
  BY <1>14 DEF LinkCounts
<1> QED BY <1>2, <1>4, <1>12, <1>15, <1>16, <1>17, <1>18, <1>19, <1>20, DiskLinks

\* Without RemoveInUse, nobody is in the directory that unlink removes.
LEMMA UnlinkEntryLinks ==
  ASSUME ~RemoveInUse, RefInv, RefInv', LinkInv, NEW p \in Procs, UnlinkEntry(p)
  PROVE  LinkInv'
<1>1. RefTypes /\ Tree /\ DataTypes
  BY DEF RefInv, RefTypes, LinkInv
<1>2. PICK d \in Inums, i \in Inums :
        /\ d = cur[p] /\ i = old[p] /\ pc[p] = "victim" /\ Refs(p, None, d, i) /\ Load(i)
        /\ Turn(p) /\ cwd' = cwd /\ ref' = ref /\ UNCHANGED files
        /\ Refs(p, d, None, i)' /\ Stage(p)' = "unnamed" /\ pc'[p] = "put"
        /\ put'[p] = d /\ old'[p] = i
  BY <1>1, UnlinkEntryMoves
<1>3. Stage(p) = "victim" /\ path[p] # <<>>
  BY <1>1, <1>2, RefsAre DEF RefTypes, Shape, ShapeOf
<1>4. PICK n \in Element : n = Name(p)
  BY <1>1, <1>3, PathIs DEF RefTypes
<1>5. /\ holder[d] = p /\ holder[i] = Nobody /\ d # i /\ Others(p)
      /\ HeldBy(p, d) /\ HeldBy(p, i) /\ MayTake(p, d) /\ MayTake(p, i)
  BY <1>2, <1>3, Constants
     DEF LinkInv, Locks, LocksOf, Load, CanLock, HeldBy, MayTake, Refs, Turn
<1>6. n \in Names /\ entries[d][n] = i
  BY <1>2, <1>4 DEF LinkInv, Found, FoundBy, Element
<1>7. <<d, n>> \in NamesOf(i) /\ i # ROOTINO
  BY <1>1, <1>6, Named DEF Tree
<1>8. Loaded(i) = type[i]
  BY <1>2, LoadedIs DEF LinkInv, Load
<1>9. /\ type[i] = "dir" => entries[i] = NoEntries /\ ref[i] = 1
      /\ entries' = [entries EXCEPT ![d][n] = None]
      /\ nlink' = [nlink EXCEPT ![d] = @ - IF type[i] = "dir" THEN 1 ELSE 0]
      /\ holder' = [holder EXCEPT ![i] = p, ![d] = Nobody]
      /\ UNCHANGED <<type, dotdot>>
  BY <1>2, <1>4, <1>8 DEF UnlinkEntry, Removable
<1>10. type[i] = "dir" => /\ dotdot[i] = d /\ NamesOf(i) = {<<d, n>>}
                          /\ \A q \in Procs : ~WalkedBy(q, i)
  <2>1. type[i] = "dir" => dotdot[i] = d /\ NamesOf(i) = {<<d, n>>}
    BY <1>1, <1>6 DEF Tree
  <2>2. OldRef(p) = i /\ Counted
    BY <1>2 DEF Refs, RefInv
  <2>3. type[i] = "dir" => \A q \in Procs : ~WalkedBy(q, i)
    BY <1>9, <2>2, Referred DEF WalkedBy
  <2> QED BY <2>1, <2>3
<1>11. /\ \A x \in Inums : nlink'[x] = nlink[x] + (IF x = d /\ type[i] = "dir" THEN -1 ELSE 0)
       /\ \A x \in Inums : holder'[x] = IF x = d THEN Nobody ELSE IF x = i THEN p ELSE holder[x]
  <2>1. \A x \in Inums : nlink[x] \in Int
    BY <1>1 DEF DataTypes
  <2>2. \A x \in Inums : nlink'[x] = nlink[x] + (IF x = d /\ type[i] = "dir" THEN -1 ELSE 0)
    BY <1>1, <1>9, <2>1 DEF DataTypes
  <2>3. \A x \in Inums : holder'[x] = IF x = d THEN Nobody ELSE IF x = i THEN p ELSE holder[x]
    BY <1>1, <1>5, <1>9 DEF DataTypes
  <2> QED BY <2>2, <2>3
<1>12. /\ \A x \in Inums, m \in Names :
            entries'[x][m] = IF x = d /\ m = n THEN None ELSE entries[x][m]
       /\ \A x \in Inums : /\ x # d => entries'[x] = entries[x]
                           /\ entries'[x] # NoEntries => entries[x] # NoEntries
       /\ NamesOf(i)' = NamesOf(i) \ {<<d, n>>}
       /\ Cardinality(NamesOf(i)') = Cardinality(NamesOf(i)) - 1
       /\ \A x \in Inums : x # i => NamesOf(x)' = NamesOf(x)
  BY <1>1, <1>6, <1>9, NamesRemove
<1>13. \A x \in Inums : (x # i /\ InTree(x)) => InTree(x)'
  BY <1>12 DEF InTree, ROOTINO
<1>14. Tree'
  <2>1. type'[ROOTINO] = "dir" /\ NamesOf(ROOTINO)' = {} /\ dotdot'[ROOTINO] = ROOTINO
    BY <1>1, <1>7, <1>9, <1>12, Constants DEF Tree
  <2>2. \A x \in Inums : entries'[x] # NoEntries => type'[x] = "dir" /\ InTree(x)'
    <3>1. \A x \in Inums : entries'[x] # NoEntries => type[x] = "dir" /\ InTree(x) /\ x # i
      BY <1>1, <1>9, <1>12 DEF Tree
    <3> QED BY <1>9, <1>13, <3>1
  <2>3. \A x \in Inums : NamesOf(x)' # {} => type'[x] # "free"
    BY <1>1, <1>9, <1>12 DEF Tree
  <2>4. ASSUME NEW x \in Inums, NEW m \in Names, NEW j \in Inums,
               j = entries'[x][m], type'[j] = "dir"
        PROVE  dotdot'[j] = x /\ NamesOf(j)' = {<<x, m>>}
    <3>1. ~(x = d /\ m = n) /\ j = entries[x][m]
      BY <1>12, <2>4, Constants
    <3>2. dotdot[j] = x /\ NamesOf(j) = {<<x, m>>}
      BY <1>1, <1>9, <2>4, <3>1 DEF Tree
    <3>3. j # i
      BY <1>7, <3>1, <3>2
    <3> QED BY <1>9, <1>12, <3>2, <3>3
  <2> QED BY <2>1, <2>2, <2>3, <2>4 DEF Tree, NoEntries, ROOTINO
<1>15. ASSUME NEW x \in Inums PROVE nlink'[x] = LinksOf(x)'
  <2>1. Children(x)' = IF x = d /\ type[i] = "dir" THEN Children(x) \ {i} ELSE Children(x)
    <3>1. \A j \in Inums : j # i => (j \in Children(x)' <=> j \in Children(x))
      BY <1>9, <1>12 DEF Children, ROOTINO
    <3>2. i \notin Children(x)'
      BY <1>9, <1>10, <1>12 DEF Children
    <3>3. i \in Children(x) <=> x = d /\ type[i] = "dir"
      BY <1>7, <1>10 DEF Children
    <3>4. Children(x) \subseteq Inums /\ Children(x)' \subseteq Inums
      BY DEF Children
    <3> QED BY <3>1, <3>2, <3>3, <3>4
  <2>2. /\ Cardinality(Children(x)') = Cardinality(Children(x))
                                       + (IF x = d /\ type[i] = "dir" THEN -1 ELSE 0)
        /\ Cardinality(Children(x)') \in Int
    <3>1. IsFiniteSet(Children(x)) /\ Cardinality(Children(x)) \in Nat
      BY FiniteLinks
    <3>2. CASE x = d /\ type[i] = "dir"
      <4>1. i \in Children(x)
        BY <1>7, <1>10, <3>2 DEF Children
      <4>2. Cardinality(Children(x) \ {i}) = Cardinality(Children(x)) - 1
        BY <3>1, <4>1, FS_RemoveElement
      <4> QED BY <2>1, <3>1, <3>2, <4>2
    <3>3. CASE ~(x = d /\ type[i] = "dir")
      BY <2>1, <3>1, <3>3
    <3> QED BY <3>2, <3>3
  <2>3. /\ Cardinality(NamesOf(x)') = Cardinality(NamesOf(x)) - (IF x = i THEN 1 ELSE 0)
        /\ Cardinality(NamesOf(x)') \in Int
    <3>1. Cardinality(NamesOf(x)) \in Nat
      BY FiniteLinks
    <3>2. /\ Cardinality(NamesOf(i)') = Cardinality(NamesOf(i)) - 1
          /\ Cardinality(NamesOf(i)') \in Int
      BY <1>12, FiniteLinks
    <3>3. CASE x = i
      BY <3>2, <3>3
    <3>4. CASE x # i
      BY <1>12, <3>1, <3>4
    <3> QED BY <3>3, <3>4
  <2>4. Pending(p, x) = 0 /\ Pending(p, x)' = IF x = i THEN 1 ELSE 0
    BY <1>2, <1>3 DEF Pending, Refs, Flag
  <2>5. PICK k \in Int : k = IF x = d /\ type[i] = "dir" THEN -1 ELSE 0
    OBVIOUS
  <2>6. Cardinality(NamesOf(x)') + Cardinality(Children(x)') + Pending(p, x)' =
          Cardinality(NamesOf(x)) + Cardinality(Children(x)) + Pending(p, x) + k
    BY <2>2, <2>3, <2>4, <2>5, FiniteLinks
  <2>7. nlink'[x] = nlink[x] + k
    BY <1>11, <2>5
  <2> QED BY <1>5, <2>2, <2>3, <2>6, <2>7, CountsFollow DEF LinkInv
<1>16. DiskEffect(p)
  <2>1. \A x \in Inums : /\ holder'[x] # holder[x] => holder[x] \in {Nobody, p}
                         /\ entries'[x] # entries[x] => holder[x] \in {Nobody, p}
    BY <1>5, <1>11, <1>12
  <2>2. \A x \in Inums : nlink'[x] # nlink[x] => HeldBy(p, x)
    <3>1. \A x \in Inums : nlink[x] \in Int
      BY <1>1 DEF DataTypes
    <3>2. \A x \in Inums : x # d => nlink'[x] = nlink[x]
      BY <1>11, <3>1
    <3> QED BY <1>5, <3>2
  <2> QED BY <1>9, <1>10, <1>13, <2>1, <2>2 DEF DiskEffect
<1>17. RefEffect(p)
  <2>1. call'[p] # "link"
    BY <1>2 DEF Turn, ShapeOf
  <2>2. \A x \in Inums : x \in {d, None, i} => x = d \/ x = i
    BY Constants
  <2> QED BY <1>2, <1>5, <2>1, <2>2, Constants, CallRefs
<1>18. LocksOf(p)'
  BY <1>2, <1>5, <1>11 DEF LocksOf
<1>19. FoundBy(p)' /\ FreshOf(p)'
  BY <1>2, Unlocked
<1>20. CacheRight'
  BY <1>2, <1>5, <1>9, CacheKept
<1>21. LinkCounts'
  BY <1>15 DEF LinkCounts
<1> QED BY <1>2, <1>5, <1>14, <1>16, <1>17, <1>18, <1>19, <1>20, <1>21, DiskLinks

LEMMA LinkEntryLinks ==
  ASSUME RefInv, RefInv', LinkInv, NEW p \in Procs, LinkEntry(p)
  PROVE  LinkInv'
<1>1. RefTypes /\ Tree /\ DataTypes
  BY DEF RefInv, RefTypes, LinkInv
<1>2. PICK d \in Inums, n \in Element, o \in Inums :
        /\ d = cur[p] /\ o = old[p] /\ n = Name(p) /\ pc[p] = "parent"
        /\ Refs(p, None, d, o) /\ Load(d) /\ call[p] = "link"
        /\ Turn(p) /\ cwd' = cwd /\ UNCHANGED <<type, nlink, dotdot, files>>
        /\ \/ /\ Lookup(d, n) = None /\ UNCHANGED <<ref, holder>>
              /\ entries' = [entries EXCEPT ![d][n] = o]
              /\ Refs(p, d, None, o)' /\ Stage(p)' = "linked" /\ pc'[p] = "put"
              /\ put'[p] = d /\ old'[p] = o
           \/ /\ entries' = entries
              /\ \E i \in Inums : /\ i = Lookup(d, n) /\ Iget(i) /\ Refs(p, i, d, o)'
                                  /\ put'[p] = i
              /\ holder' = [holder EXCEPT ![d] = p]
              /\ Stage(p)' = "release" /\ pc'[p] = "put" /\ args' = args
  BY <1>1, LinkEntryMoves
<1>3. /\ HeldBy(p, d) /\ HeldBy(p, o) /\ WalkedBy(p, d) /\ MayTake(p, d) /\ MayTake(p, o)
      /\ Others(p) /\ holder[d] = Nobody /\ Stage(p) = "parent"
  BY <1>1, <1>2, RefsAre DEF HeldBy, WalkedBy, MayTake, Refs, Turn, Load, CanLock
<1>4. type[d] = "dir" /\ InTree(d) /\ type[o] = "file"
  <2>1. type[d] = "dir"
    BY <1>2 DEF LinkInv, Found, FoundBy
  <2>2. type[o] = "file"
    BY <1>2, Constants DEF Refs, LinkInv, Live
  <2> QED BY <1>3, <2>1, <2>2 DEF LinkInv, Walkers
<1>5. ASSUME Lookup(d, n) = None, UNCHANGED <<ref, holder>>,
             entries' = [entries EXCEPT ![d][n] = o],
             Refs(p, d, None, o)', Stage(p)' = "linked", pc'[p] = "put",
             put'[p] = d, old'[p] = o
      PROVE  LinkInv'
  <2>1. n \in Names /\ entries[d][n] = None
    BY <1>1, <1>5, Constants DEF Lookup, Element, DataTypes
  <2>2. /\ \A x \in Inums, m \in Names :
             entries'[x][m] = IF x = d /\ m = n THEN o ELSE entries[x][m]
        /\ \A x \in Inums : x # d => entries'[x] = entries[x]
        /\ NamesOf(o)' = NamesOf(o) \cup {<<d, n>>}
        /\ Cardinality(NamesOf(o)') = Cardinality(NamesOf(o)) + 1
        /\ \A x \in Inums : x # o => NamesOf(x)' = NamesOf(x)
        /\ \A x \in Inums : InTree(x) => InTree(x)'
    BY <1>1, <1>5, <2>1, NamesEnter
  <2>3. Tree'
    <3>1. type'[ROOTINO] = "dir" /\ NamesOf(ROOTINO)' = {} /\ dotdot'[ROOTINO] = ROOTINO
      BY <1>1, <1>2, <1>4, <2>2, Constants DEF Tree
    <3>2. \A x \in Inums : entries'[x] # NoEntries => type'[x] = "dir" /\ InTree(x)'
      BY <1>1, <1>2, <1>4, <2>2 DEF Tree
    <3>3. \A x \in Inums : NamesOf(x)' # {} => type'[x] # "free"
      BY <1>1, <1>2, <1>4, <2>2 DEF Tree
    <3>4. ASSUME NEW x \in Inums, NEW m \in Names, NEW j \in Inums,
                 j = entries'[x][m], type'[j] = "dir"
          PROVE  dotdot'[j] = x /\ NamesOf(j)' = {<<x, m>>}
      <4>1. j # o
        BY <1>2, <1>4, <3>4
      <4>2. j = entries[x][m]
        BY <2>2, <3>4, <4>1
      <4> QED BY <1>1, <1>2, <2>2, <3>4, <4>1, <4>2 DEF Tree
    <3> QED BY <3>1, <3>2, <3>3, <3>4 DEF Tree, NoEntries, ROOTINO
  <2>4. ASSUME NEW x \in Inums PROVE nlink'[x] = LinksOf(x)'
    <3>1. Children(x)' = Children(x)
      <4>1. \A j \in Inums : type[j] = "dir" => j # o /\ NamesOf(j)' = NamesOf(j)
        BY <1>4, <2>2
      <4> QED BY <1>2, <4>1 DEF Children, ROOTINO
    <3>2. /\ Cardinality(NamesOf(x)') = Cardinality(NamesOf(x)) + (IF x = o THEN 1 ELSE 0)
          /\ Cardinality(NamesOf(x)') \in Int /\ Cardinality(Children(x)') \in Int
      <4>1. Cardinality(NamesOf(x)) \in Nat /\ Cardinality(Children(x)) \in Nat
        BY FiniteLinks
      <4>2. Cardinality(NamesOf(o)') = Cardinality(NamesOf(o)) + 1
            /\ Cardinality(NamesOf(o)') \in Int
        BY <2>2, FiniteLinks
      <4>3. CASE x = o
        BY <3>1, <4>1, <4>2, <4>3
      <4>4. CASE x # o
        BY <2>2, <3>1, <4>1, <4>4
      <4> QED BY <4>3, <4>4
    <3>3. Pending(p, x) = (IF x = o THEN 1 ELSE 0) /\ Pending(p, x)' = 0
      BY <1>2, <1>3, <1>5 DEF Pending, Refs, Flag
    <3>4. Cardinality(NamesOf(x)') + Cardinality(Children(x)') + Pending(p, x)' =
            Cardinality(NamesOf(x)) + Cardinality(Children(x)) + Pending(p, x) + 0
      BY <3>1, <3>2, <3>3, FiniteLinks
    <3>5. nlink'[x] = nlink[x] + 0 /\ 0 \in Int
      BY <1>1, <1>2 DEF DataTypes
    <3> QED BY <1>3, <3>2, <3>4, <3>5, CountsFollow DEF LinkInv
  <2>5. DiskEffect(p)
    BY <1>2, <1>3, <1>5, <2>2 DEF DiskEffect
  <2>6. RefEffect(p)
    <3>1. \A x \in Inums : x \in {d, None, o} => x = d \/ x = o
      BY Constants
    <3> QED BY <1>2, <1>3, <1>4, <1>5, <3>1, Constants, CallRefs
  <2>7. LocksOf(p)' /\ FoundBy(p)' /\ FreshOf(p)'
    BY <1>5, Unlocked
  <2>8. CacheRight'
    BY <1>2, <1>3, <1>5, CacheKept
  <2>9. LinkCounts'
    BY <2>4 DEF LinkCounts
  <2> QED BY <1>3, <1>5, <2>3, <2>5, <2>6, <2>7, <2>8, <2>9, DiskLinks
<1>6. ASSUME NEW i \in Inums, i = Lookup(d, n), Iget(i), Refs(p, i, d, o)', put'[p] = i,
             entries' = entries, holder' = [holder EXCEPT ![d] = p],
             Stage(p)' = "release", pc'[p] = "put", args' = args
      PROVE  LinkInv'
  <2>1. UNCHANGED onDisk /\ cur'[p] = d /\ old'[p] = o
    BY <1>2, <1>6 DEF onDisk, args
  <2>2. MayTake(p, i)
    BY <1>1, <1>4, <1>6, LookupTree DEF MayTake
  <2>3. \A x \in Inums : /\ holder'[x] # holder[x] => holder[x] \in {Nobody, p}
                         /\ x = d => holder'[x] = p
    BY <1>1, <1>3, <1>6 DEF DataTypes
  <2>4. LocksOf(p)'
    BY <1>6, <2>1, <2>3 DEF LocksOf
  <2>5. FoundBy(p)' /\ FreshOf(p)'
    BY <1>6, Unlocked
  <2>6. \A x \in Inums : Pending(p, x)' = Pending(p, x)
    BY <1>2, <1>3, <1>6 DEF Pending, Refs
  <2> QED BY <1>2, <1>3, <1>4, <1>6, <2>1, <2>2, <2>3, <2>4, <2>5, <2>6, QuietCall
<1> QED BY <1>2, <1>5, <1>6

----------------------------------------------------------------------------
(* The counts of links, and what may be freed *)

LEMMA LinkStep ==
  ASSUME ~RemoveInUse, RefInv, LinkInv, Next
  PROVE  LinkInv'
<1>1. RefInv'
  BY RefStep
<1>2. PICK p \in Procs :
  \/ \E c \in {"open", "create", "mkdir", "unlink", "link", "chdir"} : Begin(p, c)
  \/ PutCheck(p) \/ PutTrunc(p) \/ PutInvalid(p) \/ PutDrop(p)
  \/ Step(p) \/ Open(p) \/ Chdir(p) \/ Close(p)
  \/ \E q \in Procs : Filedup(p, q)
  \/ CreateExists(p) \/ CreateAlloc(p) \/ CreateGet(p) \/ CreateLink(p)
  \/ CreateDone(p)
  \/ UnlinkFails(p) \/ UnlinkFind(p) \/ UnlinkKeep(p) \/ UnlinkEntry(p)
  \/ UnlinkDone(p) \/ Release(p)
  \/ LinkCount(p) \/ LinkEntry(p) \/ LinkDone(p) \/ LinkBad(p)
  BY DEF Next
<1>3. CASE \E c \in {"open", "create", "mkdir", "unlink", "link", "chdir"} : Begin(p, c)
  <2>1. {"open", "create", "mkdir", "unlink", "link", "chdir"} = Calls \ {"none"}
    BY DEF Calls
  <2> QED BY <1>1, <1>3, <2>1, BeginLinks
<1>4. CASE PutCheck(p) \/ PutTrunc(p) \/ PutInvalid(p) \/ PutDrop(p)
  BY <1>1, <1>4, PutCheckLinks, PutTruncLinks, PutInvalidLinks, PutDropLinks
<1>5. CASE Step(p) \/ Open(p) \/ Chdir(p) \/ Close(p)
  BY <1>1, <1>5, StepLinks, OpenLinks, ChdirLinks, CloseLinks
<1>6. CASE \E q \in Procs : Filedup(p, q)
  BY <1>1, <1>6, FiledupLinks
<1>7. CASE CreateExists(p) \/ CreateAlloc(p) \/ CreateGet(p) \/ CreateLink(p) \/ CreateDone(p)
  BY <1>1, <1>7, CreateExistsLinks, CreateAllocLinks, CreateGetLinks, CreateLinkLinks,
     CreateDoneLinks
<1>8. CASE UnlinkFails(p) \/ UnlinkFind(p) \/ UnlinkKeep(p) \/ UnlinkEntry(p)
  BY <1>1, <1>8, UnlinkFailsLinks, UnlinkFindLinks, UnlinkKeepLinks, UnlinkEntryLinks
<1>9. CASE UnlinkDone(p) \/ Release(p)
  BY <1>1, <1>9, UnlinkDoneLinks, ReleaseLinks
<1>10. CASE LinkCount(p) \/ LinkEntry(p) \/ LinkDone(p) \/ LinkBad(p)
  BY <1>1, <1>10, LinkCountLinks, LinkEntryLinks, LinkDoneLinks, LinkBadLinks
<1> QED BY <1>2, <1>3, <1>4, <1>5, <1>6, <1>7, <1>8, <1>9, <1>10

LEMMA LinkInit == Init => LinkInv
<1> SUFFICES ASSUME Init PROVE LinkInv
  OBVIOUS
<1>1. /\ \A p \in Procs : pc[p] = "idle" /\ Stage(p) = "idle" /\ cwd[p] = ROOTINO
                          /\ CurRef(p) = None /\ OldRef(p) = None /\ old[p] = None
      /\ \A i \in Inums : ~HeldByFile(i) /\ NamesOf(i) = {}
  BY Constants DEF Init, Stage, HoldsPut, CurRef, HoldsCur, OldRef, HoldsOld, HeldByFile,
                   NamesOf, NoEntries
<1>2. /\ \A i \in Inums : type[i] = (IF i = ROOTINO THEN "dir" ELSE "free") /\ ~valid[i]
                          /\ nlink[i] = Flag(i = ROOTINO) /\ entries[i] = NoEntries
      /\ dotdot[ROOTINO] = ROOTINO
  BY Constants DEF Init, Flag
<1>3. Locks /\ Found /\ Fresh /\ Freeing
  BY <1>1 DEF Locks, LocksOf, Found, FoundBy, Fresh, FreshOf, Freeing
<1>4. Live
  BY <1>1, <1>2, Constants DEF Live, HeldBy
<1>5. Tree
  BY <1>1, <1>2, Constants DEF Tree, NoEntries
<1>6. Walkers /\ CacheRight
  BY <1>1, <1>2, Constants DEF Walkers, WalkedBy, InTree, CacheRight
<1>7. ASSUME NEW i \in Inums PROVE nlink[i] = LinksOf(i)
  <2>1. /\ {p \in Procs : /\ call[p] = "link" /\ old[p] = i
                          /\ Stage(p) \in {"walk", "parent", "release", "bad"}} = {}
        /\ {p \in Procs : old[p] = i /\ Stage(p) = "unnamed"} = {}
        /\ NamesOf(i) = {} /\ Children(i) = {}
    BY <1>1 DEF Children
  <2>2. Uncounted(i) = Cardinality({}) + Cardinality({})
    BY <2>1 DEF Uncounted
  <2>3. Cardinality(NamesOf(i)) = 0 /\ Cardinality(Children(i)) = 0 /\ Uncounted(i) = 0
    BY <2>1, <2>2, FS_EmptySet
  <2> QED BY <1>2, <2>3 DEF LinksOf, Flag
<1>8. LinkCounts
  BY <1>7 DEF LinkCounts
<1> QED BY <1>3, <1>4, <1>5, <1>6, <1>8 DEF LinkInv

LEMMA LinkStutter == LinkInv /\ UNCHANGED vars => LinkInv'
<1> SUFFICES ASSUME LinkInv, UNCHANGED vars PROVE LinkInv'
  OBVIOUS
<1> USE DEF vars, onDisk, cache, files, locals, args
<1>1. /\ \A p : Stage(p)' = Stage(p) /\ CurRef(p)' = CurRef(p) /\ OldRef(p)' = OldRef(p)
                /\ Name(p)' = Name(p)
      /\ \A p, i : (HeldBy(p, i)' <=> HeldBy(p, i)) /\ (WalkedBy(p, i)' <=> WalkedBy(p, i))
  BY DEF Stage, HoldsPut, CurRef, HoldsCur, OldRef, HoldsOld, HeldBy, WalkedBy, Name
<1>2. \A i : /\ NamesOf(i)' = NamesOf(i) /\ (InTree(i)' <=> InTree(i))
             /\ Children(i)' = Children(i) /\ Uncounted(i)' = Uncounted(i)
             /\ (HeldByFile(i)' <=> HeldByFile(i)) /\ (Loading(i)' <=> Loading(i))
  BY <1>1 DEF NamesOf, InTree, Children, Uncounted, HeldByFile, Loading, ROOTINO
<1>3. Locks' /\ Found'
  BY <1>1 DEF LinkInv, Locks, LocksOf, Found, FoundBy
<1>4. Live'
  BY <1>1, <1>2 DEF LinkInv, Live
<1>5. Tree'
  BY <1>2 DEF LinkInv, Tree, NoEntries, ROOTINO
<1>6. Walkers' /\ Freeing'
  BY <1>1, <1>2 DEF LinkInv, Walkers, Freeing
<1>7. Fresh'
  BY <1>1, <1>2 DEF LinkInv, Fresh, FreshOf, HeldBy, HeldByFile
<1>8. LinkCounts' /\ CacheRight'
  BY <1>2 DEF LinkInv, LinkCounts, LinksOf, CacheRight, Flag, ROOTINO
<1> QED BY <1>3, <1>4, <1>5, <1>6, <1>7, <1>8 DEF LinkInv

\* As long as programs remove no directory that others use, whatever calls are
\* interleaved and whichever way they fail: a call finds what it has found under
\* the lock of the parent, directories make a tree, every link is counted, and
\* iput frees what only it refers to and no directory names (fs.c ilock, iput,
\* dirlink; sysfile.c create, sys_link, sys_unlink).
THEOREM LinkInvariant ==
  ASSUME ~RemoveInUse
  PROVE  Spec => [](RefInv /\ LinkInv)
<1>1. Init => RefInv /\ LinkInv
  BY RefInit, LinkInit
<1>2. (RefInv /\ LinkInv) /\ [Next]_vars => (RefInv /\ LinkInv)'
  BY RefStep, RefStutter, LinkStep, LinkStutter
<1> QED BY <1>1, <1>2, PTL DEF Spec

\* ip->ref is the number of pointers to the inode, and no count is negative.
THEOREM RefsAreRight ==
  ASSUME ~RemoveInUse
  PROVE  Spec => []RefsRight
<1>1. RefInv /\ LinkInv => RefsRight
  <2>1. SUFFICES ASSUME RefInv, LinkInv PROVE RefsRight
    OBVIOUS
  <2>2. ASSUME NEW i \in Inums PROVE nlink[i] \in Nat
    <3>1. nlink[i] = Flag(i = ROOTINO) + Cardinality(NamesOf(i)) + Uncounted(i)
                     + Cardinality(Children(i))
      BY <2>1 DEF LinkInv, LinkCounts, LinksOf
    <3> QED BY <3>1, FiniteLinks DEF Flag
  <2>3. nlink \in [Inums -> Nat]
    BY <2>1, <2>2 DEF RefInv, DataTypes
  <2> QED BY <2>1, <2>3 DEF RefsRight, TypeOK, RefInv, DataTypes, CallTypes, Counted
<1> QED BY <1>1, LinkInvariant, PTL

\* nlink is the number of names of the inode, but for calls in the middle of
\* entering or removing one.
THEOREM LinksAreRight ==
  ASSUME ~RemoveInUse
  PROVE  Spec => []LinksRight
<1>1. RefInv /\ LinkInv => LinksRight
  <2>1. SUFFICES ASSUME RefInv, LinkInv, NEW i \in Inums \ {ROOTINO}
                 PROVE  nlink[i] = Cardinality(NamesOf(i)) + Uncounted(i)
                                   + IF type[i] = "dir" THEN Cardinality(Children(i)) ELSE 0
    BY DEF LinksRight
  <2>2. nlink[i] = Cardinality(NamesOf(i)) + Uncounted(i) + Cardinality(Children(i))
    BY <2>1, FiniteLinks DEF LinkInv, LinkCounts, LinksOf, Flag
  <2>3. type[i] # "dir" => Children(i) = {}
    BY <2>1, ChildOf DEF RefInv, LinkInv
  <2>4. type[i] # "dir" => Cardinality(Children(i)) = 0
    BY <2>3, FS_EmptySet
  <2> QED BY <2>2, <2>4
<1> QED BY <1>1, LinkInvariant, PTL

\* What has a name or is referred to is allocated, but while iput frees it, and
\* unlink finds a link to take away: ilock's panic "no type" and unlink's "nlink
\* < 1" are out of reach.
THEOREM NothingEverDangles ==
  ASSUME ~RemoveInUse
  PROVE  Spec => []NothingDangles
<1>1. RefInv /\ LinkInv => NothingDangles
  <2>1. SUFFICES ASSUME RefInv, LinkInv PROVE NothingDangles
    OBVIOUS
  <2>2. \A i \in Inums : NamesOf(i) # {} => type[i] # "free"
    BY <2>1 DEF LinkInv, Tree
  <2>3. ASSUME NEW i \in Inums, ref[i] > 0 PROVE type[i] # "free" \/ BeingFreed(i)
    <3>1. SUFFICES ASSUME ~BeingFreed(i), ~HeldByFile(i), \A p \in Procs : ~HeldBy(p, i)
                   PROVE  FALSE
      BY <2>1 DEF LinkInv, Live
    <3>2. /\ {p \in Procs : cwd[p] = i} = {}
          /\ {f \in Files : fref[f] > 0 /\ fip[f] = i} = {}
          /\ {p \in Procs : HoldsPut(p) /\ put[p] = i} = {}
          /\ {p \in Procs : HoldsCur(p) /\ cur[p] = i} = {}
          /\ {p \in Procs : HoldsOld(p) /\ old[p] = i} = {}
      BY <3>1 DEF HeldBy, HeldByFile, BeingFreed, CurRef, OldRef, HoldsPut
    <3>3. RefsTo(i) = Cardinality({}) + Cardinality({}) + Cardinality({}) + Cardinality({})
                      + Cardinality({})
      BY <3>2 DEF RefsTo
    <3>4. RefsTo(i) = 0 + 0 + 0 + 0 + 0
      BY <3>3, FS_EmptySet
    <3> QED BY <2>1, <2>3, <3>4 DEF RefInv, Counted
  <2>4. \A i \in Inums : (valid[i] /\ ~BeingFreed(i)) => ctype[i] = type[i]
    BY <2>1 DEF LinkInv, CacheRight, Loading, BeingFreed
  <2>5. ASSUME NEW p \in Procs, pc[p] = "victim" PROVE nlink[old[p]] >= 1
    <3>1. PICK d \in Inums, i \in Inums : d = cur[p] /\ i = old[p]
      BY <2>1, <2>5, RefsAre DEF RefInv, RefTypes
    <3>2. Stage(p) = "victim" /\ path[p] # <<>>
      BY <2>1, <2>5, RefsAre DEF RefInv, RefTypes, Shape, ShapeOf
    <3>3. PICK n \in Names : n = Name(p) /\ entries[d][n] = i
      BY <2>1, <2>5, <3>1, <3>2, PathIs DEF RefInv, LinkInv, Found, FoundBy, Element
    <3>4. nlink[i] # 0
      BY <2>1, <3>3, Named, NoLinks DEF RefInv, LinkInv
    <3>5. nlink[i] = Flag(i = ROOTINO) + Cardinality(NamesOf(i)) + Uncounted(i)
                     + Cardinality(Children(i))
      BY <2>1 DEF LinkInv, LinkCounts, LinksOf
    <3> QED BY <3>1, <3>4, <3>5, FiniteLinks DEF Flag
  <2> QED BY <2>2, <2>3, <2>4, <2>5 DEF NothingDangles
<1> QED BY <1>1, LinkInvariant, PTL
=============================================================================
