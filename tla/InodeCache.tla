----------------------------- MODULE InodeCache -----------------------------
(***************************************************************************)
(* Inodes, directories and open files (fs.c, sysfile.c, file.c): how the   *)
(* counts of links and of references decide when an inode is freed, while  *)
(* system calls of several processes walk paths, create, link, unlink,     *)
(* change directory, open and close.                                       *)
(*                                                                         *)
(* What a call does between taking and giving back one inode's lock is one *)
(* step; where it takes a second lock, or calls iput, while it holds one,  *)
(* the steps are apart.  The cache entry of an inode is indexed by its     *)
(* number: iget finds or makes at most one.  Contents of files and the log *)
(* are left out; iupdate writes through, so only the type is kept twice,   *)
(* in the cache and on disk, where ialloc looks.                           *)
(***************************************************************************)
EXTENDS Naturals, Sequences, FiniteSets

CONSTANTS Procs,
          NInodes,       \* sb.ninodes
          Names,         \* of directory entries
          Paths,         \* the paths programs use, with ".." as an element
          Files,         \* ftable.file
          NoFile, Nobody,
          RemoveInUse    \* programs remove directories others are using

ASSUME InodeAssumption ==
  /\ NInodes \in Nat \ {0} /\ IsFiniteSet(Procs) /\ IsFiniteSet(Files) /\ IsFiniteSet(Names)
  /\ ".." \notin Names /\ Paths \subseteq Seq(Names \cup {".."}) \ {<<>>}
  /\ NoFile \notin Files /\ Nobody \notin Procs
  /\ RemoveInUse \in BOOLEAN

Inums == 1..NInodes
ROOTINO == 1
None == 0
Types == {"free", "file", "dir"}

VARIABLES
  type,       \* dip->type, on disk
  nlink,
  entries,    \* of a directory: name -> inode number
  dotdot,     \* its ".."
  ref, valid, ctype, holder,   \* struct inode; ip->lock is held by holder
  fref, fip,  \* struct file
  fd,         \* process -> its open file
  cwd,
  pc, call,
  path, to,   \* still to walk; the second path of link
  cur,        \* ip of namex, then dp or the inode it found
  old,        \* the inode kept aside: ip of link, unlink and create
  put, after, \* iput's argument, and where it returns to
  panicked    \* "ialloc: no inodes"

onDisk == <<type, nlink, entries, dotdot>>
cache  == <<ref, valid, ctype, holder>>
files  == <<fref, fip, fd>>
args   == <<call, path, to, cur, old>>
locals == <<args, put, after>>
vars == <<onDisk, cache, files, cwd, pc, locals, panicked>>

NoEntries == [n \in Names |-> None]

\* mkfs's disk; every process starts in the root directory.
Init ==
  /\ type = [i \in Inums |-> IF i = ROOTINO THEN "dir" ELSE "free"]
  /\ nlink = [i \in Inums |-> IF i = ROOTINO THEN 1 ELSE 0]
  /\ entries = [i \in Inums |-> NoEntries]
  /\ dotdot = [i \in Inums |-> ROOTINO]
  /\ ref = [i \in Inums |-> IF i = ROOTINO THEN Cardinality(Procs) ELSE 0]
  /\ valid = [i \in Inums |-> FALSE]
  /\ ctype = [i \in Inums |-> "free"]
  /\ holder = [i \in Inums |-> Nobody]
  /\ fref = [f \in Files |-> 0] /\ fip = [f \in Files |-> None]
  /\ fd = [p \in Procs |-> NoFile]
  /\ cwd = [p \in Procs |-> ROOTINO]
  /\ pc = [p \in Procs |-> "idle"] /\ call = [p \in Procs |-> "none"]
  /\ path = [p \in Procs |-> <<>>] /\ to = path
  /\ cur = [p \in Procs |-> None] /\ old = cur /\ put = cur
  /\ after = pc
  /\ panicked = FALSE

At(p, point) == pc[p] = point /\ ~panicked
Goto(p, point) == pc' = [pc EXCEPT ![p] = point]

\* The local variables of a call are gone when it returns; of a walk, when it
\* is over.
Walked(p) == path' = [path EXCEPT ![p] = <<>>] /\ cur' = [cur EXCEPT ![p] = None]
Blank(p) ==
  /\ Walked(p)
  /\ call' = [call EXCEPT ![p] = "none"] /\ to' = [to EXCEPT ![p] = <<>>]
  /\ old' = [old EXCEPT ![p] = None]
Return(p) == Goto(p, "idle") /\ Blank(p) /\ UNCHANGED <<put, after>>

\* iput of inode i, and then on to point; the last thing a call does is iput.
Put(p, i, point) ==
  /\ Goto(p, "put")
  /\ put' = [put EXCEPT ![p] = i] /\ after' = [after EXCEPT ![p] = point]
LastPut(p, i) == Put(p, i, "idle") /\ Blank(p)

Lookup(d, n) == IF n = ".." THEN dotdot[d] ELSE entries[d][n]

----------------------------------------------------------------------------
(* fs.c: ilock, iget, iput *)

\* ilock finds the lock free, and a type; the inode is read unless it is valid.
Loaded(i) == IF valid[i] THEN ctype[i] ELSE type[i]
CanLock(i) == holder[i] = Nobody /\ Loaded(i) # "free"
Load(i) ==
  /\ CanLock(i)
  /\ valid' = [valid EXCEPT ![i] = TRUE]
  /\ ctype' = [ctype EXCEPT ![i] = Loaded(i)]

Iget(i) == ref' = [ref EXCEPT ![i] = @ + 1]

\* The last reference to an inode without links; mutant: others may refer to it.
UnlinkedInUse(i) == valid[i] /\ nlink[i] = 0
Unlinked(i) == valid[i] /\ nlink[i] = 0 /\ ref[i] = 1

PutCheck(p) ==
  LET i == put[p] IN
  /\ At(p, "put") /\ holder[i] = Nobody
  /\ IF Unlinked(i)
     THEN Goto(p, "trunc") /\ holder' = [holder EXCEPT ![i] = p]
     ELSE Goto(p, "drop") /\ UNCHANGED holder
  /\ UNCHANGED <<onDisk, ref, valid, ctype, files, cwd, locals, panicked>>

\* itrunc; ip->type = 0; iupdate
PutTrunc(p) ==
  LET i == put[p] IN
  /\ At(p, "trunc")
  /\ type' = [type EXCEPT ![i] = "free"]
  /\ ctype' = [ctype EXCEPT ![i] = "free"]
  /\ entries' = [entries EXCEPT ![i] = NoEntries]
  /\ dotdot' = [dotdot EXCEPT ![i] = ROOTINO]
  /\ Goto(p, "inval")
  /\ UNCHANGED <<nlink, ref, valid, holder, files, cwd, locals, panicked>>

PutInvalid(p) ==
  LET i == put[p] IN
  /\ At(p, "inval")
  /\ valid' = [valid EXCEPT ![i] = FALSE]
  /\ holder' = [holder EXCEPT ![i] = Nobody]
  /\ Goto(p, "drop")
  /\ UNCHANGED <<onDisk, ref, ctype, files, cwd, locals, panicked>>

\* An entry nobody refers to is not valid: the next iget recycles it.
PutDrop(p) ==
  /\ At(p, "drop")
  /\ ref' = [ref EXCEPT ![put[p]] = @ - 1]
  /\ valid' = [valid EXCEPT ![put[p]] = @ /\ ref[put[p]] > 1]
  /\ Goto(p, after[p])
  /\ put' = [put EXCEPT ![p] = None] /\ after' = [after EXCEPT ![p] = "idle"]
  /\ UNCHANGED <<onDisk, ctype, holder, files, cwd, args, panicked>>

----------------------------------------------------------------------------
(* namex *)

\* iget of the root, or idup of the current directory.
Walk(p, s, w) ==
  /\ s \in {ROOTINO, cwd[p]}
  /\ Iget(s)
  /\ cur' = [cur EXCEPT ![p] = s] /\ path' = [path EXCEPT ![p] = w]
  /\ Goto(p, "walk")

Begin(p, c) ==
  /\ At(p, "idle")
  /\ \E s \in Inums, w, t \in Paths :
       /\ Walk(p, s, w)
       /\ to' = [to EXCEPT ![p] = IF c = "link" THEN t ELSE <<>>]
  /\ call' = [call EXCEPT ![p] = c]
  /\ UNCHANGED <<onDisk, valid, ctype, holder, files, cwd, old, put, after,
                 panicked>>

SecondPath(p) == call[p] = "link" /\ old[p] # None
ForParent(p) == call[p] \in {"create", "mkdir", "unlink"} \/ SecondPath(p)

\* iput(d), and then the call fails: link has a count to take back.
Fail(p, d) ==
  IF SecondPath(p) THEN Put(p, d, "bad") /\ Walked(p) /\ UNCHANGED <<call, to, old>>
  ELSE LastPut(p, d)

\* One turn of the loop of namex.
Step(p) ==
  LET d == cur[p] n == Head(path[p]) IN
  /\ At(p, "walk") /\ Load(d)
  /\ \/ /\ Loaded(d) = "dir" /\ ForParent(p) /\ Len(path[p]) = 1
        /\ Goto(p, "parent")
        /\ UNCHANGED <<ref, args, put, after>>
     \/ /\ Loaded(d) = "dir" /\ ~(ForParent(p) /\ Len(path[p]) = 1)
        /\ Lookup(d, n) # None
        /\ Iget(Lookup(d, n))
        /\ cur' = [cur EXCEPT ![p] = Lookup(d, n)]
        /\ path' = [path EXCEPT ![p] = Tail(@)]
        /\ Put(p, d, IF Len(path[p]) = 1 THEN "found" ELSE "walk")
        /\ UNCHANGED <<call, to, old>>
     \/ /\ \/ Loaded(d) # "dir"
           \/ ~(ForParent(p) /\ Len(path[p]) = 1) /\ (Lookup(d, n) = None)
        /\ Fail(p, d) /\ UNCHANGED ref
  /\ UNCHANGED <<onDisk, holder, files, cwd, panicked>>

----------------------------------------------------------------------------
(* file.c, sys_open, sys_close, sys_chdir *)

CanOpen(p) == fd[p] = NoFile /\ \E f \in Files : fref[f] = 0

\* filealloc and fdalloc: the file takes over the reference to inode i.
Opened(p, i) ==
  /\ \E f \in Files :
       /\ fref[f] = 0
       /\ fref' = [fref EXCEPT ![f] = 1] /\ fip' = [fip EXCEPT ![f] = i]
       /\ fd' = [fd EXCEPT ![p] = f]
  /\ fd[p] = NoFile
  /\ Return(p)

\* ilock of the inode namei, or create, has found.
Open(p) ==
  LET i == cur[p] IN
  /\ At(p, "found") /\ call[p] \in {"open", "create", "mkdir"} /\ Load(i)
  /\ \/ /\ call[p] = "open" \/ (call[p] = "create" /\ Loaded(i) = "file")
        /\ Opened(p, i)
     \/ /\ Loaded(i) = "dir" \/ call[p] = "mkdir" \/ ~CanOpen(p)
        /\ LastPut(p, i) /\ UNCHANGED files
  /\ UNCHANGED <<onDisk, ref, holder, cwd, panicked>>

\* iput(curproc->cwd); mutant: after curproc->cwd = ip.
NewCwd(p, i) == i
OldCwd(p, i) == cwd[p]

Chdir(p) ==
  LET i == cur[p] IN
  /\ At(p, "found") /\ call[p] = "chdir" /\ Load(i)
  /\ IF Loaded(i) = "dir"
     THEN cwd' = [cwd EXCEPT ![p] = i] /\ LastPut(p, OldCwd(p, i))
     ELSE LastPut(p, i) /\ UNCHANGED cwd
  /\ UNCHANGED <<onDisk, ref, holder, files, panicked>>

\* The last close puts the inode.
LastRef(f) == fref[f] = 1

Close(p) ==
  LET f == fd[p] IN
  /\ At(p, "idle") /\ f # NoFile
  /\ fd' = [fd EXCEPT ![p] = NoFile]
  /\ fref' = [fref EXCEPT ![f] = @ - 1]
  /\ IF LastRef(f)
     THEN fip' = [fip EXCEPT ![f] = None] /\ Put(p, fip[f], "idle")
     ELSE UNCHANGED <<fip, pc, put, after>>
  /\ UNCHANGED <<onDisk, cache, cwd, args, panicked>>

\* fork: a process gets the open file of its parent.
Filedup(p, q) ==
  /\ At(p, "idle") /\ At(q, "idle") /\ fd[p] # NoFile /\ fd[q] = NoFile
  /\ fd' = [fd EXCEPT ![q] = fd[p]]
  /\ fref' = [fref EXCEPT ![fd[p]] = @ + 1]
  /\ UNCHANGED <<onDisk, cache, fip, cwd, pc, locals, panicked>>

----------------------------------------------------------------------------
(* create *)

Name(p) == Head(path[p])

\* The parent is locked by p while it goes on.
HoldParent(p, d) == holder' = [holder EXCEPT ![d] = p]

CreateExists(p) ==
  LET d == cur[p] i == Lookup(d, Name(p)) IN
  /\ At(p, "parent") /\ call[p] \in {"create", "mkdir"} /\ Load(d)
  /\ i # None
  /\ Iget(i)
  /\ cur' = [cur EXCEPT ![p] = i]
  /\ Put(p, d, "found")
  /\ UNCHANGED <<onDisk, holder, files, cwd, call, path, to, old, panicked>>

\* ialloc marks the first free inode on disk ...
CreateAlloc(p) ==
  LET d == cur[p] k == IF call[p] = "mkdir" THEN "dir" ELSE "file" IN
  /\ At(p, "parent") /\ call[p] \in {"create", "mkdir"} /\ Load(d)
  /\ Lookup(d, Name(p)) = None
  /\ IF \A i \in Inums : type[i] # "free"
     THEN panicked' = TRUE /\ UNCHANGED <<type, nlink, holder, pc, old>>
     ELSE /\ \E i \in Inums :
               /\ type[i] = "free" /\ \A j \in 1..i - 1 : type[j] # "free"
               /\ type' = [type EXCEPT ![i] = k]
               /\ nlink' = [nlink EXCEPT ![i] = 0]
               /\ old' = [old EXCEPT ![p] = i]
          /\ HoldParent(p, d) /\ Goto(p, "iget") /\ UNCHANGED panicked
  /\ UNCHANGED <<entries, dotdot, ref, files, cwd, call, path, to, cur, put,
                 after>>

\* ... and gets it.
CreateGet(p) ==
  /\ At(p, "iget") /\ Iget(old[p]) /\ Goto(p, "new")
  /\ UNCHANGED <<onDisk, valid, ctype, holder, files, cwd, locals, panicked>>

\* The new inode is locked and named; iunlockput(dp) follows, the lock kept.
CreateLink(p) ==
  LET d == cur[p] i == old[p] dir == call[p] = "mkdir" IN
  /\ At(p, "new") /\ Load(i)
  /\ nlink' = [nlink EXCEPT ![i] = 1, ![d] = @ + IF dir THEN 1 ELSE 0]
  /\ dotdot' = IF dir THEN [dotdot EXCEPT ![i] = d] ELSE dotdot
  /\ entries' = [entries EXCEPT ![d][Name(p)] = i]
  /\ holder' = [holder EXCEPT ![i] = p, ![d] = Nobody]
  /\ Put(p, d, "made") /\ Walked(p)
  /\ UNCHANGED <<type, ref, files, cwd, call, to, old, panicked>>

CreateDone(p) ==
  LET i == old[p] IN
  /\ At(p, "made")
  /\ holder' = [holder EXCEPT ![i] = Nobody]
  /\ \/ call[p] = "create" /\ Opened(p, i)
     \/ /\ call[p] = "mkdir" \/ ~CanOpen(p)
        /\ LastPut(p, i) /\ UNCHANGED files
  /\ UNCHANGED <<onDisk, ref, valid, ctype, cwd, panicked>>

----------------------------------------------------------------------------
(* sys_unlink *)

UnlinkFails(p) ==
  LET d == cur[p] IN
  /\ At(p, "parent") /\ call[p] = "unlink" /\ Load(d)
  /\ (Name(p) = ".." \/ Lookup(d, Name(p)) = None)
  /\ LastPut(p, d)
  /\ UNCHANGED <<onDisk, ref, holder, files, cwd, panicked>>

UnlinkFind(p) ==
  LET d == cur[p] i == Lookup(d, Name(p)) IN
  /\ At(p, "parent") /\ call[p] = "unlink" /\ Load(d)
  /\ Name(p) # ".." /\ i # None
  /\ Iget(i)
  /\ old' = [old EXCEPT ![p] = i]
  /\ HoldParent(p, d) /\ Goto(p, "victim")
  /\ UNCHANGED <<onDisk, files, cwd, call, path, to, cur, put, after, panicked>>

\* isdirempty
Removable(i) == entries[i] = NoEntries

\* The victim is locked too: a directory with entries stays ...
UnlinkKeep(p) ==
  LET i == old[p] IN
  /\ At(p, "victim") /\ Load(i) /\ nlink[i] >= 1
  /\ Loaded(i) = "dir" /\ ~Removable(i)
  /\ Put(p, i, "release")
  /\ UNCHANGED <<onDisk, ref, holder, files, cwd, args, panicked>>

\* ... everything else loses its entry, and iunlockput(dp) follows.
UnlinkEntry(p) ==
  LET d == cur[p] i == old[p] dir == Loaded(i) = "dir" IN
  /\ At(p, "victim") /\ Load(i) /\ nlink[i] >= 1
  /\ dir => Removable(i) /\ (RemoveInUse \/ ref[i] = 1)
  /\ entries' = [entries EXCEPT ![d][Name(p)] = None]
  /\ nlink' = [nlink EXCEPT ![d] = @ - IF dir THEN 1 ELSE 0]
  /\ holder' = [holder EXCEPT ![i] = p, ![d] = Nobody]
  /\ Put(p, d, "unnamed") /\ Walked(p)
  /\ UNCHANGED <<type, dotdot, ref, files, cwd, call, to, old, panicked>>

UnlinkDone(p) ==
  LET i == old[p] IN
  /\ At(p, "unnamed")
  /\ nlink' = [nlink EXCEPT ![i] = @ - 1]
  /\ holder' = [holder EXCEPT ![i] = Nobody]
  /\ LastPut(p, i)
  /\ UNCHANGED <<type, entries, dotdot, ref, valid, ctype, files, cwd, panicked>>

\* iunlockput(dp) of a call that failed.
Release(p) ==
  LET d == cur[p] IN
  /\ At(p, "release")
  /\ holder' = [holder EXCEPT ![d] = Nobody]
  /\ Fail(p, d)
  /\ UNCHANGED <<onDisk, ref, valid, ctype, files, cwd, panicked>>

----------------------------------------------------------------------------
(* sys_link *)

\* The link is counted before it is made.
LinkCount(p) ==
  LET i == cur[p] IN
  /\ At(p, "found") /\ call[p] = "link" /\ Load(i)
  /\ IF Loaded(i) = "dir"
     THEN LastPut(p, i) /\ UNCHANGED <<nlink, ref>>
     ELSE /\ nlink' = [nlink EXCEPT ![i] = @ + 1]
          /\ old' = [old EXCEPT ![p] = i]
          /\ \E s \in Inums : Walk(p, s, to[p])
          /\ to' = [to EXCEPT ![p] = <<>>]
          /\ UNCHANGED <<call, put, after>>
  /\ UNCHANGED <<type, entries, dotdot, holder, files, cwd, panicked>>

\* dirlink
LinkEntry(p) ==
  LET d == cur[p] i == Lookup(d, Name(p)) IN
  /\ At(p, "parent") /\ call[p] = "link" /\ Load(d)
  /\ IF i = None
     THEN /\ entries' = [entries EXCEPT ![d][Name(p)] = old[p]]
          /\ Put(p, d, "linked") /\ Walked(p)
          /\ UNCHANGED <<ref, holder, call, to, old>>
     ELSE /\ Iget(i) /\ HoldParent(p, d) /\ Put(p, i, "release")
          /\ UNCHANGED <<entries, args>>
  /\ UNCHANGED <<type, nlink, dotdot, files, cwd, panicked>>

LinkDone(p) ==
  /\ At(p, "linked") /\ LastPut(p, old[p])
  /\ UNCHANGED <<onDisk, cache, files, cwd, panicked>>

\* bad: the count is taken back; mutant: it is not.
KeptCount(i) == nlink
TakenBack(i) == [nlink EXCEPT ![i] = @ - 1]

LinkBad(p) ==
  LET i == old[p] IN
  /\ At(p, "bad") /\ Load(i)
  /\ nlink' = TakenBack(i)
  /\ LastPut(p, i)
  /\ UNCHANGED <<type, entries, dotdot, ref, holder, files, cwd, panicked>>

----------------------------------------------------------------------------
Next == \E p \in Procs :
  \/ \E c \in {"open", "create", "mkdir", "unlink", "link", "chdir"} : Begin(p, c)
  \/ PutCheck(p) \/ PutTrunc(p) \/ PutInvalid(p) \/ PutDrop(p)
  \/ Step(p) \/ Open(p) \/ Chdir(p) \/ Close(p)
  \/ \E q \in Procs : Filedup(p, q)
  \/ CreateExists(p) \/ CreateAlloc(p) \/ CreateGet(p) \/ CreateLink(p)
  \/ CreateDone(p)
  \/ UnlinkFails(p) \/ UnlinkFind(p) \/ UnlinkKeep(p) \/ UnlinkEntry(p)
  \/ UnlinkDone(p) \/ Release(p)
  \/ LinkCount(p) \/ LinkEntry(p) \/ LinkDone(p) \/ LinkBad(p)

Spec == Init /\ [][Next]_vars

----------------------------------------------------------------------------
(* Properties *)

Points == {"idle", "walk", "found", "parent", "put", "trunc", "inval", "drop",
           "iget", "new", "made", "victim", "unnamed", "release", "linked",
           "bad"}

TypeOK ==
  /\ type \in [Inums -> Types] /\ ctype \in [Inums -> Types]
  /\ nlink \in [Inums -> Nat] /\ ref \in [Inums -> Nat]
  /\ entries \in [Inums -> [Names -> Inums \cup {None}]]
  /\ dotdot \in [Inums -> Inums]
  /\ valid \in [Inums -> BOOLEAN]
  /\ holder \in [Inums -> Procs \cup {Nobody}]
  /\ fref \in [Files -> Nat] /\ fip \in [Files -> Inums \cup {None}]
  /\ fd \in [Procs -> Files \cup {NoFile}]
  /\ cwd \in [Procs -> Inums]
  /\ pc \in [Procs -> Points] /\ after \in [Procs -> Points]
  /\ put \in [Procs -> Inums \cup {None}]

\* The references a process holds in the middle of a call: what iput is about,
\* what namex or the call is at, and what the call has put aside.
HoldsPut(p) == pc[p] \in {"put", "trunc", "inval", "drop"}
Stage(p) == IF HoldsPut(p) THEN after[p] ELSE pc[p]
HoldsCur(p) == Stage(p) \in {"walk", "found", "parent", "iget", "new", "victim",
                             "release"}
HoldsOld(p) ==
  /\ old[p] # None
  /\ \/ call[p] = "link" /\ Stage(p) # "idle"
     \/ Stage(p) \in {"new", "made", "victim", "unnamed"}

RefsTo(i) ==
  Cardinality({p \in Procs : cwd[p] = i})
  + Cardinality({f \in Files : fref[f] > 0 /\ fip[f] = i})
  + Cardinality({p \in Procs : HoldsPut(p) /\ put[p] = i})
  + Cardinality({p \in Procs : HoldsCur(p) /\ cur[p] = i})
  + Cardinality({p \in Procs : HoldsOld(p) /\ old[p] = i})

\* ip->ref is the number of pointers to the inode: current directories, open
\* files and local variables of calls in progress, whichever way a call fails
\* (fs.c's "ip->ref tracks the number of in-memory pointers to the entry").
RefsRight == TypeOK /\ \A i \in Inums : ref[i] = RefsTo(i)

\* What a call has counted and not yet entered, or removed and not yet
\* uncounted.
Uncounted(i) ==
  Cardinality({p \in Procs : /\ call[p] = "link" /\ old[p] = i
                             /\ Stage(p) \in {"walk", "parent", "release", "bad"}})
  + Cardinality({p \in Procs : old[p] = i /\ Stage(p) = "unnamed"})

NamesOf(i) == {e \in Inums \X Names : entries[e[1]][e[2]] = i}
Children(i) == {j \in Inums \ {ROOTINO} :
                  type[j] = "dir" /\ NamesOf(j) # {} /\ dotdot[j] = i}

\* nlink is the number of directory entries that name the inode, ".." of its
\* subdirectories included, but for calls that are in the middle of one: so a
\* link that fails takes its count back, and no count outlives its name.
LinksRight ==
  \A i \in Inums \ {ROOTINO} :
    type[i] # "free" =>
      nlink[i] = Cardinality(NamesOf(i)) + Uncounted(i)
                 + IF type[i] = "dir" THEN Cardinality(Children(i)) ELSE 0

\* What has a name or is referred to is allocated, but while iput frees it: so
\* no lookup reaches ilock's panic "no type", no directory entry names a freed
\* inode, and unlink finds a link to take away.
BeingFreed(i) == \E p \in Procs : put[p] = i /\ pc[p] \in {"inval", "drop"}
NothingDangles ==
  /\ \A i \in Inums :
       /\ NamesOf(i) # {} => type[i] # "free"
       /\ ref[i] > 0 => (type[i] # "free" \/ BeingFreed(i))
       /\ (valid[i] /\ ~BeingFreed(i)) => ctype[i] = type[i]
  /\ \A p \in Procs :
       (pc[p] = "victim" /\ holder[old[p]] = Nobody) => nlink[old[p]] >= 1

\* What the code does not guarantee, although "iput() frees if the reference
\* and link counts have fallen to zero": that no inode stays allocated with
\* neither, but for an ialloc in progress (see README.md).
Reclaimed ==
  \A i \in Inums :
    (type[i] # "free" /\ ref[i] = 0 /\ nlink[i] = 0) =>
      \E p \in Procs : pc[p] = "iget" /\ old[p] = i

\* No two processes wait for each other's lock: "The separation also helps
\* avoid deadlock".
Wants(p) == IF pc[p] = "put" THEN put[p]
            ELSE IF pc[p] \in {"walk", "found", "parent"} THEN cur[p]
            ELSE IF pc[p] \in {"new", "victim", "bad"} THEN old[p] ELSE None
NoDeadlock ==
  \A p, q \in Procs :
    Wants(p) # None /\ Wants(q) # None
      => ~(holder[Wants(p)] = q /\ holder[Wants(q)] = p)
============================================================================
