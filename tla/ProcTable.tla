----------------------------- MODULE ProcTable -----------------------------
(***************************************************************************)
(* The process table of project 3: fork, exit, wait, kill and the threads, *)
(* which are slots that share the pid and the page table of their creator. *)
(*                                                                         *)
(* A section under ptable.lock is one step, up to the sleep that ends it.  *)
(* What fork and thread_create do between their two sections is not under  *)
(* the lock; it writes the EMBRYO slot only and is one step as well.       *)
(* RUNNABLE and RUNNING are one state here, module SleepLock has the       *)
(* scheduler.  wait and thread_join sleep on the caller's own slot.        *)
(* Fields the code writes before it reads them (pgdir and parent of an     *)
(* UNUSED slot) are reset when the slot becomes UNUSED.                    *)
(***************************************************************************)
EXTENDS Integers, FiniteSets

CONSTANTS NSlots,       \* NPROC
          MaxPid,       \* bound on nextpid
          MaxPgdirs,    \* page tables there is memory for
          MaxThreads    \* 7: tcnt that refuses another thread

ASSUME ProcAssumption ==
  /\ NSlots \in Nat \ {0} /\ MaxPid \in Nat \ {0} /\ MaxPgdirs \in Nat \ {0}
  /\ MaxThreads \in Nat \ {0}

Slots  == 1..NSlots
Pgdirs == 1..MaxPgdirs
initproc == 1

VARIABLES
  state, pid, parent, killed, tid, tcnt, pgdir,   \* struct proc
  nextpid,
  live,       \* page tables that are allocated
  pc,         \* user, build, publish, wait, join
  np,         \* the slot a creator builds
  kind,       \* fork or thread: what it builds
  want,       \* the tid thread_join looks for
  threaded    \* whether the programs use threads at all; never changes

threads == <<tid, tcnt>>
locals  == <<np, kind, want>>
vars == <<state, pid, parent, killed, threads, pgdir, nextpid, live, pc, locals,
          threaded>>

\* userinit
Init ==
  /\ state = [s \in Slots |-> IF s = initproc THEN "RUNNABLE" ELSE "UNUSED"]
  /\ pid = [s \in Slots |-> IF s = initproc THEN 1 ELSE 0]
  /\ parent = [s \in Slots |-> 0]
  /\ killed = [s \in Slots |-> FALSE]
  /\ tid = [s \in Slots |-> 0]
  /\ tcnt = [s \in Slots |-> 0]
  /\ pgdir = [s \in Slots |-> IF s = initproc THEN 1 ELSE 0]
  /\ nextpid = 2
  /\ live = {1}
  /\ pc = [s \in Slots |-> "user"]
  /\ np = [s \in Slots |-> s]
  /\ kind = [s \in Slots |-> "fork"]
  /\ want = [s \in Slots |-> 0]
  /\ threaded \in BOOLEAN

\* The slot a scan of the table meets first, among those of S.
First(S) == {s \in S : \A t \in S : s <= t}

At(s, point) == state[s] = "RUNNABLE" /\ pc[s] = point
Goto(s, point) == pc' = [pc EXCEPT ![s] = point]

\* trap lets a killed process make no further system call.
Calls(s) == At(s, "user") /\ ~killed[s]

----------------------------------------------------------------------------
(* fork and thread_create *)

Unused == {s \in Slots : state[s] = "UNUSED"}

\* allocproc's scan; killed and tid keep what the slot's last user left.
Alloc(s, k) ==
  /\ nextpid <= MaxPid
  /\ \E n \in First(Unused) :
       /\ state' = [state EXCEPT ![n] = "EMBRYO"]
       /\ pid' = [pid EXCEPT ![n] = nextpid]
       /\ np' = [np EXCEPT ![s] = n]
  /\ nextpid' = nextpid + 1
  /\ kind' = [kind EXCEPT ![s] = k]
  /\ Goto(s, "build")
  /\ UNCHANGED <<parent, killed, threads, pgdir, live, want>>

CallFork(s) == Calls(s) /\ Alloc(s, "fork")

\* Eight threads at most.
RoomForThread(s) == tcnt[s] # MaxThreads

CallThreadCreate(s) ==
  /\ threaded /\ s # initproc      \* init.c has one thread
  /\ Calls(s) /\ RoomForThread(s) /\ Alloc(s, "thread")

\* No memory for the stack or the page table: the slot is UNUSED again, its
\* pid stays.
BuildFails(s) ==
  /\ At(s, "build")
  /\ state' = [state EXCEPT ![np[s]] = "UNUSED"]
  /\ np' = [np EXCEPT ![s] = s] /\ kind' = [kind EXCEPT ![s] = "fork"]
  /\ Goto(s, "user")
  /\ UNCHANGED <<pid, parent, killed, threads, pgdir, nextpid, live, want>>

\* The fields of the new slot n, once copyuvm has built page table d.  A thread
\* gets its creator's page table instead of the copy, and its pid.
ForkFields(s, n, d) ==
  /\ kind[s] = "fork"
  /\ pgdir' = [pgdir EXCEPT ![n] = d]
  /\ tcnt' = [tcnt EXCEPT ![n] = 0]
  /\ UNCHANGED <<pid, tid>>

ThreadFields(s, n) ==
  /\ kind[s] = "thread"
  /\ pgdir' = [pgdir EXCEPT ![n] = pgdir[s]]
  /\ pid' = [pid EXCEPT ![n] = pid[s]]
  /\ tcnt' = [tcnt EXCEPT ![n] = tcnt[s] + 1, ![s] = @ + 1]
  /\ tid' = [tid EXCEPT ![n] = tcnt[s] + 1]

Build(s) ==
  /\ At(s, "build")
  /\ \E d \in First(Pgdirs \ live) :
       /\ live' = live \cup {d}
       /\ ForkFields(s, np[s], d) \/ ThreadFields(s, np[s])
  /\ parent' = [parent EXCEPT ![np[s]] = s]
  /\ Goto(s, "publish")
  /\ UNCHANGED <<state, killed, nextpid, locals>>

Publish(s) ==
  /\ At(s, "publish")
  /\ state' = [state EXCEPT ![np[s]] = "RUNNABLE"]
  /\ np' = [np EXCEPT ![s] = s] /\ kind' = [kind EXCEPT ![s] = "fork"]
  /\ Goto(s, "user")
  /\ UNCHANGED <<pid, parent, killed, threads, pgdir, nextpid, live, want>>

----------------------------------------------------------------------------
(* exit and thread_exit *)

Children(s) == {q \in Slots : parent[q] = s}

\* Who is woken: the parent, and init when it inherits a zombie; mutants: the
\* parent only, init only.
WokenParent(s) == {parent[s]}
WokenInit(s) == {initproc}
WokenByExit(s) ==
  {parent[s]} \cup
  IF \E q \in Children(s) : state[q] = "ZOMBIE" THEN {initproc} ELSE {}

\* The children go to init; mutant: those that have exited already do not.
HandedLive(s) ==
  [q \in Slots |-> IF parent[q] = s /\ state[q] # "ZOMBIE"
                   THEN initproc ELSE parent[q]]
Handed(s) == [q \in Slots |-> IF parent[q] = s THEN initproc ELSE parent[q]]

Exit(s) ==
  /\ At(s, "user") /\ s # initproc
  /\ state' = [q \in Slots |->
                 IF q = s THEN "ZOMBIE"
                 ELSE IF q \in WokenByExit(s) /\ state[q] = "SLEEPING"
                 THEN "RUNNABLE" ELSE state[q]]
  /\ parent' = Handed(s)
  /\ UNCHANGED <<pid, killed, threads, pgdir, nextpid, live, pc, locals>>

----------------------------------------------------------------------------
(* wait and thread_join *)

\* The slot is reset, but for its tid.
Reset(q) ==
  /\ pid' = [pid EXCEPT ![q] = 0]
  /\ parent' = [parent EXCEPT ![q] = 0]
  /\ killed' = [killed EXCEPT ![q] = FALSE]
  /\ pgdir' = [pgdir EXCEPT ![q] = 0]

Sleep(s, point, t) ==
  /\ state' = [state EXCEPT ![s] = "SLEEPING"]
  /\ Goto(s, point)
  /\ want' = [want EXCEPT ![s] = t]
  /\ UNCHANGED <<pid, parent, killed, threads, pgdir, nextpid, live, np, kind>>

Return(s) == Goto(s, "user") /\ want' = [want EXCEPT ![s] = 0]

ReturnError(s) ==
  /\ Return(s)
  /\ UNCHANGED <<state, pid, parent, killed, threads, pgdir, nextpid, live, np, kind>>

Zombies(S) == {q \in S : state[q] = "ZOMBIE"}

\* The first scan of a call, or the one after a sleep.  A kill may come
\* between trap's check and the first scan.
InWait(s) == At(s, "user") \/ At(s, "wait")

\* freevm(p->pgdir); mutant: the page table is not freed.
NotFreed(q) == live
FreedPgdir(q) == live \ {pgdir[q]}

\* Whom wait reaps.
Reapable(s) == Zombies(Children(s))

WaitReap(s) ==
  /\ InWait(s)
  /\ \E q \in First(Reapable(s)) :
       /\ Reset(q)
       /\ state' = [state EXCEPT ![q] = "UNUSED"]
       /\ live' = FreedPgdir(q)
  /\ Return(s)
  /\ UNCHANGED <<threads, nextpid, np, kind>>

WaitSleep(s) ==
  /\ InWait(s) /\ Reapable(s) = {}
  /\ Children(s) # {} /\ ~killed[s] /\ Sleep(s, "wait", 0)

WaitFails(s) ==
  /\ InWait(s) /\ Reapable(s) = {}
  /\ Children(s) = {} \/ killed[s]
  /\ ReturnError(s)

InJoin(s, t) ==
  /\ threaded /\ s # initproc
  /\ \/ At(s, "user")
     \/ At(s, "join") /\ want[s] = t

Threads(s, t) == {q \in Slots : pid[q] = pid[s] /\ tid[q] = t}

JoinReap(s, t) ==
  /\ InJoin(s, t)
  /\ \E q \in First(Zombies(Threads(s, t))) :
       /\ Reset(q)
       /\ state' = [state EXCEPT ![q] = "UNUSED"]
  /\ tcnt' = [tcnt EXCEPT ![s] = @ - 1]
  /\ Return(s)
  /\ UNCHANGED <<tid, nextpid, live, np, kind>>

JoinSleep(s, t) ==
  /\ InJoin(s, t) /\ Zombies(Threads(s, t)) = {}
  /\ Threads(s, t) # {} /\ ~killed[s] /\ Sleep(s, "join", t)

JoinFails(s, t) ==
  /\ InJoin(s, t) /\ Zombies(Threads(s, t)) = {}
  /\ Threads(s, t) = {} \/ killed[s]
  /\ ReturnError(s)

\* kill: the first slot with the pid, whatever its state.  No program kills
\* init.
Kill(s, k) ==
  /\ Calls(s) /\ k # pid[initproc]
  /\ \E q \in First({r \in Slots : pid[r] = k}) :
       /\ killed' = [killed EXCEPT ![q] = TRUE]
       /\ state' = [state EXCEPT ![q] =
                      IF @ = "SLEEPING" THEN "RUNNABLE" ELSE @]
  /\ UNCHANGED <<pid, parent, threads, pgdir, nextpid, live, pc, locals>>

Step(s) ==
  \/ CallFork(s) \/ CallThreadCreate(s) \/ BuildFails(s) \/ Build(s)
  \/ Publish(s) \/ Exit(s)
  \/ WaitReap(s) \/ WaitSleep(s) \/ WaitFails(s)
  \/ \E t \in 0..MaxThreads : JoinReap(s, t) \/ JoinSleep(s, t) \/ JoinFails(s, t)
  \/ \E k \in 0..MaxPid : Kill(s, k)

Next == (\E s \in Slots : Step(s)) /\ UNCHANGED threaded

Spec == Init /\ [][Next]_vars

----------------------------------------------------------------------------
(* Properties *)

States == {"UNUSED", "EMBRYO", "SLEEPING", "RUNNABLE", "ZOMBIE"}
Alive == {"SLEEPING", "RUNNABLE"}

TypeOK ==
  /\ state \in [Slots -> States]
  /\ pid \in [Slots -> 0..MaxPid]
  /\ parent \in [Slots -> 0..NSlots]
  /\ killed \in [Slots -> BOOLEAN]
  /\ tid \in [Slots -> Int] /\ tcnt \in [Slots -> Int]
  /\ \A s \in Slots : tid[s] <= MaxThreads /\ tcnt[s] <= MaxThreads
  /\ pgdir \in [Slots -> 0..MaxPgdirs]
  /\ nextpid \in 1..MaxPid + 1
  /\ live \subseteq Pgdirs
  /\ pc \in [Slots -> {"user", "build", "publish", "wait", "join"}]
  /\ np \in [Slots -> Slots]
  /\ kind \in [Slots -> {"fork", "thread"}]
  /\ want \in [Slots -> 0..MaxThreads]
  /\ threaded \in BOOLEAN

\* The parent of a process that runs, sleeps or waits to be reaped is itself
\* alive: nobody stays a zombie for want of somebody to reap it, whatever the
\* order in which parents and children exit (exit's "Pass abandoned children
\* to init").
ParentAlive ==
  \A s \in Slots \ {initproc} :
    state[s] \in Alive \cup {"ZOMBIE"} =>
      parent[s] # 0 /\ state[parent[s]] \in Alive

\* No process sleeps in wait while a child of its is a zombie.
WaiterAwake ==
  \A s \in Slots : pc[s] = "wait" /\ state[s] = "SLEEPING" => Reapable(s) = {}

\* A creator does not sleep in thread_join once the thread it joins has exited,
\* although others may join the thread, reap it, or inherit it.
CreatorAwake ==
  \A s \in Slots :
    pc[s] = "join" /\ state[s] = "SLEEPING"
      => Zombies(Threads(s, want[s])) \cap Children(s) = {}

\* Without threads, every page table that is allocated belongs to some process,
\* and nobody runs on one that has been freed.  With threads neither holds:
\* thread_create loses the copy, wait frees what siblings run on.
PgdirsRight ==
  ~threaded =>
    /\ \A d \in live : \E s \in Slots : pgdir[s] = d
    /\ \A s \in Slots : state[s] \in Alive => pgdir[s] \in live

\* Without threads, fork, exit and wait keep the tree of processes of
\* ProcTree, under whatever kills, failures and reuse of slots.
Holder(k) == {s \in Slots : pid[s] = k /\ state[s] # "UNUSED"}
Stage(st) == IF st = "EMBRYO" THEN "new"
             ELSE IF st = "ZOMBIE" THEN "zombie" ELSE "live"
Status(k) == IF k >= nextpid THEN "new" ELSE IF Holder(k) = {} THEN "gone"
             ELSE Stage(state[CHOOSE s \in Holder(k) : TRUE])
Father(k) ==
  LET fs == {parent[s] : s \in {t \in Holder(k) : state[t] # "EMBRYO"}} \ {0}
  IN  IF fs = {} THEN 0 ELSE pid[CHOOSE s \in fs : TRUE]
Tree == INSTANCE ProcTree WITH
  status <- [k \in 1..MaxPid |-> Status(k)],
  father <- [k \in 1..MaxPid |-> Father(k)]
ImplementsProcTree ==
  (threaded \/ Tree!Init) /\ [][threaded \/ Tree!Next]_<<Tree!tree>>
============================================================================
