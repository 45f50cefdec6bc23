-------------------------- MODULE ProcTableProofs --------------------------
(* Proofs about ProcTable, for any number of slots, pids, page tables and  *)
(* threads: its invariants, and that without threads it implements the     *)
(* abstract ProcTree.                                                      *)
EXTENDS ProcTable, TLAPS

USE DEF threads, locals, At, Goto

(***************************************************************************)
(* The inductive core.  A slot that fork or thread_create builds belongs   *)
(* to its creator alone, from allocproc to RUNNABLE: the creator runs, the *)
(* slot is an EMBRYO nobody else reaps, hands on or builds.                *)
(***************************************************************************)
Building(s) == pc[s] \in {"build", "publish"}

Builders ==
  \A s \in Slots : Building(s) =>
    /\ state[s] = "RUNNABLE" /\ state[np[s]] = "EMBRYO"
    /\ \A t \in Slots : Building(t) /\ np[t] = np[s] => t = s
Built ==
  /\ \A s \in Slots : pc[s] = "publish" => parent[np[s]] = s
  /\ \A s \in Slots : pc[s] = "build" =>
       /\ kind[s] = "thread" => tcnt[s] < MaxThreads /\ threaded
       /\ pgdir[np[s]] = 0
  /\ \A s \in Slots : state[s] = "UNUSED" => pgdir[s] = 0
InitLives == state[initproc] \in Alive

Core == TypeOK /\ Builders /\ Built /\ InitLives

\* Case analysis over the steps, used by every proof below.
LEMMA NextCases ==
  ASSUME [Next]_vars
  PROVE  \/ UNCHANGED vars
         \/ threaded' = threaded /\ \E s \in Slots : Step(s)
BY DEF Next

LEMMA SlotFacts ==
  /\ initproc \in Slots /\ Slots \subseteq 0..NSlots /\ 0 \notin Slots
  /\ 0 \in 0..MaxThreads /\ 0 \in 0..MaxPid /\ 0 \in 0..MaxPgdirs /\ 0 \in 0..NSlots
BY ProcAssumption DEF initproc, Slots

LEMMA CoreInit == Init => Core
BY ProcAssumption
   DEF Slots, initproc, Init, Core, TypeOK, Builders, Built, InitLives, Building, States, Pgdirs, Alive

LEMMA TypeStep == Core /\ [Next]_vars => TypeOK'
<1> SUFFICES ASSUME Core, [Next]_vars PROVE TypeOK'
  OBVIOUS
<1> USE DEF Core, TypeOK, States
<1>1. CASE UNCHANGED vars
  BY <1>1 DEF vars
<1>2. ASSUME NEW s \in Slots, threaded' = threaded, Step(s) PROVE TypeOK'
  <2>0. threaded' = threaded
    BY <1>2
  <2>1. ASSUME NEW k \in {"fork", "thread"}, Alloc(s, k) PROVE TypeOK'
    <3>1. nextpid \in 0..MaxPid /\ nextpid + 1 \in 1..MaxPid + 1
      BY <2>1, ProcAssumption DEF Alloc
    <3>2. PICK n \in Slots :
            /\ state' = [state EXCEPT ![n] = "EMBRYO"]
            /\ pid' = [pid EXCEPT ![n] = nextpid]
            /\ np' = [np EXCEPT ![s] = n]
      BY <2>1 DEF Alloc, First, Unused
    <3> QED
      BY <2>0, <2>1, <3>1, <3>2 DEF Alloc
  <2>2. CASE CallFork(s) \/ CallThreadCreate(s)
    BY <2>1, <2>2 DEF CallFork, CallThreadCreate
  <2>3. CASE BuildFails(s)
    BY <2>3, SlotFacts, <2>0 DEF BuildFails
  <2>4. CASE Build(s)
    <3>1. PICK d \in Pgdirs \ live :
            /\ live' = live \cup {d}
            /\ ForkFields(s, np[s], d) \/ ThreadFields(s, np[s])
      BY <2>4 DEF Build, First
    <3>n. np[s] \in Slots /\ d \in 0..MaxPgdirs /\ tcnt[s] \in Int
      BY <3>1 DEF Pgdirs
    <3>2. pgdir' \in [Slots -> 0..MaxPgdirs] /\ pid' \in [Slots -> 0..MaxPid]
      <4>1. CASE ForkFields(s, np[s], d)
        BY <3>n, <4>1 DEF ForkFields
      <4>2. CASE ThreadFields(s, np[s])
        BY <3>n, <4>2 DEF ThreadFields
      <4> QED BY <3>1, <4>1, <4>2
    <3>3. /\ tid' \in [Slots -> Int] /\ tcnt' \in [Slots -> Int]
          /\ \A q \in Slots : tid'[q] <= MaxThreads /\ tcnt'[q] <= MaxThreads
      <4>1. CASE ForkFields(s, np[s], d)
        BY <3>n, <4>1, ProcAssumption DEF ForkFields
      <4>2. CASE ThreadFields(s, np[s])
        <5>1. tcnt[s] < MaxThreads
          BY <2>4, <4>2 DEF Build, Built, ThreadFields
        <5>2. tcnt[s] + 1 \in Int /\ tcnt[s] + 1 <= MaxThreads
          BY <3>n, <5>1, ProcAssumption
        <5>3. tid' = [tid EXCEPT ![np[s]] = tcnt[s] + 1]
          BY <4>2 DEF ThreadFields
        <5>4. np[s] # s
          BY <2>4 DEF Build, Builders, Building
        <5>5. /\ tcnt'[s] = tcnt[s] + 1 /\ tcnt'[np[s]] = tcnt[s] + 1
              /\ \A u \in Slots \ {s, np[s]} : tcnt'[u] = tcnt[u]
          BY <3>n, <4>2, <5>4 DEF ThreadFields
        <5>6. tcnt' \in [Slots -> Int]
          BY <3>n, <4>2 DEF ThreadFields
        <5>7. \A u \in Slots : tcnt'[u] <= MaxThreads
          BY <3>n, <5>2, <5>5
        <5> QED BY <3>n, <5>2, <5>3, <5>6, <5>7
      <4> QED BY <3>1, <4>1, <4>2
    <3> QED
      BY SlotFacts, <2>0, <2>4, <3>1, <3>2, <3>3 DEF Build
  <2>5. CASE Publish(s)
    BY <2>5, SlotFacts, <2>0 DEF Publish
  <2>6. CASE Exit(s)
    <3>1. Handed(s) \in [Slots -> 0..NSlots]
      BY SlotFacts DEF Handed
    <3>2. state' \in [Slots -> States]
      BY <2>6 DEF Exit
    <3> QED BY <2>0, <2>6, <3>1, <3>2 DEF Exit
  <2>r. ASSUME NEW q \in Slots, Reset(q), NEW l, live' = l, l \subseteq Pgdirs,
               state' = [state EXCEPT ![q] = "UNUSED"], Return(s),
               nextpid' = nextpid, np' = np, kind' = kind, tid' = tid,
               tcnt' \in [Slots -> Int],
               \A u \in Slots : tcnt'[u] <= MaxThreads
        PROVE  TypeOK'
    BY SlotFacts, <2>0, <2>r DEF Reset, Return
  <2>7. CASE WaitReap(s)
    <3>1. PICK q \in Slots : /\ Reset(q) /\ live' = FreedPgdir(q)
                             /\ state' = [state EXCEPT ![q] = "UNUSED"]
      BY <2>7 DEF WaitReap, First, Reapable, Zombies, Children
    <3> QED BY <2>7, <2>r, <3>1 DEF WaitReap, FreedPgdir
  <2>8. CASE WaitSleep(s)
    BY <2>8, SlotFacts, <2>0 DEF WaitSleep, Sleep
  <2>9. CASE WaitFails(s)
    BY <2>9, SlotFacts, <2>0 DEF WaitFails, ReturnError, Return
  <2>10. ASSUME NEW t \in 0..MaxThreads, JoinReap(s, t) PROVE TypeOK'
    <3>1. PICK q \in Slots : Reset(q) /\ state' = [state EXCEPT ![q] = "UNUSED"]
      BY <2>10 DEF JoinReap, First, Zombies, Threads
    <3>2. /\ tcnt' \in [Slots -> Int]
          /\ \A u \in Slots : tcnt'[u] <= MaxThreads
      <4>1. tcnt' = [tcnt EXCEPT ![s] = tcnt[s] - 1] /\ tcnt[s] \in Int
        BY <2>10 DEF JoinReap
      <4>2. tcnt[s] - 1 \in Int /\ tcnt[s] - 1 <= MaxThreads
        BY <4>1, ProcAssumption
      <4> QED BY <4>1, <4>2
    <3> QED BY <2>10, <2>r, <3>1, <3>2 DEF JoinReap
  <2>11. ASSUME NEW t \in 0..MaxThreads, JoinSleep(s, t) PROVE TypeOK'
    BY <2>11, SlotFacts, <2>0 DEF JoinSleep, Sleep
  <2>12. ASSUME NEW t \in 0..MaxThreads, JoinFails(s, t) PROVE TypeOK'
    BY <2>12, SlotFacts, <2>0 DEF JoinFails, ReturnError, Return
  <2>13. ASSUME NEW k \in 0..MaxPid, Kill(s, k) PROVE TypeOK'
    BY <2>13, SlotFacts, <2>0 DEF Kill, First
  <2> QED
    BY <1>2, <2>1, <2>2, <2>3, <2>4, <2>5, <2>6, <2>7, <2>8, <2>9, <2>10,
       <2>11, <2>12, <2>13 DEF Step
<1> QED BY <1>1, <1>2, NextCases
----------------------------------------------------------------------------
(* The inductive core is preserved *)

\* A kill, an exit or a reaping disturbs no slot that is being built and no
\* page table of an UNUSED slot.
LEMMA BuildersStep ==
  ASSUME Core, [Next]_vars
  PROVE  Builders' /\ InitLives'
<1> USE SlotFacts DEF Core, Builders, InitLives, Building, Alive
<1>t. TypeOK
  OBVIOUS
<1>1. CASE UNCHANGED vars
  BY <1>1 DEF vars
<1>2. ASSUME NEW s \in Slots, Step(s) PROVE Builders' /\ InitLives'
  <2> USE <1>t DEF TypeOK
  <2>1. ASSUME NEW k, Alloc(s, k), At(s, "user") PROVE Builders' /\ InitLives'
    <3>1. PICK n \in Slots : /\ state[n] = "UNUSED"
                             /\ state' = [state EXCEPT ![n] = "EMBRYO"]
                             /\ np' = [np EXCEPT ![s] = n]
      BY <2>1 DEF Alloc, First, Unused
    <3> QED BY <2>1, <3>1 DEF Alloc
  <2>2. CASE CallFork(s) \/ CallThreadCreate(s)
    BY <2>1, <2>2 DEF CallFork, CallThreadCreate, Calls
  <2>3. CASE BuildFails(s)
    BY <2>3 DEF BuildFails
  <2>4. CASE Build(s)
    BY <2>4 DEF Build
  <2>5. CASE Publish(s)
    BY <2>5 DEF Publish
  <2>6. CASE Exit(s)
    BY <2>6 DEF Exit
  <2>7. ASSUME NEW q \in Slots, state[q] = "ZOMBIE", Return(s),
               state' = [state EXCEPT ![q] = "UNUSED"], np' = np,
               InWait(s) \/ \E t : InJoin(s, t)
        PROVE  Builders' /\ InitLives'
    BY <2>7 DEF Return, InWait, InJoin
  <2>8. CASE WaitReap(s)
    BY <2>7, <2>8 DEF WaitReap, First, Reapable, Zombies, Children
  <2>9. CASE WaitSleep(s)
    BY <2>9 DEF WaitSleep, Sleep, InWait
  <2>10. CASE WaitFails(s)
    BY <2>10 DEF WaitFails, ReturnError, Return, InWait
  <2>11. ASSUME NEW t \in 0..MaxThreads, JoinReap(s, t)
         PROVE  Builders' /\ InitLives'
    BY <2>7, <2>11 DEF JoinReap, First, Zombies, Threads
  <2>12. ASSUME NEW t \in 0..MaxThreads, JoinSleep(s, t)
         PROVE  Builders' /\ InitLives'
    BY <2>12 DEF JoinSleep, Sleep, InJoin
  <2>13. ASSUME NEW t \in 0..MaxThreads, JoinFails(s, t)
         PROVE  Builders' /\ InitLives'
    BY <2>13 DEF JoinFails, ReturnError, Return, InJoin
  <2>14. ASSUME NEW k \in 0..MaxPid, Kill(s, k) PROVE Builders' /\ InitLives'
    BY <2>14 DEF Kill, First
  <2> QED
    BY <1>2, <2>2, <2>3, <2>4, <2>5, <2>6, <2>8, <2>9, <2>10, <2>11, <2>12,
       <2>13, <2>14 DEF Step
<1> QED BY <1>1, <1>2, NextCases
LEMMA BuiltStep ==
  ASSUME Core, [Next]_vars
  PROVE  Built'
<1> USE SlotFacts DEF Core, Built
<1>t. TypeOK /\ Builders
  OBVIOUS
<1>1. CASE UNCHANGED vars
  BY <1>1 DEF vars
<1>2. ASSUME NEW s \in Slots, threaded' = threaded, Step(s) PROVE Built'
  <2> USE <1>t DEF TypeOK, Builders, Building
  <2>0. threaded' = threaded
    BY <1>2
  <2>1. ASSUME NEW k, Alloc(s, k), At(s, "user"),
               k = "thread" => threaded /\ RoomForThread(s)
        PROVE  Built'
    <3>1. PICK n \in Slots : /\ state[n] = "UNUSED"
                             /\ state' = [state EXCEPT ![n] = "EMBRYO"]
                             /\ np' = [np EXCEPT ![s] = n]
      BY <2>1 DEF Alloc, First, Unused
    <3>2. k = "thread" => tcnt[s] < MaxThreads
      BY <2>1, ProcAssumption DEF RoomForThread
    <3>3. /\ pc' = [pc EXCEPT ![s] = "build"]
          /\ kind' = [kind EXCEPT ![s] = k]
          /\ UNCHANGED <<parent, tcnt, pgdir>>
      BY <2>1 DEF Alloc
    <3>4. \A u \in Slots : pc'[u] = "publish" => parent'[np'[u]] = u
      BY <3>1, <3>3
    <3>5. \A u \in Slots : pc'[u] = "build" =>
            (kind'[u] = "thread" => tcnt'[u] < MaxThreads /\ threaded)
      BY <2>1, <3>2, <3>3
    <3>6. \A u \in Slots : pc'[u] = "build" => pgdir'[np'[u]] = 0
      BY <3>1, <3>3
    <3>7. \A u \in Slots : state'[u] = "UNUSED" => pgdir'[u] = 0
      BY <3>1, <3>3
    <3> QED BY <2>0, <3>4, <3>5, <3>6, <3>7
  <2>2. CASE CallFork(s) \/ CallThreadCreate(s)
    BY <2>1, <2>2 DEF CallFork, CallThreadCreate, Calls
  <2>3. CASE BuildFails(s)
    BY <2>0, <2>3 DEF BuildFails
  <2>4. CASE Build(s)
    <3>1. PICK d : ForkFields(s, np[s], d) \/ ThreadFields(s, np[s])
      BY <2>4 DEF Build
    <3>2. /\ parent' = [parent EXCEPT ![np[s]] = s]
          /\ pc' = [pc EXCEPT ![s] = "publish"]
          /\ UNCHANGED <<state, np, kind>>
          /\ pc[s] = "build"
      BY <2>4 DEF Build
    <3>3. \A u \in Slots \ {np[s]} : pgdir'[u] = pgdir[u]
      BY <3>1 DEF ForkFields, ThreadFields
    <3>4. \A u \in Slots \ {s, np[s]} : tcnt'[u] = tcnt[u]
      BY <3>1 DEF ForkFields, ThreadFields
    <3>n. np[s] \in Slots /\ \A u \in Slots \ {s} : Building(u) => np[u] # np[s]
      BY <3>2
    <3>5. \A u \in Slots : pc'[u] = "publish" => parent'[np'[u]] = u
      BY <3>2, <3>n
    <3>6. \A u \in Slots : pc'[u] = "build" =>
            /\ kind'[u] = "thread" => tcnt'[u] < MaxThreads /\ threaded
            /\ pgdir'[np'[u]] = 0
      <4> SUFFICES ASSUME NEW u \in Slots, pc'[u] = "build"
                   PROVE  /\ kind'[u] = "thread" => tcnt'[u] < MaxThreads /\ threaded
                          /\ pgdir'[np'[u]] = 0
        OBVIOUS
      <4>1. pc[u] = "build" /\ u # s
        BY <3>2
      <4>2. u # np[s] /\ np[u] # np[s] /\ np[u] \in Slots
        BY <3>2, <3>n, <4>1
      <4>3. kind'[u] = kind[u] /\ tcnt'[u] = tcnt[u] /\ np'[u] = np[u]
        BY <3>2, <3>4, <4>1, <4>2
      <4>4. pgdir'[np[u]] = pgdir[np[u]]
        BY <3>3, <4>2
      <4> QED BY <4>1, <4>3, <4>4
    <3>7. \A u \in Slots : state'[u] = "UNUSED" => pgdir'[u] = 0
      BY <3>2, <3>3
    <3> QED BY <2>0, <3>5, <3>6, <3>7
  <2>5. CASE Publish(s)
    BY <2>0, <2>5 DEF Publish
  <2>6. CASE Exit(s)
    BY <2>0, <2>6 DEF Exit, Handed
  <2>7. CASE WaitReap(s)
    BY <2>0, <2>7 DEF WaitReap, First, Reapable, Zombies, Children, Reset, Return, InWait
  <2>8. CASE WaitSleep(s)
    BY <2>0, <2>8 DEF WaitSleep, Sleep, InWait
  <2>9. CASE WaitFails(s)
    BY <2>0, <2>9 DEF WaitFails, ReturnError, Return, InWait
  <2>10. ASSUME NEW t \in 0..MaxThreads, JoinReap(s, t) PROVE Built'
    BY <2>0, <2>10 DEF JoinReap, First, Zombies, Threads, Reset, Return, InJoin
  <2>11. ASSUME NEW t \in 0..MaxThreads, JoinSleep(s, t) PROVE Built'
    BY <2>0, <2>11 DEF JoinSleep, Sleep, InJoin
  <2>12. ASSUME NEW t \in 0..MaxThreads, JoinFails(s, t) PROVE Built'
    BY <2>0, <2>12 DEF JoinFails, ReturnError, Return, InJoin
  <2>13. ASSUME NEW k \in 0..MaxPid, Kill(s, k) PROVE Built'
    BY <2>0, <2>13 DEF Kill, First
  <2> QED
    BY <1>2, <2>2, <2>3, <2>4, <2>5, <2>6, <2>7, <2>8, <2>9, <2>10, <2>11,
       <2>12, <2>13 DEF Step
<1> QED BY <1>1, <1>2, NextCases

\* The core holds in every reachable state.
THEOREM CoreInvariant == Spec => []Core
<1>1. Core /\ [Next]_vars => Core'
  BY TypeStep, BuildersStep, BuiltStep DEF Core
<1> QED BY CoreInit, <1>1, PTL DEF Spec

\* Every reachable state is well typed.
THEOREM TypeInvariant == Spec => []TypeOK
<1>1. Core => TypeOK
  BY DEF Core
<1> QED BY CoreInvariant, <1>1, PTL

----------------------------------------------------------------------------
(* Parents, children and those who wait for them *)

\* Nobody is its own parent, and init has none.
Apart == parent[initproc] = 0 /\ \A s \in Slots : parent[s] # s

Family == ParentAlive /\ Apart

LEMMA ExitStates ==
  ASSUME NEW x \in Slots, Exit(x), NEW q \in Slots
  PROVE  state'[q] = IF q = x THEN "ZOMBIE"
                     ELSE IF q \in WokenByExit(x) /\ state[q] = "SLEEPING"
                     THEN "RUNNABLE" ELSE state[q]
BY DEF Exit

LEMMA FamilyStep ==
  ASSUME Core, Family, [Next]_vars
  PROVE  Family'
<1> USE SlotFacts DEF Family, ParentAlive, Apart, Alive
<1>t. TypeOK /\ Builders /\ Built /\ InitLives
  BY DEF Core
<1>1. CASE UNCHANGED vars
  BY <1>1 DEF vars
<1>2. ASSUME NEW s \in Slots, Step(s) PROVE Family'
  <2> USE <1>t DEF TypeOK, InitLives
  <2>1. ASSUME NEW k, Alloc(s, k) PROVE Family'
    <3>1. PICK n \in Slots : /\ state[n] = "UNUSED"
                             /\ state' = [state EXCEPT ![n] = "EMBRYO"]
      BY <2>1 DEF Alloc, First, Unused
    <3> QED BY <2>1, <3>1 DEF Alloc
  <2>2. CASE CallFork(s) \/ CallThreadCreate(s)
    BY <2>1, <2>2 DEF CallFork, CallThreadCreate
  <2>3. CASE BuildFails(s)
    BY <2>3 DEF BuildFails, Builders, Building
  <2>4. CASE Build(s)
    BY <2>4 DEF Build, Builders, Building
  <2>5. CASE Publish(s)
    BY <2>5 DEF Publish, Builders, Building, Built
  <2>6. CASE Exit(s)
    <3>1. /\ s # initproc /\ state[s] = "RUNNABLE" /\ state'[s] = "ZOMBIE"
          /\ \A q \in Slots \ {s} :
               state'[q] = state[q] \/ (state[q] \in Alive /\ state'[q] \in Alive)
      <4>1. s # initproc /\ state[s] = "RUNNABLE" /\ state'[s] = "ZOMBIE"
        BY <2>6 DEF Exit
      <4>2. ASSUME NEW q \in Slots \ {s}
            PROVE  \/ state'[q] = state[q]
                   \/ state[q] = "SLEEPING" /\ state'[q] = "RUNNABLE"
        BY <2>6, ExitStates
      <4> QED BY <4>1, <4>2
    <3>2. \A q \in Slots : parent'[q] = IF parent[q] = s THEN initproc ELSE parent[q]
      BY <2>6 DEF Exit, Handed
    <3>3. state'[initproc] \in Alive
      BY <3>1
    <3>4. Apart'
      BY <3>1, <3>2
    <3>5. ASSUME NEW q \in Slots \ {initproc},
                 state'[q] \in Alive \cup {"ZOMBIE"}
          PROVE  parent'[q] # 0 /\ state'[parent'[q]] \in Alive
      <4>1. /\ state[q] \in Alive \cup {"ZOMBIE"}
            /\ parent[q] \in Slots /\ state[parent[q]] \in Alive
        <5>1. state[q] \in Alive \cup {"ZOMBIE"}
          BY <3>1, <3>5
        <5>2. parent[q] \in Slots
          BY <5>1 DEF Slots
        <5> QED BY <5>1, <5>2
      <4>2. CASE parent[q] = s
        BY <3>2, <3>3, <4>2
      <4>3. CASE parent[q] # s
        <5>1. parent'[q] = parent[q] /\ parent[q] \in Slots \ {s}
          BY <3>2, <4>1, <4>3
        <5> QED BY <3>1, <4>1, <5>1
      <4> QED BY <4>2, <4>3
    <3> QED BY <3>4, <3>5
  <2>7. ASSUME NEW q \in Slots, state[q] = "ZOMBIE", Reset(q),
               state' = [state EXCEPT ![q] = "UNUSED"]
        PROVE  Family'
    BY <2>7 DEF Reset
  <2>8. CASE WaitReap(s)
    BY <2>7, <2>8 DEF WaitReap, First, Reapable, Zombies, Children
  <2>9. CASE WaitSleep(s)
    BY <2>9 DEF WaitSleep, Sleep, InWait
  <2>10. CASE WaitFails(s)
    BY <2>10 DEF WaitFails, ReturnError
  <2>11. ASSUME NEW t \in 0..MaxThreads, JoinReap(s, t) PROVE Family'
    BY <2>7, <2>11 DEF JoinReap, First, Zombies, Threads
  <2>12. ASSUME NEW t \in 0..MaxThreads, JoinSleep(s, t) PROVE Family'
    BY <2>12 DEF JoinSleep, Sleep, InJoin
  <2>13. ASSUME NEW t \in 0..MaxThreads, JoinFails(s, t) PROVE Family'
    BY <2>13 DEF JoinFails, ReturnError
  <2>14. ASSUME NEW k \in 0..MaxPid, Kill(s, k) PROVE Family'
    BY <2>14 DEF Kill, First
  <2> QED
    BY <1>2, <2>2, <2>3, <2>4, <2>5, <2>6, <2>8, <2>9, <2>10, <2>11, <2>12,
       <2>13, <2>14 DEF Step
<1> QED BY <1>1, <1>2, NextCases

LEMMA FamilyInvariant == Spec => []Family
<1>1. Init => Family
  BY SlotFacts DEF Init, Family, ParentAlive, Apart, Alive
<1>2. Core /\ Family /\ [Next]_vars => Family'
  BY FamilyStep
<1> QED BY <1>1, <1>2, CoreInvariant, PTL DEF Spec

\* Whoever is alive or waits to be reaped has a living parent, for any number
\* of slots and in whatever order parents, children and threads exit
\* (exit's hand-over to init, wait, thread_join).
THEOREM ParentsLive == Spec => []ParentAlive
<1>1. Family => ParentAlive
  BY DEF Family
<1> QED BY FamilyInvariant, <1>1, PTL

\* What an exit does to those who wait: its parent is not asleep any more,
\* nor is init when it inherits a zombie.
LEMMA ExitWakes ==
  ASSUME Core, Family, NEW x \in Slots, Exit(x),
         NEW s \in Slots, state'[s] = "SLEEPING"
  PROVE  /\ state[s] = "SLEEPING" /\ s # x /\ s # parent[x]
         /\ \A q \in Slots : parent'[q] = s /\ state'[q] = "ZOMBIE"
              => parent[q] = s /\ state[q] = "ZOMBIE"
<1> USE SlotFacts DEF Core, TypeOK, Family, Apart
<1>1. state[s] = "SLEEPING" /\ s # x /\ s \notin WokenByExit(x)
  BY DEF Exit
<1>2. s # parent[x]
  BY <1>1 DEF WokenByExit
<1>3. ASSUME NEW q \in Slots, parent'[q] = s, state'[q] = "ZOMBIE"
      PROVE  parent[q] = s /\ state[q] = "ZOMBIE"
  <2>1. parent' = Handed(x)
    BY DEF Exit
  <2>2. CASE parent[q] = x
    <3>1. s = initproc /\ q # x
      BY <1>3, <2>1, <2>2 DEF Handed
    <3>2. state[q] = "ZOMBIE"
      BY <1>3, <3>1 DEF Exit
    <3> QED BY <1>1, <2>2, <3>1, <3>2 DEF WokenByExit, Children
  <2>3. CASE parent[q] # x
    <3>1. parent[q] = s
      BY <1>3, <2>1, <2>3 DEF Handed
    <3>2. q # x
      BY <1>2, <3>1
    <3> QED BY <1>3, <3>1, <3>2 DEF Exit
  <2> QED BY <2>2, <2>3
<1> QED BY <1>1, <1>2, <1>3

\* A scan that reaps q leaves every other zombie where it is and puts nobody
\* to sleep.
Reaps(q) ==
  /\ state[q] = "ZOMBIE" /\ Reset(q)
  /\ state' = [state EXCEPT ![q] = "UNUSED"]

LEMMA ReapCases ==
  /\ \A s \in Slots : WaitReap(s) => \E q \in Slots : Reaps(q)
  /\ \A s \in Slots : \A t \in 0..MaxThreads :
       JoinReap(s, t) => \E q \in Slots : Reaps(q)
BY DEF WaitReap, JoinReap, Reaps, First, Reapable, Zombies, Children, Threads

LEMMA WaiterStep ==
  ASSUME Core, Family, WaiterAwake, [Next]_vars
  PROVE  WaiterAwake'
<1> USE SlotFacts DEF WaiterAwake, Reapable, Zombies, Children
<1>t. TypeOK /\ Builders /\ Built
  BY DEF Core
<1>1. CASE UNCHANGED vars
  BY <1>1 DEF vars
<1>2. ASSUME NEW s \in Slots, Step(s) PROVE WaiterAwake'
  <2> USE <1>t DEF TypeOK
  <2>1. ASSUME NEW k, Alloc(s, k), At(s, "user") PROVE WaiterAwake'
    <3>1. PICK n \in Slots : /\ state[n] = "UNUSED"
                             /\ state' = [state EXCEPT ![n] = "EMBRYO"]
      BY <2>1 DEF Alloc, First, Unused
    <3> QED BY <2>1, <3>1 DEF Alloc
  <2>2. CASE CallFork(s) \/ CallThreadCreate(s)
    BY <2>1, <2>2 DEF CallFork, CallThreadCreate, Calls
  <2>3. CASE BuildFails(s)
    BY <2>3 DEF BuildFails, Builders, Building
  <2>4. CASE Build(s)
    BY <2>4 DEF Build, Builders, Building
  <2>5. CASE Publish(s)
    BY <2>5 DEF Publish, Builders, Building
  <2>6. CASE Exit(s)
    <3>1. UNCHANGED pc
      BY <2>6 DEF Exit
    <3>2. ASSUME NEW w \in Slots, pc'[w] = "wait", state'[w] = "SLEEPING",
                 NEW q \in Slots, parent'[q] = w, state'[q] = "ZOMBIE"
          PROVE  FALSE
      <4>1. /\ state[w] = "SLEEPING"
            /\ parent[q] = w /\ state[q] = "ZOMBIE"
        BY <2>6, <3>2, ExitWakes
      <4> QED BY <3>1, <3>2, <4>1
    <3> QED BY <3>2
  <2>7. ASSUME NEW q \in Slots, Reaps(q), Return(s) PROVE WaiterAwake'
    BY <2>7 DEF Reaps, Reset, Return
  <2>8. CASE WaitReap(s)
    BY <2>7, <2>8, ReapCases DEF WaitReap
  <2>9. CASE WaitSleep(s)
    BY <2>9 DEF WaitSleep, Sleep, InWait
  <2>10. CASE WaitFails(s)
    BY <2>10 DEF WaitFails, ReturnError, Return
  <2>11. ASSUME NEW t \in 0..MaxThreads, JoinReap(s, t) PROVE WaiterAwake'
    BY <2>7, <2>11, ReapCases DEF JoinReap
  <2>12. ASSUME NEW t \in 0..MaxThreads, JoinSleep(s, t) PROVE WaiterAwake'
    BY <2>12 DEF JoinSleep, Sleep, InJoin
  <2>13. ASSUME NEW t \in 0..MaxThreads, JoinFails(s, t) PROVE WaiterAwake'
    BY <2>13 DEF JoinFails, ReturnError, Return
  <2>14. ASSUME NEW k \in 0..MaxPid, Kill(s, k) PROVE WaiterAwake'
    BY <2>14 DEF Kill, First
  <2> QED
    BY <1>2, <2>2, <2>3, <2>4, <2>5, <2>6, <2>8, <2>9, <2>10, <2>11, <2>12,
       <2>13, <2>14 DEF Step
<1> QED BY <1>1, <1>2, NextCases

\* No process sleeps in wait while a child of its waits to be reaped: the test
\* and the sleep of wait cannot miss the wakeup of exit.
THEOREM WaitersAwake == Spec => []WaiterAwake
<1>1. Init => WaiterAwake
  BY DEF Init, WaiterAwake
<1>2. Core /\ Family /\ WaiterAwake /\ [Next]_vars => WaiterAwake'
  BY WaiterStep
<1> QED BY <1>1, <1>2, CoreInvariant, FamilyInvariant, PTL DEF Spec

LEMMA CreatorStep ==
  ASSUME Core, Family, CreatorAwake, [Next]_vars
  PROVE  CreatorAwake'
<1> USE SlotFacts DEF CreatorAwake, Zombies, Threads, Children
<1>t. TypeOK /\ Builders /\ Built
  BY DEF Core
<1>1. CASE UNCHANGED vars
  BY <1>1 DEF vars
<1>2. ASSUME NEW s \in Slots, Step(s) PROVE CreatorAwake'
  <2> USE <1>t DEF TypeOK
  <2>1. ASSUME NEW k, Alloc(s, k), At(s, "user") PROVE CreatorAwake'
    <3>1. PICK n \in Slots : /\ state[n] = "UNUSED"
                             /\ state' = [state EXCEPT ![n] = "EMBRYO"]
                             /\ pid' = [pid EXCEPT ![n] = nextpid]
      BY <2>1 DEF Alloc, First, Unused
    <3> QED BY <2>1, <3>1 DEF Alloc
  <2>2. CASE CallFork(s) \/ CallThreadCreate(s)
    BY <2>1, <2>2 DEF CallFork, CallThreadCreate, Calls
  <2>3. CASE BuildFails(s)
    BY <2>3 DEF BuildFails, Builders, Building
  <2>4. CASE Build(s)
    <3>1. PICK d : ForkFields(s, np[s], d) \/ ThreadFields(s, np[s])
      BY <2>4 DEF Build
    <3>2. \A q \in Slots \ {np[s]} : pid'[q] = pid[q] /\ tid'[q] = tid[q]
      BY <3>1 DEF ForkFields, ThreadFields
    <3>3. state[np[s]] = "EMBRYO" /\ np[s] \in Slots
      BY <2>4 DEF Build, Builders, Building
    <3>4. /\ UNCHANGED <<state, want>>
          /\ parent' = [parent EXCEPT ![np[s]] = s]
          /\ pc' = [pc EXCEPT ![s] = "publish"]
      BY <2>4 DEF Build
    <3>5. ASSUME NEW w \in Slots, pc'[w] = "join", state'[w] = "SLEEPING",
                 NEW q \in Slots, pid'[q] = pid'[w], tid'[q] = want'[w],
                 parent'[q] = w, state'[q] = "ZOMBIE"
          PROVE  FALSE
      <4>1. q # np[s] /\ w # np[s]
        BY <3>3, <3>4, <3>5
      <4>2. pid[q] = pid[w] /\ tid[q] = want[w] /\ parent[q] = w
        BY <3>2, <3>4, <3>5, <4>1
      <4>3. pc[w] = "join" /\ state[w] = "SLEEPING" /\ state[q] = "ZOMBIE"
        BY <3>4, <3>5
      <4> QED BY <4>2, <4>3
    <3> QED BY <3>5
  <2>5. CASE Publish(s)
    BY <2>5 DEF Publish, Builders, Building
  <2>6. CASE Exit(s)
    <3>1. UNCHANGED <<pc, pid, tid, want>>
      BY <2>6 DEF Exit
    <3>2. ASSUME NEW w \in Slots, pc'[w] = "join", state'[w] = "SLEEPING",
                 NEW q \in Slots, pid'[q] = pid'[w], tid'[q] = want'[w],
                 parent'[q] = w, state'[q] = "ZOMBIE"
          PROVE  FALSE
      <4>1. /\ state[w] = "SLEEPING"
            /\ parent[q] = w /\ state[q] = "ZOMBIE"
        BY <2>6, <3>2, ExitWakes
      <4> QED BY <3>1, <3>2, <4>1
    <3> QED BY <3>2
  <2>7. ASSUME NEW q \in Slots, Reaps(q), Return(s), UNCHANGED tid
        PROVE  CreatorAwake'
    BY <2>7 DEF Reaps, Reset, Return
  <2>8. CASE WaitReap(s)
    BY <2>7, <2>8, ReapCases DEF WaitReap
  <2>9. CASE WaitSleep(s)
    BY <2>9 DEF WaitSleep, Sleep, InWait
  <2>10. CASE WaitFails(s)
    BY <2>10 DEF WaitFails, ReturnError, Return
  <2>11. ASSUME NEW t \in 0..MaxThreads, JoinReap(s, t) PROVE CreatorAwake'
    BY <2>7, <2>11, ReapCases DEF JoinReap
  <2>12. ASSUME NEW t \in 0..MaxThreads, JoinSleep(s, t) PROVE CreatorAwake'
    BY <2>12 DEF JoinSleep, Sleep, InJoin
  <2>13. ASSUME NEW t \in 0..MaxThreads, JoinFails(s, t) PROVE CreatorAwake'
    BY <2>13 DEF JoinFails, ReturnError, Return
  <2>14. ASSUME NEW k \in 0..MaxPid, Kill(s, k) PROVE CreatorAwake'
    BY <2>14 DEF Kill, First
  <2> QED
    BY <1>2, <2>2, <2>3, <2>4, <2>5, <2>6, <2>8, <2>9, <2>10, <2>11, <2>12,
       <2>13, <2>14 DEF Step
<1> QED BY <1>1, <1>2, NextCases

\* A creator does not sleep in thread_join once the thread it wants has exited,
\* for any number of threads and joiners.
THEOREM CreatorsAwake == Spec => []CreatorAwake
<1>1. Init => CreatorAwake
  BY DEF Init, CreatorAwake
<1>2. Core /\ Family /\ CreatorAwake /\ [Next]_vars => CreatorAwake'
  BY CreatorStep
<1> QED BY <1>1, <1>2, CoreInvariant, FamilyInvariant, PTL DEF Spec

----------------------------------------------------------------------------
(* Page tables *)

\* Where there are no threads, none is being built, and a process that runs or
\* is about to has a page table that is allocated and nobody else's.
OnlyForks == ~threaded => \A s \in Slots : kind[s] = "fork"
Backed ==
  ~threaded => \A s \in Slots :
    /\ pgdir[s] \in live \cup {0}
    /\ state[s] \in Alive => pgdir[s] # 0
    /\ pc[s] = "publish" => pgdir[np[s]] # 0
Unshared ==
  ~threaded => \A s, t \in Slots : pgdir[s] = pgdir[t] => (s = t \/ pgdir[s] = 0)
NoneLost == ~threaded => \A d \in live : \E s \in Slots : pgdir[s] = d

Owned == NoneLost /\ OnlyForks /\ Backed /\ Unshared

LEMMA OwnedStep ==
  ASSUME Core, Owned, [Next]_vars
  PROVE  Owned'
<1> USE SlotFacts DEF Owned, OnlyForks, NoneLost, Backed, Unshared, Alive
<1>t. TypeOK /\ Builders /\ Built
  BY DEF Core
<1>1. CASE UNCHANGED vars
  BY <1>1 DEF vars
<1>2. ASSUME NEW s \in Slots, threaded' = threaded, Step(s) PROVE Owned'
  <2> USE <1>t DEF TypeOK
  <2>0. threaded' = threaded
    BY <1>2
  <2>1. CASE CallFork(s) \/ CallThreadCreate(s)
    BY <2>0, <2>1 DEF CallFork, CallThreadCreate, Alloc, Calls, At, Goto, First, Unused
  <2>3. CASE BuildFails(s)
    BY <2>0, <2>3 DEF BuildFails, At, Goto
  <2>4. CASE Build(s)
    <3>1. CASE threaded
      BY <2>0, <3>1
    <3>2. CASE ~threaded
      <4>1. PICK d \in Pgdirs \ live :
              /\ live' = live \cup {d}
              /\ pgdir' = [pgdir EXCEPT ![np[s]] = d]
        BY <2>4, <3>2 DEF Build, First, ForkFields, ThreadFields
      <4>2. /\ kind' = kind /\ pc[s] = "build" /\ state' = state /\ np' = np
            /\ pc' = [pc EXCEPT ![s] = "publish"]
        BY <2>4 DEF Build
      <4>3. pgdir[np[s]] = 0 /\ np[s] \in Slots
        BY <4>2 DEF Built
      <4>4. 0 \notin live /\ d # 0
        BY DEF Pgdirs
      <4>5. ASSUME NEW e \in live' PROVE \E q \in Slots : pgdir'[q] = e
        <5>1. pgdir'[np[s]] = d
          BY <4>1, <4>3
        <5>2. ASSUME e \in live PROVE \E q \in Slots : pgdir'[q] = e
          <6>1. PICK q \in Slots : pgdir[q] = e
            BY <3>2, <5>2
          <6>2. q # np[s]
            BY <4>3, <4>4, <5>2, <6>1
          <6> QED BY <4>1, <6>1, <6>2
        <5> QED BY <4>1, <4>3, <5>1, <5>2
      <4>8. NoneLost' /\ OnlyForks'
        BY <2>0, <3>2, <4>2, <4>5
      <4>6. Unshared'
        BY <2>0, <3>2, <4>1, <4>3
      <4>7. Backed'
        BY <2>0, <3>2, <4>1, <4>2, <4>3, <4>4
      <4> QED BY <4>6, <4>7, <4>8
    <3> QED BY <3>1, <3>2
  <2>5. CASE Publish(s)
    BY <2>0, <2>5 DEF Publish, At, Goto
  <2>6. CASE Exit(s)
    BY <2>0, <2>6 DEF Exit, At
  <2>7. CASE WaitReap(s)
    <3>1. PICK q \in Slots :
            /\ state[q] = "ZOMBIE" /\ state' = [state EXCEPT ![q] = "UNUSED"]
            /\ pgdir' = [pgdir EXCEPT ![q] = 0] /\ live' = live \ {pgdir[q]}
      BY <2>7 DEF WaitReap, FreedPgdir, Reset, First, Reapable, Zombies, Children
    <3>2. /\ kind' = kind /\ np' = np
          /\ pc' = [pc EXCEPT ![s] = "user"] /\ InWait(s)
      BY <2>7 DEF WaitReap, Return, Goto
    <3>3. NoneLost' /\ OnlyForks' /\ Unshared'
      BY <2>0, <3>1, <3>2
    <3>4. ASSUME NEW u \in Slots, pc'[u] = "publish" PROVE np[u] # q
      BY <3>1, <3>2, <3>4 DEF Builders, Building
    <3>5. Backed'
      BY <2>0, <3>1, <3>2, <3>4
    <3> QED BY <3>3, <3>5
  <2>8. CASE WaitSleep(s)
    BY <2>0, <2>8 DEF WaitSleep, Sleep, InWait, At, Goto
  <2>9. CASE WaitFails(s)
    BY <2>0, <2>9 DEF WaitFails, ReturnError, Return, Goto
  <2>10. ASSUME NEW t \in 0..MaxThreads,
                JoinReap(s, t) \/ JoinSleep(s, t) \/ JoinFails(s, t)
         PROVE  Owned'
    BY <2>0, <2>10 DEF JoinReap, JoinSleep, JoinFails, InJoin
  <2>11. ASSUME NEW k \in 0..MaxPid, Kill(s, k) PROVE Owned'
    BY <2>0, <2>11 DEF Kill
  <2> QED
    BY <1>2, <2>1, <2>3, <2>4, <2>5, <2>6, <2>7, <2>8, <2>9, <2>10, <2>11
       DEF Step
<1> QED BY <1>1, <1>2, NextCases

\* Without threads fork, its failure, exit and wait lose no page table and free
\* none that somebody runs on, for any number of slots and page tables.
THEOREM PageTablesRight == Spec => []PgdirsRight
<1>1. Init => Owned
  BY SlotFacts, ProcAssumption
     DEF Init, Owned, NoneLost, OnlyForks, Backed, Unshared, Alive
<1>2. Core /\ Owned /\ [Next]_vars => Owned'
  BY OwnedStep
<1>3. Owned => PgdirsRight
  BY DEF Owned, NoneLost, Backed, PgdirsRight
<1> QED BY <1>1, <1>2, <1>3, CoreInvariant, PTL DEF Spec


----------------------------------------------------------------------------
(* The tree of processes *)

\* Status and Father of the model, of any table.
HolderIn(st, pd, k) == {s \in Slots : pd[s] = k /\ st[s] # "UNUSED"}
StatusIn(st, pd, nx, k) ==
  IF k >= nx THEN "new" ELSE IF HolderIn(st, pd, k) = {} THEN "gone"
  ELSE Stage(st[CHOOSE s \in HolderIn(st, pd, k) : TRUE])
FatherIn(st, pd, pr, k) ==
  LET fs == {pr[s] : s \in {t \in HolderIn(st, pd, k) : st[t] # "EMBRYO"}} \ {0}
  IN  IF fs = {} THEN 0 ELSE pd[CHOOSE s \in fs : TRUE]

LEMMA Views ==
  ASSUME NEW k
  PROVE  /\ Status(k) = StatusIn(state, pid, nextpid, k)
         /\ Father(k) = FatherIn(state, pid, parent, k)
         /\ Status(k)' = StatusIn(state', pid', nextpid', k)
         /\ Father(k)' = FatherIn(state', pid', parent', k)
BY DEF Status, Father, Holder, StatusIn, FatherIn, HolderIn

\* Slots in use have pids of their own, below nextpid.
Numbered(st, pd, nx) ==
  \A s \in Slots : st[s] # "UNUSED" =>
    /\ pd[s] \in Nat \ {0} /\ pd[s] < nx
    /\ \A t \in Slots : st[t] # "UNUSED" /\ pd[t] = pd[s] => t = s

FatherOf(st, pd, pr, t) == IF st[t] = "EMBRYO" \/ pr[t] = 0 THEN 0 ELSE pd[pr[t]]

LEMMA Held ==
  ASSUME NEW st, NEW pd, NEW pr, NEW nx \in Nat, Numbered(st, pd, nx),
         NEW t \in Slots, st[t] # "UNUSED"
  PROVE  /\ StatusIn(st, pd, nx, pd[t]) = Stage(st[t])
         /\ FatherIn(st, pd, pr, pd[t]) = FatherOf(st, pd, pr, t)
<1>1. HolderIn(st, pd, pd[t]) = {t} /\ ~(pd[t] >= nx)
  BY DEF Numbered, HolderIn
<1>2. StatusIn(st, pd, nx, pd[t]) = Stage(st[t])
  BY <1>1 DEF StatusIn
<1> DEFINE fs == {pr[s] : s \in {u \in HolderIn(st, pd, pd[t]) : st[u] # "EMBRYO"}} \ {0}
<1>3. fs = IF st[t] = "EMBRYO" \/ pr[t] = 0 THEN {} ELSE {pr[t]}
  BY <1>1
<1>4. FatherIn(st, pd, pr, pd[t]) = IF fs = {} THEN 0 ELSE pd[CHOOSE s \in fs : TRUE]
  BY DEF FatherIn
<1> HIDE DEF fs
<1>5. FatherIn(st, pd, pr, pd[t]) = FatherOf(st, pd, pr, t)
  BY <1>3, <1>4 DEF FatherOf
<1> QED BY <1>2, <1>5

LEMMA Unheld ==
  ASSUME NEW st, NEW pd, NEW pr, NEW nx, NEW k,
         \A t \in Slots : st[t] # "UNUSED" => pd[t] # k
  PROVE  /\ StatusIn(st, pd, nx, k) = IF k >= nx THEN "new" ELSE "gone"
         /\ FatherIn(st, pd, pr, k) = 0
<1>1. HolderIn(st, pd, k) = {}
  BY DEF HolderIn
<1> QED BY <1>1 DEF StatusIn, FatherIn

\* What a step does not do to a process: its pid, its stage of life and the pid
\* of its father stay.
Stays(t) ==
  /\ state'[t] # "UNUSED" /\ pid'[t] = pid[t]
  /\ Stage(state'[t]) = Stage(state[t])
  /\ FatherOf(state', pid', parent', t) = FatherOf(state, pid, parent, t)

\* The pids other than c are what they were, when nothing happens to the
\* processes that have them.
LEMMA OthersStay ==
  ASSUME Numbered(state, pid, nextpid), Numbered(state', pid', nextpid'),
         nextpid \in Nat, nextpid' \in Nat,
         NEW c, \A k \in 1..MaxPid : k # c => (k >= nextpid <=> k >= nextpid'),
         \A t \in Slots : state'[t] # "UNUSED" /\ pid'[t] # c => state[t] # "UNUSED",
         \A t \in Slots : state[t] # "UNUSED" /\ pid[t] # c => Stays(t),
         \A t \in Slots : state[t] # "UNUSED" /\ pid[t] = c =>
           state'[t] = "UNUSED" \/ pid'[t] = c
  PROVE  \A k \in 1..MaxPid : k # c => Status(k)' = Status(k) /\ Father(k)' = Father(k)
<1> SUFFICES ASSUME NEW k \in 1..MaxPid, k # c
             PROVE  Status(k)' = Status(k) /\ Father(k)' = Father(k)
  OBVIOUS
<1>1. ASSUME NEW t \in Slots, state[t] # "UNUSED", pid[t] = k
      PROVE  Status(k)' = Status(k) /\ Father(k)' = Father(k)
  <2>1. Stays(t)
    BY <1>1
  <2>2. /\ StatusIn(state, pid, nextpid, k) = Stage(state[t])
        /\ FatherIn(state, pid, parent, k) = FatherOf(state, pid, parent, t)
    BY <1>1, Held
  <2>3. /\ StatusIn(state', pid', nextpid', k) = Stage(state'[t])
        /\ FatherIn(state', pid', parent', k) = FatherOf(state', pid', parent', t)
    BY <1>1, <2>1, Held DEF Stays
  <2> QED BY <2>1, <2>2, <2>3, Views DEF Stays
<1>2. ASSUME \A t \in Slots : state[t] # "UNUSED" => pid[t] # k
      PROVE  Status(k)' = Status(k) /\ Father(k)' = Father(k)
  <2>1. \A t \in Slots : state'[t] # "UNUSED" => pid'[t] # k
    BY <1>2 DEF Stays
  <2>2. /\ StatusIn(state, pid, nextpid, k) = IF k >= nextpid THEN "new" ELSE "gone"
        /\ FatherIn(state, pid, parent, k) = 0
    BY <1>2, Unheld
  <2>3. /\ StatusIn(state', pid', nextpid', k) = IF k >= nextpid' THEN "new" ELSE "gone"
        /\ FatherIn(state', pid', parent', k) = 0
    BY <2>1, Unheld
  <2> QED BY <2>2, <2>3, Views
<1> QED BY <1>1, <1>2


Numbers ==
  ~threaded => Numbered(state, pid, nextpid) /\ pid[initproc] = 1

\* Slots that have a pid, and those that keep it, keep it for themselves.
LEMMA NumbersStep ==
  ASSUME Core, Owned, Numbers, [Next]_vars
  PROVE  Numbers'
<1> USE SlotFacts DEF Numbers, Numbered
<1>t. TypeOK /\ Builders /\ Built /\ InitLives
  BY DEF Core
<1>1. CASE UNCHANGED vars
  BY <1>1 DEF vars
<1>2. CASE threaded /\ threaded' = threaded
  BY <1>2
<1>3. ASSUME NEW s \in Slots, threaded' = threaded, ~threaded, Step(s)
      PROVE  Numbers'
  <2>n. /\ \A u \in Slots : state[u] # "UNUSED" =>
             /\ pid[u] \in Nat \ {0} /\ pid[u] < nextpid
             /\ \A v \in Slots : state[v] # "UNUSED" /\ pid[v] = pid[u] => v = u
        /\ pid[initproc] = 1 /\ state[initproc] # "UNUSED" /\ nextpid \in Nat \ {0}
    BY <1>3, <1>t DEF InitLives, Alive, TypeOK
  \* Most steps take no slot into use and change no pid.
  <2>0. ASSUME \A u \in Slots : state'[u] # "UNUSED" =>
                 state[u] # "UNUSED" /\ pid'[u] = pid[u],
               nextpid' = nextpid, state'[initproc] # "UNUSED"
        PROVE  Numbers'
    BY <1>3, <2>0, <2>n
  <2> USE <1>t DEF TypeOK
  <2>1. CASE CallFork(s) \/ CallThreadCreate(s)
    <3>1. PICK n \in Slots :
            /\ state[n] = "UNUSED" /\ state' = [state EXCEPT ![n] = "EMBRYO"]
            /\ pid' = [pid EXCEPT ![n] = nextpid] /\ nextpid' = nextpid + 1
      BY <2>1 DEF CallFork, CallThreadCreate, Alloc, First, Unused
    <3>2. n # initproc
      BY <2>n, <3>1
    <3>3. \A u \in Slots : /\ u # n => state'[u] = state[u] /\ pid'[u] = pid[u]
                           /\ u = n => pid'[u] = nextpid
      BY <3>1
    <3> HIDE <1>t DEF TypeOK
    <3> QED BY <1>3, <2>n, <3>1, <3>2, <3>3
  <2>2. CASE BuildFails(s)
    <3>1. np[s] # initproc
      BY <2>2 DEF BuildFails, Builders, Building, InitLives, Alive
    <3> QED BY <2>0, <2>2, <2>n, <3>1 DEF BuildFails
  <2>3. CASE Build(s)
    <3>1. UNCHANGED <<state, pid, nextpid>>
      BY <1>3, <2>3 DEF Build, ForkFields, ThreadFields, Owned, OnlyForks
    <3> QED BY <2>0, <2>n, <3>1
  <2>4. CASE Publish(s)
    <3>1. state[np[s]] = "EMBRYO"
      BY <2>4 DEF Publish, Builders, Building
    <3> QED BY <2>0, <2>4, <2>n, <3>1 DEF Publish
  <2>5. CASE Exit(s)
    BY <2>0, <2>5, <2>n DEF Exit
  <2>6. CASE WaitReap(s)
    <3>1. PICK q \in Slots :
            /\ state[q] = "ZOMBIE" /\ state' = [state EXCEPT ![q] = "UNUSED"]
            /\ pid' = [pid EXCEPT ![q] = 0]
      BY <2>6 DEF WaitReap, Reset, First, Reapable, Zombies, Children
    <3>2. nextpid' = nextpid /\ q # initproc
      BY <2>6, <3>1 DEF WaitReap, InitLives, Alive
    <3> QED BY <2>0, <2>n, <3>1, <3>2
  <2>7. CASE WaitSleep(s)
    BY <2>0, <2>7, <2>n DEF WaitSleep, Sleep, InWait
  <2>8. CASE WaitFails(s)
    BY <2>0, <2>8, <2>n DEF WaitFails, ReturnError
  <2>9. ASSUME NEW t \in 0..MaxThreads,
               JoinReap(s, t) \/ JoinSleep(s, t) \/ JoinFails(s, t)
        PROVE  Numbers'
    BY <1>3, <2>9 DEF JoinReap, JoinSleep, JoinFails, InJoin
  <2>10. ASSUME NEW k \in 0..MaxPid, Kill(s, k) PROVE Numbers'
    BY <2>0, <2>10, <2>n DEF Kill, First
  <2> QED
    BY <1>3, <2>1, <2>2, <2>3, <2>4, <2>5, <2>6, <2>7, <2>8, <2>9, <2>10 DEF Step
<1> QED BY <1>1, <1>2, <1>3, NextCases


\* A step that happens to nobody, for the tree.
LEMMA TreeStays ==
  ASSUME Numbered(state, pid, nextpid), Numbered(state', pid', nextpid'),
         nextpid \in Nat, nextpid' = nextpid,
         \A t \in Slots : state'[t] # "UNUSED" => state[t] # "UNUSED",
         \A t \in Slots : state[t] # "UNUSED" => Stays(t)
  PROVE  UNCHANGED Tree!tree
<1>1. \A t \in Slots : state[t] # "UNUSED" => pid[t] # 0
  BY DEF Numbered
<1>2. \A k \in 1..MaxPid : k # 0 => Status(k)' = Status(k) /\ Father(k)' = Father(k)
  BY <1>1, OthersStay
<1>3. \A k \in 1..MaxPid : Status(k)' = Status(k) /\ Father(k)' = Father(k)
  BY <1>2
<1> QED BY <1>3 DEF Tree!tree

Statuses == [k \in 1..MaxPid |-> Status(k)]
Fathers == [k \in 1..MaxPid |-> Father(k)]

\* A step that happens to the process with pid c.
LEMMA TreeChanges ==
  ASSUME NEW c \in 1..MaxPid,
         \A k \in 1..MaxPid : k # c => Status(k)' = Status(k) /\ Father(k)' = Father(k)
  PROVE  /\ Statuses' = [Statuses EXCEPT ![c] = Status(c)']
         /\ Fathers' = [Fathers EXCEPT ![c] = Father(c)']
<1>1. /\ Statuses' = [k \in 1..MaxPid |-> Status(k)']
      /\ Fathers' = [k \in 1..MaxPid |-> Father(k)']
  BY DEF Statuses, Fathers
<1> QED BY <1>1 DEF Statuses, Fathers


TreeInv == Core /\ Family /\ Owned /\ Numbers

\* Everybody's pid, status and father, before and after a step.
LEMMA TreeFacts ==
  ASSUME TreeInv, ~threaded
  PROVE  /\ Numbered(state, pid, nextpid) /\ nextpid \in Nat /\ pid[initproc] = 1
         /\ \A t \in Slots : state[t] # "UNUSED" =>
              /\ pid[t] \in 1..MaxPid /\ Status(pid[t]) = Stage(state[t])
              /\ Father(pid[t]) = FatherOf(state, pid, parent, t)
<1>1. Numbered(state, pid, nextpid) /\ nextpid \in Nat /\ pid[initproc] = 1
  BY DEF TreeInv, Numbers, Core, TypeOK
<1>2. ASSUME NEW t \in Slots, state[t] # "UNUSED"
      PROVE  /\ pid[t] \in 1..MaxPid /\ Status(pid[t]) = Stage(state[t])
             /\ Father(pid[t]) = FatherOf(state, pid, parent, t)
  <2>1. pid[t] \in 1..MaxPid
    BY <1>1, <1>2, ProcAssumption DEF Numbered, TreeInv, Core, TypeOK
  <2> QED BY <1>1, <1>2, <2>1, Held, Views
<1> QED BY <1>1, <1>2

LEMMA After ==
  ASSUME Numbered(state', pid', nextpid'), nextpid' \in Nat,
         NEW t \in Slots, state'[t] # "UNUSED", NEW k, k = pid'[t]
  PROVE  /\ Status(k)' = Stage(state'[t])
         /\ Father(k)' = FatherOf(state', pid', parent', t)
BY Held, Views

\* fork's child becomes RUNNABLE.
LEMMA PublishIsFork ==
  ASSUME TreeInv, ~threaded, Numbered(state', pid', nextpid'),
         NEW s \in Slots, Publish(s)
  PROVE  Tree!Next
<1> DEFINE n == np[s]
<1>1. /\ n \in Slots /\ state[n] = "EMBRYO" /\ parent[n] = s /\ state[s] = "RUNNABLE"
      /\ state' = [state EXCEPT ![n] = "RUNNABLE"]
      /\ UNCHANGED <<pid, parent, nextpid>>
      /\ state \in [Slots -> States] /\ \A t \in Slots : parent[t] \in 0..NSlots
  BY DEF Publish, TreeInv, Core, Builders, Built, Building, TypeOK
<1>2. /\ Numbered(state, pid, nextpid) /\ nextpid \in Nat
      /\ \A t \in Slots : state[t] # "UNUSED" =>
           /\ pid[t] \in 1..MaxPid /\ Status(pid[t]) = Stage(state[t])
           /\ Father(pid[t]) = FatherOf(state, pid, parent, t)
  BY TreeFacts
<1> HIDE DEF n
<1>c. PICK c \in 1..MaxPid : c = pid[n]
  BY <1>1, <1>2
<1>p. PICK p \in 1..MaxPid : p = pid[s]
  BY <1>1, <1>2
<1>3. Status(c) = "new" /\ Status(p) = "live"
  BY <1>1, <1>2, <1>c, <1>p DEF Stage
<1>4. Status(c)' = "live" /\ Father(c)' = p
  <2>1. /\ state'[n] = "RUNNABLE" /\ pid'[n] = c /\ parent'[n] = s /\ pid'[s] = p
        /\ s # 0
    BY <1>1, <1>c, <1>p, SlotFacts
  <2>2. Status(c)' = Stage(state'[n])
        /\ Father(c)' = FatherOf(state', pid', parent', n)
    BY <1>1, <1>2, <2>1, After
  <2> QED BY <1>1, <2>1, <2>2 DEF Stage, FatherOf
<1>5. \A k \in 1..MaxPid : k # c => Status(k)' = Status(k) /\ Father(k)' = Father(k)
  <2>1. \A t \in Slots : t # n => state'[t] = state[t]
    BY <1>1
  <2>2. \A t \in Slots : state[t] # "UNUSED" /\ pid[t] # c => Stays(t)
    BY <1>1, <1>c, <2>1 DEF Stays, FatherOf
  <2>3. /\ \A t \in Slots : state'[t] # "UNUSED" /\ pid'[t] # c => state[t] # "UNUSED"
        /\ \A t \in Slots : state[t] # "UNUSED" /\ pid[t] = c =>
             state'[t] = "UNUSED" \/ pid'[t] = c
        /\ nextpid' = nextpid
    BY <1>1, <1>c
  <2> QED BY <1>2, <2>2, <2>3, OthersStay
<1>6. /\ Statuses' = [Statuses EXCEPT ![c] = "live"]
      /\ Fathers' = [Fathers EXCEPT ![c] = p]
  <2> QED BY <1>3, <1>4, <1>5, TreeChanges
<1>7. Statuses[p] = "live" /\ Statuses[c] = "new"
  BY <1>3 DEF Statuses
<1>8. Tree!Fork(p, c)
  BY <1>6, <1>7 DEF Tree!Fork, Statuses, Fathers
<1> QED BY <1>3, <1>8 DEF Tree!Next, Tree!Pids

\* allocproc's slot is given back: its pid is not used again.
LEMMA FailIsGone ==
  ASSUME TreeInv, ~threaded, Numbered(state', pid', nextpid'),
         NEW s \in Slots, BuildFails(s)
  PROVE  Tree!Next
<1> DEFINE n == np[s]
<1>1. /\ n \in Slots /\ state[n] = "EMBRYO"
      /\ state' = [state EXCEPT ![n] = "UNUSED"]
      /\ UNCHANGED <<pid, parent, nextpid>>
      /\ state \in [Slots -> States]
  BY DEF BuildFails, TreeInv, Core, Builders, Building, TypeOK
<1>2. /\ Numbered(state, pid, nextpid) /\ nextpid \in Nat
      /\ \A t \in Slots : state[t] # "UNUSED" =>
           /\ pid[t] \in 1..MaxPid /\ Status(pid[t]) = Stage(state[t])
           /\ Father(pid[t]) = FatherOf(state, pid, parent, t)
  BY TreeFacts
<1> HIDE DEF n
<1>c. PICK c \in 1..MaxPid : c = pid[n]
  BY <1>1, <1>2
<1>3. Status(c) = "new" /\ Father(c) = 0
  BY <1>1, <1>2, <1>c DEF Stage, FatherOf
<1>4. Status(c)' = "gone" /\ Father(c)' = 0
  <2>1. \A t \in Slots : state'[t] # "UNUSED" => pid'[t] # c
    BY <1>1, <1>2, <1>c DEF Numbered
  <2>2. ~(c >= nextpid')
    BY <1>1, <1>2, <1>c DEF Numbered
  <2>3. /\ StatusIn(state', pid', nextpid', c) = IF c >= nextpid' THEN "new" ELSE "gone"
        /\ FatherIn(state', pid', parent', c) = 0
    BY <2>1, Unheld
  <2> QED BY <2>2, <2>3, Views
<1>5. \A k \in 1..MaxPid : k # c => Status(k)' = Status(k) /\ Father(k)' = Father(k)
  <2>1. \A t \in Slots : t # n => state'[t] = state[t]
    BY <1>1
  <2>2. \A t \in Slots : state[t] # "UNUSED" /\ pid[t] # c => Stays(t)
    BY <1>1, <1>c, <2>1 DEF Stays, FatherOf
  <2>3. /\ \A t \in Slots : state'[t] # "UNUSED" /\ pid'[t] # c => state[t] # "UNUSED"
        /\ \A t \in Slots : state[t] # "UNUSED" /\ pid[t] = c =>
             state'[t] = "UNUSED" \/ pid'[t] = c
        /\ nextpid' = nextpid
    BY <1>1, <1>c
  <2> QED BY <1>2, <2>2, <2>3, OthersStay
<1>6. /\ Statuses' = [Statuses EXCEPT ![c] = "gone"] /\ Fathers' = Fathers
  <2>1. /\ Statuses' = [Statuses EXCEPT ![c] = "gone"]
        /\ Fathers' = [Fathers EXCEPT ![c] = 0]
    BY <1>3, <1>4, <1>5, TreeChanges
  <2> QED BY <1>3, <2>1 DEF Fathers
<1>7. Statuses[c] = "new"
  BY <1>3 DEF Statuses
<1>8. Tree!ForkFails(c)
  BY <1>6, <1>7 DEF Tree!ForkFails, Statuses, Fathers
<1> QED BY <1>3, <1>8 DEF Tree!Next, Tree!Pids

\* The first scan that meets a zombie child reaps it.
LEMMA ReapIsWait ==
  ASSUME TreeInv, ~threaded, Numbered(state', pid', nextpid'),
         NEW s \in Slots, WaitReap(s)
  PROVE  Tree!Next
<1>0. PICK q \in Slots :
        /\ state[q] = "ZOMBIE" /\ parent[q] = s /\ Reset(q)
        /\ state' = [state EXCEPT ![q] = "UNUSED"]
  BY DEF WaitReap, First, Reapable, Zombies, Children
<1>1. /\ state[s] = "RUNNABLE" /\ nextpid' = nextpid
      /\ pid' = [pid EXCEPT ![q] = 0] /\ parent' = [parent EXCEPT ![q] = 0]
      /\ state \in [Slots -> States] /\ parent \in [Slots -> 0..NSlots]
      /\ DOMAIN pid = Slots
  BY <1>0 DEF WaitReap, InWait, Reset, TreeInv, Core, TypeOK
<1>2. /\ Numbered(state, pid, nextpid) /\ nextpid \in Nat
      /\ \A t \in Slots : state[t] # "UNUSED" =>
           /\ pid[t] \in 1..MaxPid /\ Status(pid[t]) = Stage(state[t])
           /\ Father(pid[t]) = FatherOf(state, pid, parent, t)
  BY TreeFacts
<1>c. PICK c \in 1..MaxPid : c = pid[q]
  BY <1>0, <1>2
<1>p. PICK p \in 1..MaxPid : p = pid[s]
  BY <1>1, <1>2
<1>3. c # p /\ Status(c) = "zombie" /\ Status(p) = "live" /\ Father(c) = p
  BY <1>0, <1>1, <1>2, <1>c, <1>p, SlotFacts DEF Stage, FatherOf, Numbered
<1>4. Status(c)' = "gone" /\ Father(c)' = 0
  <2>1. \A t \in Slots : state'[t] # "UNUSED" => pid'[t] # c
    BY <1>0, <1>1, <1>2, <1>c DEF Numbered
  <2>2. ~(c >= nextpid')
    BY <1>0, <1>1, <1>2, <1>c DEF Numbered
  <2>3. /\ StatusIn(state', pid', nextpid', c) = IF c >= nextpid' THEN "new" ELSE "gone"
        /\ FatherIn(state', pid', parent', c) = 0
    BY <2>1, Unheld
  <2> QED BY <2>2, <2>3, Views
<1>5. \A k \in 1..MaxPid : k # c => Status(k)' = Status(k) /\ Father(k)' = Father(k)
  <2>1. \A t \in Slots : t # q =>
          state'[t] = state[t] /\ pid'[t] = pid[t] /\ parent'[t] = parent[t]
    BY <1>0, <1>1
  \* A zombie is nobody's father.
  <2>2. \A t \in Slots : state[t] \notin {"UNUSED", "EMBRYO"} => parent[t] # q
    <3> SUFFICES ASSUME NEW t \in Slots, state[t] \notin {"UNUSED", "EMBRYO"},
                        parent[t] = q
                 PROVE  FALSE
      OBVIOUS
    <3>1. t # initproc
      BY SlotFacts, <1>0 DEF TreeInv, Family, Apart
    <3>2. state[t] \in Alive \cup {"ZOMBIE"}
      BY <1>1 DEF States, Alive
    <3> QED BY <1>0, <3>1, <3>2 DEF TreeInv, Family, ParentAlive, Alive
  <2>3. \A t \in Slots : state[t] # "UNUSED" /\ pid[t] # c => Stays(t)
    <3> SUFFICES ASSUME NEW t \in Slots, state[t] # "UNUSED", t # q PROVE Stays(t)
      BY <1>c
    <3>1. FatherOf(state', pid', parent', t) = FatherOf(state, pid, parent, t)
      <4>1. CASE state[t] = "EMBRYO" \/ parent[t] = 0
        BY <2>1, <4>1 DEF FatherOf
      <4>2. CASE ~(state[t] = "EMBRYO" \/ parent[t] = 0)
        <5>1. parent[t] # q /\ parent[t] \in Slots
          BY <1>1, <2>2, <4>2 DEF Slots
        <5> QED BY <2>1, <4>2, <5>1 DEF FatherOf
      <4> QED BY <4>1, <4>2
    <3> QED BY <2>1, <3>1 DEF Stays
  <2>4. /\ \A t \in Slots : state'[t] # "UNUSED" /\ pid'[t] # c => state[t] # "UNUSED"
        /\ \A t \in Slots : state[t] # "UNUSED" /\ pid[t] = c =>
             state'[t] = "UNUSED" \/ pid'[t] = c
        /\ nextpid' = nextpid
    BY <1>0, <1>1, <1>c, <2>1
  <2> QED BY <1>1, <1>2, <2>3, <2>4, OthersStay
<1>6. /\ Statuses' = [Statuses EXCEPT ![c] = "gone"]
      /\ Fathers' = [Fathers EXCEPT ![c] = 0]
  <2> QED BY <1>3, <1>4, <1>5, TreeChanges
<1>7. Statuses[p] = "live" /\ Statuses[c] = "zombie" /\ Fathers[c] = p
  BY <1>3 DEF Statuses, Fathers
<1>8. Tree!Wait(p, c)
  BY <1>6, <1>7 DEF Tree!Wait, Statuses, Fathers
<1> QED BY <1>3, <1>8 DEF Tree!Next, Tree!Pids


\* The caller is a zombie, its children are init's; who is woken stays alive.
LEMMA ExitIsExit ==
  ASSUME TreeInv, ~threaded, Numbered(state', pid', nextpid'),
         NEW s \in Slots, Exit(s)
  PROVE  Tree!Next
<1>1. /\ state[s] = "RUNNABLE" /\ s # initproc
      /\ UNCHANGED <<pid, nextpid>>
      /\ \A t \in Slots : parent'[t] = IF parent[t] = s THEN initproc ELSE parent[t]
      /\ state \in [Slots -> States] /\ parent \in [Slots -> 0..NSlots]
      /\ state'[s] = "ZOMBIE"
      /\ \A t \in Slots : t # s =>
           state'[t] = state[t] \/ (state[t] = "SLEEPING" /\ state'[t] = "RUNNABLE")
  BY DEF Exit, Handed, TreeInv, Core, TypeOK
<1>2. /\ Numbered(state, pid, nextpid) /\ nextpid \in Nat /\ pid[initproc] = 1
      /\ \A t \in Slots : state[t] # "UNUSED" =>
           /\ pid[t] \in 1..MaxPid /\ Status(pid[t]) = Stage(state[t])
           /\ Father(pid[t]) = FatherOf(state, pid, parent, t)
  BY TreeFacts
<1>p. PICK p \in 1..MaxPid : p = pid[s]
  BY <1>1, <1>2
<1>3. p # 1 /\ Status(p) = "live"
  <2>1. state[initproc] # "UNUSED"
    BY DEF TreeInv, Core, InitLives, Alive
  <2> QED BY <1>1, <1>2, <1>p, <2>1, SlotFacts DEF Numbered, Stage
<1>4. ASSUME NEW t \in Slots, state[t] # "UNUSED"
      PROVE  /\ state'[t] # "UNUSED"
             /\ Stage(state'[t]) = IF t = s THEN "zombie" ELSE Stage(state[t])
             /\ FatherOf(state', pid', parent', t) =
                  IF FatherOf(state, pid, parent, t) = p THEN 1
                  ELSE FatherOf(state, pid, parent, t)
  <2>1. /\ state'[t] # "UNUSED"
        /\ Stage(state'[t]) = IF t = s THEN "zombie" ELSE Stage(state[t])
        /\ state'[t] = "EMBRYO" <=> state[t] = "EMBRYO"
    BY <1>1, <1>4 DEF Stage
  <2>2. CASE state[t] = "EMBRYO"
    BY <1>p, <2>1, <2>2 DEF FatherOf
  <2>3. CASE state[t] # "EMBRYO" /\ parent[t] = 0
    BY <1>1, <1>p, <2>1, <2>3, SlotFacts DEF FatherOf
  <2>4. CASE state[t] # "EMBRYO" /\ parent[t] = s
    <3>1. parent'[t] = initproc /\ initproc # 0 /\ s # 0
      BY <1>1, <2>4, SlotFacts
    <3> QED BY <1>1, <1>2, <1>p, <2>1, <2>4, <3>1 DEF FatherOf
  <2>5. CASE state[t] # "EMBRYO" /\ parent[t] \notin {0, s}
    <3>1. parent'[t] = parent[t] /\ parent[t] \in Slots
      BY <1>1, <2>5 DEF Slots
    <3>2. t # initproc
      BY <2>5 DEF TreeInv, Family, Apart
    <3>3. state[t] \in Alive \cup {"ZOMBIE"}
      BY <1>1, <1>4, <2>5 DEF States, Alive
    <3>4. state[parent[t]] # "UNUSED"
      BY <3>2, <3>3 DEF TreeInv, Family, ParentAlive, Alive
    <3>5. pid[parent[t]] # p
      BY <1>1, <1>2, <1>p, <2>5, <3>1, <3>4 DEF Numbered
    <3> QED BY <1>1, <2>1, <2>5, <3>1, <3>5 DEF FatherOf
  <2> QED BY <2>1, <2>2, <2>3, <2>4, <2>5
<1>5. ASSUME NEW k \in 1..MaxPid
      PROVE  /\ Status(k)' = IF k = p THEN "zombie" ELSE Status(k)
             /\ Father(k)' = IF Father(k) = p THEN 1 ELSE Father(k)
  <2>1. ASSUME NEW t \in Slots, state[t] # "UNUSED", pid[t] = k
        PROVE  /\ Status(k)' = IF k = p THEN "zombie" ELSE Status(k)
               /\ Father(k)' = IF Father(k) = p THEN 1 ELSE Father(k)
    <3>1. t = s <=> k = p
      BY <1>1, <1>2, <1>p, <2>1 DEF Numbered
    <3>2. state'[t] # "UNUSED" /\ k = pid'[t] /\ nextpid' \in Nat
      BY <1>1, <1>2, <1>4, <2>1
    <3>3. /\ Status(k)' = Stage(state'[t])
          /\ Father(k)' = FatherOf(state', pid', parent', t)
      BY <3>2, After
    <3>4. Status(k) = Stage(state[t]) /\ Father(k) = FatherOf(state, pid, parent, t)
      BY <1>2, <2>1
    <3> QED BY <1>4, <2>1, <3>1, <3>3, <3>4
  <2>2. ASSUME \A t \in Slots : state[t] # "UNUSED" => pid[t] # k
        PROVE  /\ Status(k)' = IF k = p THEN "zombie" ELSE Status(k)
               /\ Father(k)' = IF Father(k) = p THEN 1 ELSE Father(k)
    <3>1. \A t \in Slots : state'[t] # "UNUSED" => pid'[t] # k
      BY <1>1, <2>2
    <3>2. /\ StatusIn(state, pid, nextpid, k) = IF k >= nextpid THEN "new" ELSE "gone"
          /\ FatherIn(state, pid, parent, k) = 0
      BY <2>2, Unheld
    <3>3. /\ StatusIn(state', pid', nextpid', k) = IF k >= nextpid' THEN "new" ELSE "gone"
          /\ FatherIn(state', pid', parent', k) = 0
      BY <3>1, Unheld
    <3>4. k # p
      BY <1>1, <1>p, <2>2
    <3> QED BY <1>1, <1>p, <3>2, <3>3, <3>4, Views
  <2> QED BY <2>1, <2>2
<1>6. /\ Statuses' = [Statuses EXCEPT ![p] = "zombie"]
      /\ Fathers' = [k \in 1..MaxPid |-> IF Fathers[k] = p THEN 1 ELSE Fathers[k]]
  <2>1. /\ Statuses' = [k \in 1..MaxPid |-> Status(k)']
        /\ Fathers' = [k \in 1..MaxPid |-> Father(k)']
    BY DEF Statuses, Fathers
  <2> QED BY <1>5, <2>1 DEF Statuses, Fathers
<1>7. Statuses[p] = "live"
  BY <1>3 DEF Statuses
<1>8. Tree!Exit(p)
  BY <1>3, <1>6, <1>7 DEF Tree!Exit, Tree!InitPid, Tree!Pids, Statuses, Fathers
<1> QED BY <1>8 DEF Tree!Next, Tree!Pids

\* allocproc's pid is that of a process to come.
LEMMA AllocIsNothing ==
  ASSUME TreeInv, ~threaded, Numbered(state', pid', nextpid'),
         NEW s \in Slots, NEW k, Alloc(s, k)
  PROVE  UNCHANGED Tree!tree
<1>1. PICK n \in Slots :
        /\ state[n] = "UNUSED" /\ state' = [state EXCEPT ![n] = "EMBRYO"]
        /\ pid' = [pid EXCEPT ![n] = nextpid]
        /\ nextpid' = nextpid + 1 /\ UNCHANGED parent
  BY DEF Alloc, First, Unused
<1>2. /\ Numbered(state, pid, nextpid) /\ nextpid \in Nat
      /\ \A t \in Slots : state[t] # "UNUSED" =>
           /\ pid[t] \in 1..MaxPid /\ Status(pid[t]) = Stage(state[t])
           /\ Father(pid[t]) = FatherOf(state, pid, parent, t)
  BY TreeFacts
<1>3. /\ nextpid' \in Nat /\ state'[n] = "EMBRYO" /\ pid'[n] = nextpid
      /\ \A t \in Slots : t # n => state'[t] = state[t] /\ pid'[t] = pid[t]
  BY <1>1, <1>2 DEF TreeInv, Core, TypeOK
<1>c. PICK c \in Nat : c = nextpid
  BY <1>2
<1>4. Status(c)' = Status(c) /\ Father(c)' = Father(c)
  <2>1. Status(c)' = "new" /\ Father(c)' = 0
    BY <1>3, <1>c, After DEF Stage, FatherOf
  <2>2. \A t \in Slots : state[t] # "UNUSED" => pid[t] # c
    BY <1>2, <1>c DEF Numbered
  <2>3. /\ StatusIn(state, pid, nextpid, c) = IF c >= nextpid THEN "new" ELSE "gone"
        /\ FatherIn(state, pid, parent, c) = 0
    BY <2>2, Unheld
  <2> QED BY <1>2, <1>c, <2>1, <2>3, Views
<1>5. \A i \in 1..MaxPid : i # c => Status(i)' = Status(i) /\ Father(i)' = Father(i)
  <2>1. \A t \in Slots : state[t] # "UNUSED" => Stays(t)
    <3> SUFFICES ASSUME NEW t \in Slots, state[t] # "UNUSED" PROVE Stays(t)
      OBVIOUS
    <3>1. t # n
      BY <1>1
    <3>2. state[t] = "EMBRYO" \/ parent[t] = 0 \/ parent[t] # n
      <4> SUFFICES ASSUME state[t] # "EMBRYO", parent[t] = n PROVE FALSE
        BY SlotFacts
      <4>1. t # initproc
        BY SlotFacts DEF TreeInv, Family, Apart
      <4>2. state[t] \in Alive \cup {"ZOMBIE"}
        BY DEF TreeInv, Core, TypeOK, States, Alive
      <4> QED BY <1>1, <4>1, <4>2 DEF TreeInv, Family, ParentAlive, Alive
    <3>3. FatherOf(state', pid', parent', t) = FatherOf(state, pid, parent, t)
      <4>1. parent[t] \in 0..NSlots
        BY DEF TreeInv, Core, TypeOK
      <4>2. parent[t] = 0 \/ parent[t] \in Slots
        BY <4>1 DEF Slots
      <4> QED BY <1>1, <1>3, <3>1, <3>2, <4>2 DEF FatherOf
    <3> QED BY <1>3, <3>1, <3>3 DEF Stays
  <2>2. /\ \A i \in 1..MaxPid : i # c => (i >= nextpid <=> i >= nextpid')
        /\ \A t \in Slots : state'[t] # "UNUSED" /\ pid'[t] # c => state[t] # "UNUSED"
        /\ \A t \in Slots : state[t] # "UNUSED" /\ pid[t] = c =>
             state'[t] = "UNUSED" \/ pid'[t] = c
    BY <1>1, <1>2, <1>3, <1>c
  <2> QED BY <1>2, <1>3, <2>1, <2>2, OthersStay
<1>6. \A i \in 1..MaxPid : Status(i)' = Status(i) /\ Father(i)' = Father(i)
  BY <1>4, <1>5
<1> QED BY <1>6 DEF Tree!tree

\* What neither takes a slot nor frees one, and changes no pid, stage of life or
\* father of anybody.
LEMMA OthersAreNothing ==
  ASSUME TreeInv, ~threaded, Numbered(state', pid', nextpid'),
         UNCHANGED <<pid, nextpid>>,
         \A t \in Slots : \/ state'[t] = state[t]
                          \/ state[t] \in Alive /\ state'[t] \in Alive,
         \A t \in Slots : parent'[t] = parent[t] \/ state[t] = "EMBRYO"
  PROVE  UNCHANGED Tree!tree
<1>1. Numbered(state, pid, nextpid) /\ nextpid \in Nat
  BY TreeFacts
<1>2. \A t \in Slots : state[t] # "UNUSED" => Stays(t)
  BY DEF Stays, Stage, FatherOf, Alive
<1>3. \A t \in Slots : state'[t] # "UNUSED" => state[t] # "UNUSED"
  BY DEF Alive
<1> QED BY <1>1, <1>2, <1>3, TreeStays

LEMMA TreeStep ==
  ASSUME TreeInv, Numbers', [Next]_vars
  PROVE  [threaded \/ Tree!Next]_(<<Tree!tree>>)
<1>1. CASE UNCHANGED vars
  <2>1. UNCHANGED Tree!tree
    BY <1>1 DEF vars, Tree!tree, Status, Father, Holder
  <2> QED BY <2>1
<1>2. CASE threaded
  BY <1>2
<1>3. ASSUME NEW s \in Slots, threaded' = threaded, ~threaded, Step(s)
      PROVE  Tree!Next \/ UNCHANGED Tree!tree
  <2>n. Numbered(state', pid', nextpid')
    BY <1>3 DEF Numbers
  <2>t. TypeOK /\ Builders
    BY DEF TreeInv, Core
  <2>1. CASE CallFork(s) \/ CallThreadCreate(s)
    BY <1>3, <2>n, <2>1, AllocIsNothing DEF CallFork, CallThreadCreate
  <2>2. CASE BuildFails(s)
    BY <1>3, <2>n, <2>2, FailIsGone
  <2>3. CASE Build(s)
    <3>1. /\ UNCHANGED <<state, pid, nextpid>> /\ state[np[s]] = "EMBRYO"
          /\ parent' = [parent EXCEPT ![np[s]] = s]
      BY <1>3, <2>3, <2>t
         DEF Build, ForkFields, ThreadFields, TreeInv, Owned, OnlyForks, Builders, Building
    <3>2. \A t \in Slots : parent'[t] = parent[t] \/ state[t] = "EMBRYO"
      BY <2>t, <3>1 DEF TypeOK
    <3> QED BY <1>3, <2>n, <3>1, <3>2, OthersAreNothing
  <2>4. CASE Publish(s)
    BY <1>3, <2>n, <2>4, PublishIsFork
  <2>5. CASE Exit(s)
    BY <1>3, <2>n, <2>5, ExitIsExit
  <2>6. CASE WaitReap(s)
    BY <1>3, <2>n, <2>6, ReapIsWait
  <2>7. CASE WaitSleep(s)
    <3>1. /\ UNCHANGED <<pid, nextpid, parent>> /\ state[s] = "RUNNABLE"
          /\ state' = [state EXCEPT ![s] = "SLEEPING"]
      BY <2>7 DEF WaitSleep, Sleep, InWait
    <3>2. \A t \in Slots : \/ state'[t] = state[t]
                           \/ state[t] \in Alive /\ state'[t] \in Alive
      BY <2>t, <3>1 DEF TypeOK, Alive
    <3> QED BY <1>3, <2>n, <3>1, <3>2, OthersAreNothing
  <2>8. CASE WaitFails(s)
    BY <1>3, <2>n, <2>8, OthersAreNothing DEF WaitFails, ReturnError
  <2>9. ASSUME NEW t \in 0..MaxThreads,
               JoinReap(s, t) \/ JoinSleep(s, t) \/ JoinFails(s, t)
        PROVE  FALSE
    BY <1>3, <2>9 DEF JoinReap, JoinSleep, JoinFails, InJoin
  <2>10. ASSUME NEW k \in 0..MaxPid, Kill(s, k)
         PROVE  UNCHANGED Tree!tree
    <3>1. UNCHANGED <<pid, nextpid, parent>>
      BY <2>10 DEF Kill
    <3>2. \A t \in Slots : \/ state'[t] = state[t]
                           \/ state[t] \in Alive /\ state'[t] \in Alive
      BY <2>10, <2>t DEF Kill, First, TypeOK, Alive
    <3> QED BY <1>3, <2>n, <3>1, <3>2, OthersAreNothing
  <2> QED
    BY <1>3, <2>1, <2>2, <2>3, <2>4, <2>5, <2>6, <2>7, <2>8, <2>9, <2>10 DEF Step
<1> QED BY <1>1, <1>2, <1>3, NextCases

LEMMA TreeInit == Init => Numbers /\ (threaded \/ Tree!Init)
<1> SUFFICES ASSUME Init PROVE Numbers /\ (threaded \/ Tree!Init)
  OBVIOUS
<1>1. /\ \A s \in Slots : state[s] # "UNUSED" => s = initproc
      /\ pid[initproc] = 1 /\ state[initproc] = "RUNNABLE" /\ nextpid = 2
      /\ parent[initproc] = 0 /\ initproc \in Slots
  BY SlotFacts DEF Init
<1>2. Numbered(state, pid, nextpid)
  BY <1>1 DEF Numbered
<1>3. ASSUME NEW k \in 1..MaxPid
      PROVE  /\ Status(k) = IF k = 1 THEN "live" ELSE "new"
             /\ Father(k) = 0
  <2>1. CASE k = 1
    <3>1. /\ StatusIn(state, pid, nextpid, pid[initproc]) = Stage(state[initproc])
          /\ FatherIn(state, pid, parent, pid[initproc]) =
               FatherOf(state, pid, parent, initproc)
      BY <1>1, <1>2, Held
    <3> QED BY <1>1, <2>1, <3>1, Views DEF Stage, FatherOf
  <2>2. CASE k # 1
    <3>1. \A t \in Slots : state[t] # "UNUSED" => pid[t] # k
      BY <1>1, <2>2
    <3>2. /\ StatusIn(state, pid, nextpid, k) = IF k >= nextpid THEN "new" ELSE "gone"
          /\ FatherIn(state, pid, parent, k) = 0
      BY <3>1, Unheld
    <3>3. k >= nextpid
      BY <1>1, <2>2
    <3> QED BY <2>2, <3>2, <3>3, Views
  <2> QED BY <2>1, <2>2
<1>4. Tree!Init
  BY <1>3 DEF Tree!Init, Tree!Pids, Tree!InitPid
<1> QED BY <1>1, <1>2, <1>4 DEF Numbers

\* Without threads the table is a tree of processes for any number of slots and
\* pids: a process has a living father, that reaps it once, and orphans are
\* init's (fork, exit, wait), under whatever kills, failures of fork and reuse
\* of slots.
THEOREM TableIsTree == Spec => ImplementsProcTree
<1>1. Init => Owned
  BY SlotFacts, ProcAssumption
     DEF Init, Owned, NoneLost, OnlyForks, Backed, Unshared, Alive
<1>2. Core /\ Owned /\ [Next]_vars => Owned'
  BY OwnedStep
<1>3. Core /\ Owned /\ Numbers /\ [Next]_vars => Numbers'
  BY NumbersStep
<1>4. Spec => []TreeInv
  <2>1. Core /\ Family /\ Owned /\ Numbers => TreeInv
    BY DEF TreeInv
  <2> QED
    BY <1>1, <1>2, <1>3, <2>1, TreeInit, CoreInvariant, FamilyInvariant, PTL DEF Spec
<1>5. TreeInv /\ TreeInv' /\ [Next]_vars => [threaded \/ Tree!Next]_(<<Tree!tree>>)
  BY TreeStep DEF TreeInv
<1> QED BY <1>4, <1>5, TreeInit, PTL DEF Spec, ImplementsProcTree

============================================================================
