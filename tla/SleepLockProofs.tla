------------------------- MODULE SleepLockProofs -------------------------
(* Proofs about SleepLock, for any number of CPUs, slots and sleep locks. *)
EXTENDS SleepLock, TLAPS

\* Points and values named in the model, always expanded.
USE DEF SleepReturns, SleepStarts, SleepLocked, Cleared, YieldStarts, Free,
        Restored, NextSlot

\* Case analysis over the processors' steps, used by every proof below.
LEMMA NextCases ==
  ASSUME Next
  PROVE  \/ \E c \in CPUs : SchedulerStep(c)
         \/ \E c \in CPUs, p \in Procs :
              ProcStep(c, p) \/ Request(c, p) \/ TimerTick(c, p)
BY DEF Next

THEOREM TypeInvariant == Spec => []TypeOK
<1> USE SleepLockAssumption DEF Procs, Locks
<1>1. Init => TypeOK
  BY DEF Init, TypeOK, PCs, Releasing, Preemptible
<1>2. TypeOK /\ [Next]_vars => TypeOK'
  <2> SUFFICES ASSUME TypeOK, [Next]_vars PROVE TypeOK'
    OBVIOUS
  <2>1. CASE UNCHANGED vars
    BY <2>1 DEF TypeOK, vars, procVars, cpuVars, lockVars
  <2>2. ASSUME NEW c \in CPUs, SchedulerStep(c) PROVE TypeOK'
    <3>1. CASE ScanEnter(c)
      BY <3>1 DEF TypeOK, ScanEnter, PushCli, procVars, lockVars
    <3>2. CASE ScanTake(c)
      BY <3>2 DEF TypeOK, ScanTake, procVars, lockVars
    <3>3. CASE Dispatch(c)
      BY <3>3 DEF TypeOK, Dispatch, RunnableFrom, lockVars
    <3>4. CASE ScanEnd(c)
      BY <3>4 DEF TypeOK, ScanEnd, procVars, lockVars
    <3> QED BY <2>2, <3>1, <3>2, <3>3, <3>4 DEF SchedulerStep
  <2>3. ASSUME NEW c \in CPUs, NEW p \in Procs, 
               ProcStep(c, p) \/ Request(c, p) \/ TimerTick(c, p)
        PROVE  TypeOK'
    <3> USE DEF TypeOK, At, Goto, PCs, cpuVars, lockVars, procVars
    <3>1. CASE AcquireEnter(c, p)
      BY <3>1 DEF AcquireEnter, PushCli
    <3>2. CASE AcquireTake(c, p)
      BY <3>2 DEF AcquireTake, AfterAcquire, Acquiring, Releasing, LockOf
    <3>3. CASE Release(c, p)
      <4>1. pc' \in [Procs -> PCs]
        BY <3>3 DEF Release, DoRelease, AfterRelease, Acquiring, Releasing
      <4>2. ie' \in [CPUs -> BOOLEAN]
        BY <3>3 DEF Release, DoRelease
      <4>3. holder' \in [Locks -> CPUs \cup {NoCPU}]
        BY <3>3 DEF Release, DoRelease
      <4>4. ncli' \in [CPUs -> Nat]
        <5>1. ncli[c] \in Nat /\ ncli[c] > 0 /\ ncli' = [ncli EXCEPT ![c] = @ - 1]
          BY <3>3 DEF Release, DoRelease
        <5>2. ncli[c] - 1 \in Nat
          BY <5>1
        <5> QED BY <5>1, <5>2
      <4> QED BY <3>3, <4>1, <4>2, <4>3, <4>4 DEF Release
    <3>4. CASE CallReleaseSleep(c, p)
      BY <3>4 DEF CallReleaseSleep, Call, Acquiring
    <3>5. CASE Iret(c, p)
      BY <3>5 DEF Iret, Preemptible, Acquiring
    <3>6. CASE AcquireSleepTest(c, p)
      BY <3>6 DEF AcquireSleepTest, Acquiring
    <3>7. CASE AcquireSleepSet(c, p)
      BY <3>7 DEF AcquireSleepSet, Releasing
    <3>8. CASE ReleaseSleepClear(c, p)
      BY <3>8 DEF ReleaseSleepClear, Acquiring
    <3>9. CASE SleepMark(c, p)
      BY <3>9 DEF SleepMark
    <3>10. CASE YieldMark(c, p)
      BY <3>10 DEF YieldMark
    <3>11. CASE Sched(c, p)
      BY <3>11 DEF Sched
    <3>12. CASE SchedReturn(c, p)
      BY <3>12 DEF SchedReturn, Releasing
    <3>13. CASE Wakeup1(c, p)
      BY <3>13 DEF Wakeup1, Releasing
    <3>14. CASE KillWake(c, p)
      BY <3>14 DEF KillWake, Releasing
    <3>15. CASE Request(c, p)
      BY <3>15 DEF Request, CallAcquireSleep, CallKill, Call, Acquiring
    <3>16. CASE TimerTick(c, p)
      BY <3>16 DEF TimerTick, Acquiring
    <3> QED
      BY <2>3, <3>1, <3>2, <3>3, <3>4, <3>5, <3>6, <3>7, <3>8, <3>9, <3>10,
         <3>11, <3>12, <3>13, <3>14, <3>15, <3>16 DEF ProcStep
  <2> QED BY <2>1, <2>2, <2>3, NextCases
<1> QED BY <1>1, <1>2, PTL DEF Spec

----------------------------------------------------------------------------
(* The discipline of spin locks and stacks: the inductive core *)

\* Points where a process on a CPU owns ptable.lock, and its target's s.lk.
OwnsPT == {"forkret", "sl_rel", "sl_mark", "sl_sched", "sl_wake", "sl_relpt",
           "wk_scan", "wk_rel", "y_mark", "y_sched", "y_back", "y_rel",
           "k_scan", "k_rel"}
OwnsLk == {"as_test", "as_set", "as_rel", "sl_acq", "sl_rel", "rs_clear",
           "wk_acq", "wk_scan", "wk_rel", "rs_rel"}
Leaving == {"sl_sched", "y_sched"}       \* marked, and not yet off its stack
Parked  == {"forkret", "sl_wake", "y_back"}

PTInv ==
  \A c \in CPUs :
    holder[PTable] = c
      <=> IF cproc[c] = NoProc THEN scan[c] > 0 ELSE pc[cproc[c]] \in OwnsPT
LkInv ==
  \A c \in CPUs, s \in SLocks :
    holder[s] = c
      <=> cproc[c] # NoProc /\ pc[cproc[c]] \in OwnsLk /\ tgt[cproc[c]] = s
ParkedInv ==
  \A p \in Procs : ~OnCPU(p) => pc[p] \in Parked /\ state[p] # "RUNNING"
RunningInv ==
  \A c \in CPUs : cproc[c] # NoProc =>
    /\ pc[cproc[c]] \in Leaving <=> state[cproc[c]] # "RUNNING"
    /\ scan[c] > 0
OneCPU ==
  \A c, d \in CPUs : cproc[c] = cproc[d] /\ cproc[c] # NoProc => c = d

Discipline == PTInv /\ LkInv /\ ParkedInv /\ RunningInv /\ OneCPU

\* A sleep lock and its holder.
HoldInv ==
  \A p \in Procs :
    /\ Where(p) \in Holding => locked[tgt[p]] /\ owner[tgt[p]] = p
    /\ pc[p] = "as_set" => ~locked[tgt[p]]
    /\ pc[p] = "forkret" => ret[p] = "user"

\* A process on its way to sleep.
SleepInv ==
  \A p \in Procs :
    /\ state[p] = "SLEEPING" =>
         pc[p] \in {"sl_sched", "sl_wake"} /\ chan[p] = tgt[p]
    /\ pc[p] \in {"sl_acq", "sl_rel"} => locked[tgt[p]]
    /\ pc[p] = "sl_mark" \/ state[p] = "SLEEPING" =>
         locked[tgt[p]] \/ WakeupComing(tgt[p])

LEMMA PreemptibleOwnsNothing ==
  \A point \in Preemptible :
    point \notin OwnsPT \cup OwnsLk \cup Leaving \cup Parked
BY DEF Preemptible, OwnsPT, OwnsLk, Leaving, Parked

LEMMA DisciplineStep == TypeOK /\ Discipline /\ [Next]_vars => Discipline'
<1> USE SleepLockAssumption DEF Procs, Locks
<1> SUFFICES ASSUME TypeOK, Discipline, [Next]_vars PROVE Discipline'
  OBVIOUS
<1>1. CASE UNCHANGED vars
  BY <1>1 DEF Discipline, PTInv, LkInv, ParkedInv, RunningInv, OneCPU, OnCPU,
       vars, procVars, cpuVars, lockVars
<1>2. ASSUME NEW c \in CPUs, SchedulerStep(c) PROVE Discipline'
  <2> USE DEF Discipline, PTInv, LkInv, ParkedInv, RunningInv, OneCPU, OnCPU,
          TypeOK, procVars, cpuVars, lockVars, OwnsPT, OwnsLk, Leaving, Parked
  <2>1. CASE ScanEnter(c)
    BY <2>1 DEF ScanEnter, PushCli
  <2>2. CASE ScanTake(c)
    BY <2>2 DEF ScanTake
  <2>3. CASE Dispatch(c)
    BY <2>3 DEF Dispatch, RunnableFrom
  <2>4. CASE ScanEnd(c)
    BY <2>4 DEF ScanEnd, RunnableFrom
  <2> QED BY <1>2, <2>1, <2>2, <2>3, <2>4 DEF SchedulerStep
<1>3. ASSUME NEW c \in CPUs, NEW p \in Procs,
             ProcStep(c, p) \/ Request(c, p) \/ TimerTick(c, p)
      PROVE  Discipline'
  <2> USE DEF Discipline, PTInv, LkInv, ParkedInv, RunningInv, OneCPU, OnCPU,
          TypeOK, procVars, cpuVars, lockVars, OwnsPT, OwnsLk, Leaving, Parked, At, Goto, Acquiring, Releasing
  <2>1. CASE AcquireEnter(c, p)
    BY <2>1 DEF AcquireEnter, PushCli
  <2>2. CASE AcquireTake(c, p)
    <3>1. PTInv'
      BY <2>2 DEF AcquireTake, AfterAcquire, LockOf, OnPTable
    <3>2. LkInv'
      BY <2>2 DEF AcquireTake, AfterAcquire, LockOf, OnPTable
    <3>3. ParkedInv'
      BY <2>2 DEF AcquireTake, AfterAcquire, LockOf, OnPTable
    <3>4. RunningInv'
      BY <2>2 DEF AcquireTake, AfterAcquire, LockOf, OnPTable
    <3>5. OneCPU'
      BY <2>2 DEF AcquireTake, AfterAcquire, LockOf, OnPTable
    <3> QED BY <3>1, <3>2, <3>3, <3>4, <3>5
  <2>3. CASE Release(c, p)
    <3>1. PTInv'
      BY <2>3 DEF Release, DoRelease, AfterRelease, LockOf, OnPTable
    <3>2. LkInv'
      BY <2>3 DEF Release, DoRelease, AfterRelease, LockOf, OnPTable
    <3>3. ParkedInv'
      BY <2>3 DEF Release, DoRelease, AfterRelease, LockOf, OnPTable
    <3>4. RunningInv'
      BY <2>3 DEF Release, DoRelease, AfterRelease, LockOf, OnPTable
    <3>5. OneCPU'
      BY <2>3 DEF Release, DoRelease, AfterRelease, LockOf, OnPTable
    <3> QED BY <3>1, <3>2, <3>3, <3>4, <3>5
  <2>4. CASE CallReleaseSleep(c, p)
    BY <2>4 DEF CallReleaseSleep, Call
  <2>5. CASE Iret(c, p)
    <3>1. /\ pc[p] \notin OwnsPT \cup OwnsLk \cup Leaving \cup Parked
          /\ ret[p] \notin OwnsPT \cup OwnsLk \cup Leaving \cup Parked
      BY <2>5, PreemptibleOwnsNothing DEF Iret
    <3> HIDE DEF OwnsPT, OwnsLk, Leaving, Parked
    <3>2. PTInv'
      BY <2>5, <3>1 DEF Iret
    <3>3. LkInv'
      BY <2>5, <3>1 DEF Iret
    <3>4. RunningInv'
      BY <2>5, <3>1 DEF Iret
    <3> QED BY <2>5, <3>2, <3>3, <3>4 DEF Iret
  <2>6. CASE AcquireSleepTest(c, p)
    BY <2>6 DEF AcquireSleepTest
  <2>7. CASE AcquireSleepSet(c, p)
    BY <2>7 DEF AcquireSleepSet
  <2>8. CASE ReleaseSleepClear(c, p)
    BY <2>8 DEF ReleaseSleepClear
  <2>9. CASE SleepMark(c, p)
    BY <2>9 DEF SleepMark
  <2>10. CASE YieldMark(c, p)
    BY <2>10 DEF YieldMark
  <2>11. CASE Sched(c, p)
    <3>1. PTInv'
      BY <2>11 DEF Sched, SchedOK
    <3>2. LkInv'
      BY <2>11 DEF Sched, SchedOK
    <3>3. ParkedInv'
      BY <2>11 DEF Sched, SchedOK
    <3>4. RunningInv'
      BY <2>11 DEF Sched, SchedOK
    <3>5. OneCPU'
      BY <2>11 DEF Sched, SchedOK
    <3> QED BY <3>1, <3>2, <3>3, <3>4, <3>5
  <2>12. CASE SchedReturn(c, p)
    BY <2>12 DEF SchedReturn
  <2>13. CASE Wakeup1(c, p)
    BY <2>13 DEF Wakeup1
  <2>14. CASE KillWake(c, p)
    BY <2>14 DEF KillWake
  <2>15. CASE Request(c, p)
    <3>1. PTInv'
      BY <2>15 DEF Request, CallAcquireSleep, CallKill, Call
    <3>2. LkInv'
      BY <2>15 DEF Request, CallAcquireSleep, CallKill, Call
    <3>3. ParkedInv'
      BY <2>15 DEF Request, CallAcquireSleep, CallKill, Call
    <3>4. RunningInv'
      BY <2>15 DEF Request, CallAcquireSleep, CallKill, Call
    <3>5. OneCPU'
      BY <2>15 DEF Request, CallAcquireSleep, CallKill, Call
    <3> QED BY <3>1, <3>2, <3>3, <3>4, <3>5
  <2>16. CASE TimerTick(c, p)
    BY <2>16 DEF TimerTick, Preemptible
  <2> QED BY <1>3, <2>1, <2>2, <2>3, <2>4, <2>5, <2>6, <2>7, <2>8, <2>9, <2>10, <2>11, <2>12, <2>13, <2>14, <2>15, <2>16 DEF ProcStep
<1> QED BY <1>1, <1>2, <1>3, NextCases

LEMMA NoProcNotProc == \A p \in Procs : p # NoProc
BY SleepLockAssumption DEF Procs

\* The two locks exclude processes from each other.
LEMMA LkExcludes ==
  ASSUME TypeOK, Discipline, NEW p \in Procs, NEW q \in Procs,
         pc[p] \in OwnsLk, pc[q] \in OwnsLk, tgt[p] = tgt[q]
  PROVE  p = q
<1>1. OwnsLk \cap Parked = {}
  BY DEF OwnsLk, Parked
<1>2. PICK c \in CPUs : cproc[c] = p
  BY <1>1 DEF Discipline, ParkedInv, OnCPU
<1>3. PICK d \in CPUs : cproc[d] = q
  BY <1>1 DEF Discipline, ParkedInv, OnCPU
<1>4. NoProc # p /\ NoProc # q /\ tgt[p] \in SLocks
  BY SleepLockAssumption DEF Procs, TypeOK
<1>5. holder[tgt[p]] = c /\ holder[tgt[p]] = d
  BY <1>2, <1>3, <1>4 DEF Discipline, LkInv
<1> QED BY <1>2, <1>3, <1>5

LEMMA PTExcludes ==
  ASSUME TypeOK, Discipline, NEW p \in Procs, NEW q \in Procs,
         OnCPU(p), OnCPU(q), pc[p] \in OwnsPT, pc[q] \in OwnsPT
  PROVE  p = q
<1>1. PICK c \in CPUs : cproc[c] = p
  BY DEF OnCPU
<1>2. PICK d \in CPUs : cproc[d] = q
  BY DEF OnCPU
<1>3. NoProc # p /\ NoProc # q
  BY SleepLockAssumption DEF Procs
<1>4. holder[PTable] = c /\ holder[PTable] = d
  BY <1>1, <1>2, <1>3 DEF Discipline, PTInv
<1> QED BY <1>1, <1>2, <1>4

LEMMA HoldStep ==
  TypeOK /\ Discipline /\ HoldInv /\ [Next]_vars => HoldInv'
<1> USE SleepLockAssumption DEF Procs
<1> SUFFICES ASSUME TypeOK, Discipline, HoldInv, [Next]_vars PROVE HoldInv'
  OBVIOUS
<1> USE DEF HoldInv, Where, Holding, InInterrupt, procVars, cpuVars, lockVars
<1>1. CASE UNCHANGED vars
  BY <1>1 DEF vars
<1>2. ASSUME NEW c \in CPUs, SchedulerStep(c) PROVE HoldInv'
  <2>1. CASE ScanEnter(c)
    BY <2>1 DEF ScanEnter, PushCli, TypeOK
  <2>2. CASE ScanTake(c)
    BY <2>2 DEF ScanTake, TypeOK
  <2>3. CASE Dispatch(c)
    BY <2>3 DEF Dispatch, RunnableFrom, TypeOK
  <2>4. CASE ScanEnd(c)
    BY <2>4 DEF ScanEnd, RunnableFrom, TypeOK
  <2> QED BY <1>2, <2>1, <2>2, <2>3, <2>4 DEF SchedulerStep
<1>3. ASSUME NEW c \in CPUs, NEW p \in Procs,
             ProcStep(c, p) \/ Request(c, p) \/ TimerTick(c, p)
      PROVE  HoldInv'
  <2> USE DEF TypeOK, At, Goto, Acquiring, Releasing
  <2>1. CASE AcquireEnter(c, p)
    BY <2>1 DEF AcquireEnter, PushCli
  <2>2. CASE AcquireTake(c, p)
    BY <2>2 DEF AcquireTake, AfterAcquire
  <2>3. CASE Release(c, p)
    <3>1. /\ pc' = [pc EXCEPT ![p] = AfterRelease[pc[p]]]
          /\ UNCHANGED <<ret, tgt, locked, owner>>
      BY <2>3 DEF Release
    <3>2. pc[p] \in Releasing
      BY <2>3 DEF Release
    <3>3. Where(p)' \in Holding => Where(p) \in Holding
      BY <3>1, <3>2 DEF AfterRelease
    <3>4. pc'[p] # "as_set" /\ pc'[p] # "forkret"
      BY <3>1, <3>2 DEF AfterRelease
    <3> QED BY <3>1, <3>3, <3>4
  <2>4. CASE CallReleaseSleep(c, p)
    BY <2>4 DEF CallReleaseSleep, Call
  <2>5. CASE Iret(c, p)
    <3>1. /\ pc[p] = "iret" /\ pc' = [pc EXCEPT ![p] = ret[p]]
          /\ ret' = [ret EXCEPT ![p] = "user"]
          /\ UNCHANGED <<tgt, locked, owner>>
      BY <2>5 DEF Iret
    <3>2. ret[p] \notin InInterrupt \cup {"as_set", "forkret"}
      BY DEF Preemptible
    <3>3. Where(p)' = Where(p) /\ \A q \in Procs \ {p} : Where(q)' = Where(q)
      BY <3>1, <3>2
    <3> HIDE DEF Where, Holding
    <3> QED BY <3>1, <3>2, <3>3
  <2>6. CASE AcquireSleepTest(c, p)
    BY <2>6 DEF AcquireSleepTest
  <2>7. CASE AcquireSleepSet(c, p)
    <3>1. \A q \in Procs : Where(q) \in Holding /\ q # p => tgt[q] # tgt[p]
      BY <2>7 DEF AcquireSleepSet
    <3>2. \A q \in Procs : pc[q] = "as_set" /\ q # p => tgt[q] # tgt[p]
      BY <2>7, LkExcludes DEF AcquireSleepSet, OwnsLk
    <3> QED BY <2>7, <3>1, <3>2 DEF AcquireSleepSet
  <2>8. CASE ReleaseSleepClear(c, p)
    <3>1. \A q \in Procs : Where(q) \in Holding /\ q # p => tgt[q] # tgt[p]
      <4>1. Where(p) \in Holding
        BY <2>8 DEF ReleaseSleepClear
      <4> QED BY <4>1
    <3>2. Where(p)' \notin Holding /\ pc'[p] = "wk_acq"
      BY <2>8 DEF ReleaseSleepClear
    <3>3. \A q \in Procs \ {p} : pc'[q] = pc[q] /\ Where(q)' = Where(q)
      BY <2>8 DEF ReleaseSleepClear
    <3> HIDE DEF Where, Holding
    <3> QED BY <2>8, <3>1, <3>2, <3>3 DEF ReleaseSleepClear
  <2>9. CASE SleepMark(c, p)
    BY <2>9 DEF SleepMark
  <2>10. CASE YieldMark(c, p)
    BY <2>10 DEF YieldMark
  <2>11. CASE Sched(c, p)
    BY <2>11 DEF Sched
  <2>12. CASE SchedReturn(c, p)
    BY <2>12 DEF SchedReturn
  <2>13. CASE Wakeup1(c, p)
    BY <2>13 DEF Wakeup1
  <2>14. CASE KillWake(c, p)
    BY <2>14 DEF KillWake
  <2>15. CASE Request(c, p)
    <3>1. /\ pc[p] = "user" /\ pc'[p] \in {"as_acq", "k_acq"}
          /\ \A q \in Procs \ {p} : pc'[q] = pc[q] /\ tgt'[q] = tgt[q]
          /\ UNCHANGED <<ret, locked, owner>>
      BY <2>15 DEF Request, CallAcquireSleep, CallKill, Call
    <3> QED BY <3>1
  <2>16. CASE TimerTick(c, p)
    BY <2>16 DEF TimerTick, Preemptible
  <2> QED BY <1>3, <2>1, <2>2, <2>3, <2>4, <2>5, <2>6, <2>7, <2>8, <2>9, <2>10, <2>11, <2>12, <2>13, <2>14, <2>15, <2>16 DEF ProcStep
<1> QED BY <1>1, <1>2, <1>3, NextCases

LEMMA SleepStep ==
  TypeOK /\ Discipline /\ SleepInv /\ [Next]_vars => SleepInv'
<1> USE SleepLockAssumption DEF Procs
<1> SUFFICES ASSUME TypeOK, Discipline, SleepInv, [Next]_vars PROVE SleepInv'
  OBVIOUS
<1> USE DEF SleepInv, WakeupComing, procVars, cpuVars, lockVars
<1>1. CASE UNCHANGED vars
  BY <1>1 DEF vars
<1>2. ASSUME NEW c \in CPUs, SchedulerStep(c) PROVE SleepInv'
  <2>1. CASE ScanEnter(c)
    BY <2>1 DEF ScanEnter, PushCli, TypeOK
  <2>2. CASE ScanTake(c)
    BY <2>2 DEF ScanTake, TypeOK
  <2>3. CASE Dispatch(c)
    BY <2>3 DEF Dispatch, RunnableFrom, TypeOK
  <2>4. CASE ScanEnd(c)
    BY <2>4 DEF ScanEnd, RunnableFrom, TypeOK
  <2> QED BY <1>2, <2>1, <2>2, <2>3, <2>4 DEF SchedulerStep
<1>3. ASSUME NEW c \in CPUs, NEW p \in Procs,
             ProcStep(c, p) \/ Request(c, p) \/ TimerTick(c, p)
      PROVE  SleepInv'
  <2> USE DEF TypeOK, At, Goto, Acquiring, Releasing
  <2>1. CASE AcquireEnter(c, p)
    BY <2>1 DEF AcquireEnter, PushCli
  <2>2. CASE AcquireTake(c, p)
    BY <2>2 DEF AcquireTake, AfterAcquire
  <2>3. CASE Release(c, p)
    <3>1. /\ pc' = [pc EXCEPT ![p] = AfterRelease[pc[p]]]
          /\ UNCHANGED <<state, chan, tgt, locked>>
      BY <2>3 DEF Release
    <3>2. pc[p] \in Releasing
      BY <2>3 DEF Release
    <3>3. /\ pc'[p] \notin {"sl_acq", "sl_rel", "sl_sched", "sl_wake"}
          /\ pc'[p] = "sl_mark" => pc[p] = "sl_rel"
      BY <3>1, <3>2 DEF AfterRelease
    <3>4. state[p] # "SLEEPING"
      BY <3>2
    <3>5. \A s \in SLocks : WakeupComing(s) => WakeupComing(s)'
      BY <3>1, <3>2
    <3> HIDE DEF WakeupComing
    <3> QED BY <3>1, <3>3, <3>4, <3>5
  <2>4. CASE CallReleaseSleep(c, p)
    BY <2>4 DEF CallReleaseSleep, Call
  <2>5. CASE Iret(c, p)
    <3>1. /\ pc[p] = "iret" /\ pc' = [pc EXCEPT ![p] = ret[p]]
          /\ UNCHANGED <<state, chan, tgt, locked>>
      BY <2>5 DEF Iret
    <3>2. ret[p] \notin {"sl_acq", "sl_rel", "sl_mark", "sl_sched", "sl_wake"}
      BY DEF Preemptible
    <3>3. \A s \in SLocks : WakeupComing(s) => WakeupComing(s)'
      BY <3>1
    <3> HIDE DEF WakeupComing
    <3> QED BY <3>1, <3>2, <3>3
  <2>6. CASE AcquireSleepTest(c, p)
    BY <2>6 DEF AcquireSleepTest
  <2>7. CASE AcquireSleepSet(c, p)
    BY <2>7 DEF AcquireSleepSet
  <2>8. CASE ReleaseSleepClear(c, p)
    <3>1. /\ pc[p] = "rs_clear" /\ pc' = [pc EXCEPT ![p] = "wk_acq"]
          /\ locked' = [locked EXCEPT ![tgt[p]] = FALSE]
          /\ UNCHANGED <<state, chan, tgt>>
      BY <2>8 DEF ReleaseSleepClear
    <3>2. \A q \in Procs : pc[q] \in {"sl_acq", "sl_rel"} => tgt[q] # tgt[p]
      BY <3>1, LkExcludes DEF OwnsLk
    <3>3. WakeupComing(tgt[p])'
      BY <3>1
    <3>4. \A s \in SLocks : WakeupComing(s) => WakeupComing(s)'
      BY <3>1
    <3> HIDE DEF WakeupComing
    <3> QED BY <3>1, <3>2, <3>3, <3>4
  <2>9. CASE SleepMark(c, p)
    BY <2>9 DEF SleepMark
  <2>10. CASE YieldMark(c, p)
    BY <2>10 DEF YieldMark
  <2>11. CASE Sched(c, p)
    BY <2>11 DEF Sched
  <2>12. CASE SchedReturn(c, p)
    <3>1. state[p] # "SLEEPING"
      BY <2>12, NoProcNotProc
         DEF SchedReturn, Discipline, RunningInv, Leaving
    <3>2. /\ pc[p] \in {"sl_wake", "y_back"}
          /\ pc' = [pc EXCEPT ![p] = IF @ = "sl_wake" THEN "sl_relpt" ELSE "y_rel"]
          /\ UNCHANGED <<state, tgt, locked>>
          /\ \A q \in Procs \ {p} : chan'[q] = chan[q]
      BY <2>12 DEF SchedReturn
    <3>3. \A s \in SLocks : WakeupComing(s) => WakeupComing(s)'
      BY <3>2
    <3> HIDE DEF WakeupComing
    <3> QED BY <3>1, <3>2, <3>3
  <2>13. CASE Wakeup1(c, p)
    <3>1. /\ cproc[c] = p /\ pc[p] = "wk_scan"
          /\ pc' = [pc EXCEPT ![p] = "wk_rel"]
          /\ \A q \in Procs :
               state'[q] = "SLEEPING" => state[q] = "SLEEPING" /\ chan[q] # tgt[p]
          /\ UNCHANGED <<chan, tgt, locked>>
      BY <2>13 DEF Wakeup1
    <3>2. \A q \in Procs : pc[q] # "sl_mark"
      <4> SUFFICES ASSUME NEW q \in Procs, pc[q] = "sl_mark" PROVE FALSE
        OBVIOUS
      <4>1. OnCPU(p) /\ OnCPU(q)
        BY <3>1 DEF Discipline, ParkedInv, Parked, OnCPU
      <4> QED BY <3>1, <4>1, PTExcludes DEF OwnsPT
    <3>3. \A s \in SLocks : WakeupComing(s) /\ s # tgt[p] => WakeupComing(s)'
      BY <3>1
    <3> HIDE DEF WakeupComing
    <3> QED BY <3>1, <3>2, <3>3
  <2>14. CASE KillWake(c, p)
    BY <2>14 DEF KillWake
  <2>15. CASE Request(c, p)
    <3>1. /\ pc[p] = "user" /\ pc'[p] \in {"as_acq", "k_acq"}
          /\ \A q \in Procs \ {p} : pc'[q] = pc[q] /\ tgt'[q] = tgt[q]
          /\ UNCHANGED <<state, chan, locked>>
      BY <2>15 DEF Request, CallAcquireSleep, CallKill, Call
    <3>2. \A s \in SLocks : WakeupComing(s) => WakeupComing(s)'
      BY <3>1
    <3> HIDE DEF WakeupComing
    <3> QED BY <3>1, <3>2
  <2>16. CASE TimerTick(c, p)
    BY <2>16 DEF TimerTick, Preemptible
  <2> QED BY <1>3, <2>1, <2>2, <2>3, <2>4, <2>5, <2>6, <2>7, <2>8, <2>9, <2>10, <2>11, <2>12, <2>13, <2>14, <2>15, <2>16 DEF ProcStep
<1> QED BY <1>1, <1>2, <1>3, NextCases

----------------------------------------------------------------------------
(* The theorems *)

\* Spin locks are held by the CPUs at the points that own them, and by no
\* other; a process is on one CPU at most and off it only when parked.
THEOREM LockDiscipline == Spec => []Discipline
<1>1. Init => Discipline
  BY SleepLockAssumption DEF Init, Discipline, PTInv, LkInv, ParkedInv,
     RunningInv, OneCPU, OnCPU, Parked, Procs, Locks
<1>2. TypeOK /\ Discipline /\ [Next]_vars => Discipline'
  BY DisciplineStep
<1> QED BY <1>1, <1>2, TypeInvariant, PTL DEF Spec

\* Sleep locks exclude (sleeplock.c), for any number of processes and CPUs.
THEOREM SleepLocksExclude == Spec => []Exclusion
<1>1. Init => HoldInv
  BY DEF Init, HoldInv, Where, InInterrupt, Holding
<1>2. TypeOK /\ Discipline /\ HoldInv /\ [Next]_vars => HoldInv'
  BY HoldStep
<1>3. HoldInv => Exclusion
  BY DEF HoldInv, Exclusion
<1> QED BY <1>1, <1>2, <1>3, TypeInvariant, LockDiscipline, PTL DEF Spec

\* No wakeup is missed (sleep and wakeup of proc.c).
THEOREM NoWakeupIsLost == Spec => []NoLostWakeup
<1>1. Init => SleepInv
  BY DEF Init, SleepInv
<1>2. TypeOK /\ Discipline /\ SleepInv /\ [Next]_vars => SleepInv'
  BY SleepStep
<1>3. SleepInv => NoLostWakeup
  BY DEF SleepInv, NoLostWakeup
<1> QED BY <1>1, <1>2, <1>3, TypeInvariant, LockDiscipline, PTL DEF Spec

\* A stack is used by one CPU at a time (the hand-over of ptable.lock).
THEOREM OneStackEach == Spec => []OneStack
<1>1. TypeOK /\ Discipline => OneStack
  <2> SUFFICES ASSUME TypeOK, Discipline PROVE OneStack
    OBVIOUS
  <2>1. \A p \in Procs : state[p] = "RUNNING" => OnCPU(p)
    BY DEF Discipline, ParkedInv
  <2>2. \A c \in CPUs :
          cproc[c] # NoProc /\ state[cproc[c]] # "RUNNING" => holder[PTable] = c
    BY DEF Discipline, RunningInv, PTInv, Leaving, OwnsPT
  <2> QED BY <2>1, <2>2 DEF OneStack, Discipline, OneCPU
<1> QED BY <1>1, TypeInvariant, LockDiscipline, PTL

----------------------------------------------------------------------------
(* The bookkeeping of interrupts *)

\* The spin locks a CPU holds at the point it is at, and CPU by CPU: ncli counts
\* them and the acquire in progress, interrupts are off meanwhile, and intena
\* remembers that they were on, but in an interrupt handler and before sleep has
\* taken its intena back.
HoldsNone == {"user", "iret", "crit", "as_acq", "sl_reacq", "rs_acq", "k_acq", "y_acq"}
HoldsTwo == {"sl_rel", "wk_scan", "wk_rel"}
Depth(c) ==
  IF cproc[c] = NoProc THEN (IF scan[c] > 0 THEN 1 ELSE 0)
  ELSE IF pc[cproc[c]] \in HoldsTwo THEN 2
  ELSE IF pc[cproc[c]] \in HoldsNone THEN 0 ELSE 1
NotMine == InInterrupt \cup {"forkret", "sl_wake"}

CliInv(c) ==
  /\ ncli[c] = Depth(c) + IF spin[c] THEN 1 ELSE 0
  /\ ncli[c] > 0 => ~ie[c]
  /\ spin[c] => IF cproc[c] = NoProc THEN scan[c] = 0 ELSE pc[cproc[c]] \in Acquiring
  /\ cproc[c] # NoProc =>
       /\ (pc[cproc[c]] \in Preemptible /\ ~spin[c]) => ie[c]
       /\ (pc[cproc[c]] \notin NotMine /\ ncli[c] > 0) => intena[c]

Bookkeeping ==
  /\ \A c \in CPUs : CliInv(c)
  /\ \A p \in Procs : pc[p] = "sl_wake" => saved[p]

\* A CPU's books are not touched by what another CPU does.
LEMMA OthersCli ==
  ASSUME TypeOK, Discipline, Bookkeeping, NEW c \in CPUs, NEW d \in CPUs, d # c,
         cproc'[d] = cproc[d], cproc[d] # NoProc => pc'[cproc[d]] = pc[cproc[d]],
         ncli'[d] = ncli[d], ie'[d] = ie[d], spin'[d] = spin[d],
         scan'[d] = scan[d], intena'[d] = intena[d]
  PROVE  CliInv(d)'
<1>1. CliInv(d)
  BY DEF Bookkeeping
<1> QED BY <1>1 DEF CliInv, Depth

LEMMA BookkeepingStep ==
  TypeOK /\ Discipline /\ Bookkeeping /\ [Next]_vars => Bookkeeping'
<1> USE SleepLockAssumption DEF Procs, Locks
<1> SUFFICES ASSUME TypeOK, Discipline, Bookkeeping, [Next]_vars PROVE Bookkeeping'
  OBVIOUS
<1>1. CASE UNCHANGED vars
  BY <1>1 DEF Bookkeeping, CliInv, Depth, vars, procVars, cpuVars, lockVars
<1>2. ASSUME NEW c \in CPUs, SchedulerStep(c) PROVE Bookkeeping'
  <2>c. CliInv(c)
    BY DEF Bookkeeping
  <2>p. pc' = pc /\ saved' = saved
    BY <1>2 DEF SchedulerStep, ScanEnter, ScanTake, Dispatch, ScanEnd, procVars
  <2>d. ASSUME NEW d \in CPUs, d # c PROVE CliInv(d)'
    BY <1>2, <2>p, <2>d, OthersCli DEF SchedulerStep, ScanEnter, ScanTake, Dispatch,
       ScanEnd, PushCli, TypeOK, procVars
  <2> USE <2>c DEF CliInv, Depth, TypeOK, procVars, cpuVars
  <2>1. CASE ScanEnter(c)
    <3>1. CliInv(c)'
      BY <2>1 DEF ScanEnter, PushCli
    <3> QED BY <3>1, <2>p, <2>d DEF Bookkeeping
  <2>2. CASE ScanTake(c)
    <3>1. CliInv(c)'
      BY <2>2 DEF ScanTake
    <3> QED BY <3>1, <2>p, <2>d DEF Bookkeeping
  <2>3. CASE Dispatch(c)
    <3>1. PICK p \in Procs : /\ state[p] = "RUNNABLE" /\ cproc' = [cproc EXCEPT ![c] = p]
                             /\ cproc[c] = NoProc /\ scan[c] > 0
      <4>1. PICK p \in RunnableFrom(scan[c]) : cproc' = [cproc EXCEPT ![c] = p]
        BY <2>3 DEF Dispatch
      <4>2. cproc[c] = NoProc /\ scan[c] > 0
        BY <2>3 DEF Dispatch
      <4>3. scan[c] \in Nat /\ NPROC \in Nat
        BY DEF TypeOK
      <4>4. p \in 1..NPROC /\ state[p] = "RUNNABLE"
        BY <4>2, <4>3, <4>1 DEF RunnableFrom
      <4> QED BY <4>1, <4>2, <4>4
    <3>2. ~OnCPU(p) \/ pc[p] \in Leaving
      BY <3>1 DEF Discipline, RunningInv, OnCPU
    <3>3. ~OnCPU(p)
      <4>1. ASSUME NEW d \in CPUs, cproc[d] = p PROVE FALSE
        <5>1. holder[PTable] = d
          BY <3>2, <4>1 DEF Discipline, PTInv, OnCPU, Leaving, OwnsPT
        <5>2. holder[PTable] = c
          BY <3>1 DEF Discipline, PTInv
        <5> QED BY <3>1, <4>1, <5>1, <5>2
      <4> QED BY <4>1 DEF OnCPU
    <3>4. pc[p] \in Parked
      BY <3>3 DEF Discipline, ParkedInv
    <3>5. CliInv(c)'
      BY <2>3, <3>1, <3>4
         DEF Dispatch, Parked, HoldsTwo, HoldsNone, NotMine, InInterrupt, Preemptible
    <3> QED BY <3>5, <2>p, <2>d DEF Bookkeeping
  <2>4. CASE ScanEnd(c)
    <3>1. CliInv(c)'
      BY <2>4 DEF ScanEnd
    <3> QED BY <3>1, <2>p, <2>d DEF Bookkeeping
  <2> QED BY <1>2, <2>1, <2>2, <2>3, <2>4 DEF SchedulerStep
<1>3. ASSUME NEW c \in CPUs, NEW p \in Procs, cproc[c] = p,
             ProcStep(c, p) \/ Request(c, p) \/ TimerTick(c, p)
      PROVE  Bookkeeping'
  <2>c. CliInv(c) /\ cproc[c] # NoProc
    BY <1>3 DEF Bookkeeping
  <2>o. \A d \in CPUs \ {c} : cproc[d] # p
    BY <1>3 DEF Discipline, OneCPU
  <2>q. /\ \A q \in Procs \ {p} : pc'[q] = pc[q] /\ saved'[q] = saved[q]
        /\ \A d \in CPUs \ {c} :
             /\ cproc'[d] = cproc[d] /\ ncli'[d] = ncli[d] /\ ie'[d] = ie[d]
             /\ spin'[d] = spin[d] /\ scan'[d] = scan[d] /\ intena'[d] = intena[d]
    BY <1>3 DEF ProcStep, Request, TimerTick, AcquireEnter, AcquireTake, Release,
       CallReleaseSleep, CallAcquireSleep, CallKill, Call, Iret, AcquireSleepTest,
       AcquireSleepSet, ReleaseSleepClear, SleepMark, YieldMark, Sched, SchedReturn,
       Wakeup1, KillWake, PushCli, DoRelease, Goto, TypeOK, procVars, cpuVars
  <2>d. ASSUME NEW d \in CPUs, d # c PROVE CliInv(d)'
    <3>1. cproc[d] # NoProc => pc'[cproc[d]] = pc[cproc[d]]
      BY <2>d, <2>o, <2>q DEF TypeOK
    <3> QED BY <2>d, <2>q, <3>1, OthersCli
  <2>s. ASSUME CliInv(c)', pc'[p] = "sl_wake" => saved'[p] PROVE Bookkeeping'
    BY <2>s, <2>d, <2>q DEF Bookkeeping
  <2> USE <1>3, <2>c, <2>s DEF CliInv, Depth, TypeOK, procVars, cpuVars, At, Goto,
      Acquiring, Releasing, HoldsNone, HoldsTwo, NotMine, InInterrupt, Preemptible
  <2>1. CASE AcquireEnter(c, p)
    BY <2>1 DEF AcquireEnter, PushCli
  <2>2. CASE AcquireTake(c, p)
    BY <2>2 DEF AcquireTake, AfterAcquire
  <2>3. CASE Release(c, p)
    BY <2>3 DEF Release, DoRelease, AfterRelease
  <2>4. CASE CallReleaseSleep(c, p)
    BY <2>4 DEF CallReleaseSleep, Call
  <2>5. CASE Iret(c, p)
    BY <2>5 DEF Iret
  <2>6. CASE AcquireSleepTest(c, p)
    BY <2>6 DEF AcquireSleepTest
  <2>7. CASE AcquireSleepSet(c, p)
    BY <2>7 DEF AcquireSleepSet
  <2>8. CASE ReleaseSleepClear(c, p)
    BY <2>8 DEF ReleaseSleepClear
  <2>9. CASE SleepMark(c, p)
    BY <2>9 DEF SleepMark
  <2>10. CASE YieldMark(c, p)
    BY <2>10 DEF YieldMark
  <2>11. CASE Sched(c, p)
    BY <2>11 DEF Sched, SchedOK, Discipline, RunningInv
  <2>12. CASE SchedReturn(c, p)
    BY <2>12 DEF SchedReturn, Bookkeeping
  <2>13. CASE Wakeup1(c, p)
    BY <2>13 DEF Wakeup1
  <2>14. CASE KillWake(c, p)
    BY <2>14 DEF KillWake
  <2>15. CASE Request(c, p)
    BY <2>15 DEF Request, CallAcquireSleep, CallKill, Call
  <2>16. CASE TimerTick(c, p)
    BY <2>16 DEF TimerTick
  <2> QED BY <1>3, <2>1, <2>2, <2>3, <2>4, <2>5, <2>6, <2>7, <2>8, <2>9, <2>10, <2>11,
          <2>12, <2>13, <2>14, <2>15, <2>16 DEF ProcStep
<1>4. ASSUME NEW c \in CPUs, NEW p \in Procs,
             ProcStep(c, p) \/ Request(c, p) \/ TimerTick(c, p)
      PROVE  cproc[c] = p
  BY <1>4 DEF ProcStep, Request, TimerTick, AcquireEnter, AcquireTake, Release,
     CallReleaseSleep, CallAcquireSleep, CallKill, Iret, AcquireSleepTest,
     AcquireSleepSet, ReleaseSleepClear, SleepMark, YieldMark, Sched, SchedReturn,
     Wakeup1, KillWake, At
<1> QED BY <1>1, <1>2, <1>3, <1>4, NextCases

THEOREM BookkeepingInvariant == Spec => []Bookkeeping
<1>1. Init => Bookkeeping
  BY SleepLockAssumption DEF Init, Bookkeeping, CliInv, Depth, Procs
<1> QED BY <1>1, BookkeepingStep, TypeInvariant, LockDiscipline, PTL DEF Spec

\* Wherever a process has no spin lock it runs with interrupts on, whatever
\* CPU it slept on and whatever handler came between (sched's intena).
THEOREM InterruptsComeBack == Spec => []InterruptsOn
<1>1. TypeOK /\ Bookkeeping => InterruptsOn
  <2> SUFFICES ASSUME TypeOK, Bookkeeping, NEW c \in CPUs, NEW p \in Procs,
                      At(c, p, Preemptible), ~spin[c]
               PROVE  ie[c] /\ ncli[c] = 0
    BY DEF InterruptsOn
  <2>1. CliInv(c) /\ cproc[c] = p /\ p # NoProc /\ pc[p] \in Preemptible
    BY SleepLockAssumption DEF Bookkeeping, At, Procs
  <2> QED BY <2>1 DEF CliInv, Depth, Preemptible, HoldsNone, HoldsTwo
<1> QED BY <1>1, BookkeepingInvariant, TypeInvariant, PTL

\* No panic of acquire, release, popcli or sched is reached, for any number of
\* CPUs, processes and locks.
THEOREM NeverPanics == Spec => []NoPanic
<1>1. TypeOK /\ Discipline /\ Bookkeeping => NoPanic
  <2> SUFFICES ASSUME TypeOK, Discipline, Bookkeeping, NEW c \in CPUs
               PROVE  /\ cproc[c] = NoProc /\ scan[c] = 0 => holder[PTable] # c
                      /\ cproc[c] = NoProc /\ scan[c] > 0 =>
                           holder[PTable] = c /\ ncli[c] = 1 /\ ~ie[c]
                      /\ \A p \in Procs :
                           /\ At(c, p, Acquiring) => holder[LockOf(p)] # c
                           /\ At(c, p, Releasing) =>
                                holder[LockOf(p)] = c /\ ~ie[c] /\ ncli[c] > 0
                           /\ At(c, p, {"sl_sched", "y_sched"}) => SchedOK(c, p)
    BY DEF NoPanic
  <2>1. CliInv(c)
    BY DEF Bookkeeping
  <2>2. cproc[c] = NoProc /\ scan[c] = 0 => holder[PTable] # c
    BY DEF Discipline, PTInv, TypeOK
  <2>3. cproc[c] = NoProc /\ scan[c] > 0 => holder[PTable] = c /\ ncli[c] = 1 /\ ~ie[c]
    BY <2>1 DEF Discipline, PTInv, CliInv, Depth, TypeOK
  <2>4. ASSUME NEW p \in Procs, cproc[c] = p
        PROVE  /\ At(c, p, Acquiring) => holder[LockOf(p)] # c
               /\ At(c, p, Releasing) =>
                    holder[LockOf(p)] = c /\ ~ie[c] /\ ncli[c] > 0
               /\ At(c, p, {"sl_sched", "y_sched"}) => SchedOK(c, p)
    <3>1. p # NoProc /\ tgt[p] \in SLocks
      BY SleepLockAssumption DEF Procs, TypeOK
    <3>2. At(c, p, Acquiring) => holder[LockOf(p)] # c
      BY <2>4, <3>1 DEF At, Discipline, PTInv, LkInv, Acquiring, LockOf, OnPTable,
         OwnsPT, OwnsLk
    <3>3. At(c, p, Releasing) => holder[LockOf(p)] = c
      BY <2>4, <3>1 DEF At, Discipline, PTInv, LkInv, Releasing, LockOf, OnPTable,
         OwnsPT, OwnsLk
    <3>4. At(c, p, Releasing) => ~ie[c] /\ ncli[c] > 0
      BY <2>1, <2>4, <3>1 DEF At, CliInv, Depth, Releasing, HoldsNone, HoldsTwo
    <3>5. At(c, p, {"sl_sched", "y_sched"}) => SchedOK(c, p)
      BY <2>1, <2>4, <3>1
         DEF At, SchedOK, CliInv, Depth, HoldsNone, HoldsTwo, Acquiring, Discipline,
             PTInv, RunningInv, OwnsPT, Leaving
    <3> QED BY <3>2, <3>3, <3>4, <3>5
  <2> QED BY <2>2, <2>3, <2>4 DEF At
<1> QED BY <1>1, BookkeepingInvariant, TypeInvariant, LockDiscipline, PTL

----------------------------------------------------------------------------
(* The refinement of Mutex *)

\* A step that leaves every process's place in sleeplock.c in the same phase,
\* and every target alone, is a stutter of Mutex.
LEMMA MutexStutter ==
  ASSUME tgt' = tgt, \A q \in Procs : Phase(q)' = Phase(q)
  PROVE  UNCHANGED M!vars
BY DEF M!vars

\* One of a process's steps in sleeplock.c, the others staying where they are.
LEMMA MutexMove ==
  ASSUME NEW p \in Procs, NEW from, NEW to,
         Phase(p) = from, Phase(p)' = to,
         \A q \in Procs \ {p} : Phase(q)' = Phase(q)
  PROVE  M!Move(p, from, to)
BY DEF M!Move

LEMMA MutexStep ==
  TypeOK /\ HoldInv /\ Exclusion' /\ [Next]_vars => [M!Next]_(M!vars)
<1> SUFFICES ASSUME TypeOK, HoldInv, Exclusion', [Next]_vars PROVE [M!Next]_(M!vars)
  OBVIOUS
<1> USE DEF TypeOK, At, Goto, PCs, cpuVars, lockVars, procVars, Acquiring,
            Releasing, Preemptible, InInterrupt
<1>1. CASE UNCHANGED vars
  BY <1>1, MutexStutter DEF vars, Phase, Where
<1>2. ASSUME NEW c \in CPUs, SchedulerStep(c) PROVE UNCHANGED M!vars
  <2>1. UNCHANGED <<pc, ret, tgt>>
    BY <1>2 DEF SchedulerStep, ScanEnter, ScanTake, Dispatch, ScanEnd
  <2> QED BY <2>1, MutexStutter DEF Phase, Where
<1>3. ASSUME NEW c \in CPUs, NEW p \in Procs,
             ProcStep(c, p) \/ Request(c, p) \/ TimerTick(c, p)
      PROVE  [M!Next]_(M!vars)
  <2>1. CASE AcquireEnter(c, p)
    BY <2>1, MutexStutter DEF AcquireEnter, Phase, Where
  <2>2. CASE AcquireTake(c, p)
    <3>1. \A q \in Procs : Phase(q)' = Phase(q)
      BY <2>2 DEF AcquireTake, AfterAcquire, Phase, Where, Waiting, Holding
    <3> QED BY <2>2, <3>1, MutexStutter DEF AcquireTake
  <2>3. CASE Release(c, p)
    <3>1. \A q \in Procs : Phase(q)' = Phase(q)
      BY <2>3 DEF Release, AfterRelease, Phase, Where, Waiting, Holding, HoldInv
    <3> QED BY <2>3, <3>1, MutexStutter DEF Release
  <2>4. CASE CallReleaseSleep(c, p) \/ CallKill(c, p)
    <3>1. \A q \in Procs : Phase(q)' = Phase(q)
      BY <2>4 DEF CallReleaseSleep, CallKill, Call, Phase, Where, Waiting, Holding
    <3> QED BY <2>4, <3>1, MutexStutter DEF CallReleaseSleep, CallKill, Call
  <2>5. CASE CallAcquireSleep(c, p)
    <3>1. Phase(p) = "idle" /\ Phase(p)' = "waiting"
      BY <2>5 DEF CallAcquireSleep, Call, Phase, Where, Waiting, Holding
    <3>2. \A q \in Procs \ {p} : Phase(q)' = Phase(q)
      BY <2>5 DEF CallAcquireSleep, Call, Phase, Where
    <3>3. M!Move(p, "idle", "waiting")
      BY <3>1, <3>2, MutexMove
    <3> QED BY <2>5, <3>3 DEF CallAcquireSleep, Call, M!Next, M!Ask
  <2>6. CASE TimerTick(c, p) \/ Iret(c, p)
    <3>1. \A q \in Procs : Phase(q)' = Phase(q)
      BY <2>6 DEF TimerTick, Iret, Phase, Where, Waiting, Holding
    <3> QED BY <2>6, <3>1, MutexStutter DEF TimerTick, Iret
  <2>7. CASE AcquireSleepTest(c, p) \/ SleepMark(c, p) \/ Sched(c, p)
    <3>1. \A q \in Procs : Phase(q)' = Phase(q)
      BY <2>7 DEF AcquireSleepTest, SleepMark, Sched, Phase, Where, Waiting, Holding
    <3> QED BY <2>7, <3>1, MutexStutter DEF AcquireSleepTest, SleepMark, Sched
  <2>8. CASE YieldMark(c, p) \/ SchedReturn(c, p)
    <3>1. \A q \in Procs : Phase(q)' = Phase(q)
      BY <2>8 DEF YieldMark, SchedReturn, Phase, Where, Waiting, Holding
    <3> QED BY <2>8, <3>1, MutexStutter DEF YieldMark, SchedReturn
  <2>9. CASE Wakeup1(c, p) \/ KillWake(c, p)
    <3>1. \A q \in Procs : Phase(q)' = Phase(q)
      BY <2>9 DEF Wakeup1, KillWake, Phase, Where, Waiting, Holding
    <3> QED BY <2>9, <3>1, MutexStutter DEF Wakeup1, KillWake
  <2>10. CASE AcquireSleepSet(c, p)
    \* Exclusion after the step: nobody else can have held the lock before it.
    <3>1. Phase(p) = "waiting" /\ Phase(p)' = "holding"
      BY <2>10 DEF AcquireSleepSet, Phase, Where, Waiting, Holding
    <3>2. \A q \in Procs \ {p} : Where(q)' = Where(q)
      BY <2>10 DEF AcquireSleepSet, Where
    <3>3. \A q \in Procs : Phase(q) = "holding" <=> Where(q) \in Holding
      BY DEF Phase, Waiting, Holding
    <3>4. Where(p)' \in Holding /\ UNCHANGED tgt
      BY <2>10 DEF AcquireSleepSet, Where, Holding
    <3>5. ASSUME NEW q \in Procs, Phase(q) = "holding", tgt[q] = tgt[p]
          PROVE  FALSE
      BY <3>1, <3>2, <3>3, <3>4, <3>5 DEF Exclusion
    <3>6. M!Holders(tgt[p]) = {}
      BY <3>5 DEF M!Holders
    <3>7. M!Move(p, "waiting", "holding")
      BY <3>1, <3>2, MutexMove DEF Phase
    <3> QED BY <3>4, <3>6, <3>7 DEF M!Next, M!Grant
  <2>11. CASE ReleaseSleepClear(c, p)
    <3>1. Phase(p) = "holding" /\ Phase(p)' = "idle"
      BY <2>11 DEF ReleaseSleepClear, Phase, Where, Waiting, Holding
    <3>2. \A q \in Procs \ {p} : Phase(q)' = Phase(q)
      BY <2>11 DEF ReleaseSleepClear, Phase, Where
    <3>3. M!Move(p, "holding", "idle")
      BY <3>1, <3>2, MutexMove
    <3> QED BY <2>11, <3>3 DEF ReleaseSleepClear, M!Next, M!GiveBack
  <2> QED
    BY <1>3, <2>1, <2>2, <2>3, <2>4, <2>5, <2>6, <2>7, <2>8, <2>9, <2>10, <2>11
       DEF ProcStep, Request
<1> QED BY <1>1, <1>2, <1>3, NextCases

\* acquiresleep and releasesleep implement the abstract mutexes: one grant and
\* one return for each call, however many steps, sleeps and interrupts it takes.
THEOREM SleepLocksAreMutexes == Spec => ImplementsMutex
<1>1. Init => M!Init /\ HoldInv
  BY DEF Init, M!Init, Phase, Where, InInterrupt, Waiting, Holding, HoldInv
<1>2. TypeOK /\ Discipline /\ HoldInv /\ [Next]_vars => HoldInv'
  BY HoldStep
<1> QED
  BY <1>1, <1>2, MutexStep, TypeInvariant, LockDiscipline, SleepLocksExclude, PTL
     DEF Spec, ImplementsMutex, M!Spec
==========================================================================
