----------------------------- MODULE SleepLock -----------------------------
(***************************************************************************)
(* The part of the kernel every other part stands on: spin locks with the  *)
(* per-CPU interrupt bookkeeping (spinlock.c), the switch between process  *)
(* and scheduler contexts, sleep and wakeup (proc.c), the timer's yield    *)
(* (trap.c), and the sleep locks built from them (sleeplock.c).            *)
(*                                                                         *)
(* A CPU runs one context: the process cproc[c], on its kernel stack or in *)
(* user mode, or its scheduler when cproc[c] = NoProc.  A process that is  *)
(* not on a CPU is parked in sched(), at the point swtch returns to.       *)
(* Every process loops: take a sleep lock, hold it ("crit"), release it,   *)
(* or kill some process; timer interrupts come wherever IF is set.         *)
(***************************************************************************)
EXTENDS Integers, FiniteSets

CONSTANTS CPUs,     \* the processors
          NPROC,    \* slots of ptable.proc
          SLocks,   \* the sleep locks; s also names the spin lock s.lk
          PTable,   \* ptable.lock
          NoProc,   \* c->proc = 0, lk->pid = 0, chan = 0
          NoCPU     \* a spin lock with locked = 0

ASSUME SleepLockAssumption ==
  /\ NPROC \in Nat
  /\ PTable \notin SLocks
  /\ NoProc \notin 1..NPROC /\ NoProc \notin SLocks
  /\ NoCPU \notin CPUs

Procs == 1..NPROC
Locks == SLocks \cup {PTable}

VARIABLES
  state,    \* p->state of a slot in use
  chan,     \* p->chan
  pc,       \* where the process is, or where swtch will resume it
  tgt,      \* the sleep lock its current call is about
  ret,      \* where iret takes it after an interrupt
  saved,    \* the local variable intena of its frame of sched()
  cproc,    \* cpu->proc and the stack the CPU runs on
  ncli,     \* cpu->ncli
  intena,   \* cpu->intena
  ie,       \* the interrupt flag of eflags
  spin,     \* TRUE between acquire's pushcli and its successful xchg
  scan,     \* scheduler(): 0 outside ptable.lock, else the next slot
  holder,   \* spin lock -> the CPU holding it (locked and cpu)
  locked,   \* sleep lock -> lk->locked
  owner     \* sleep lock -> lk->pid

procVars == <<state, chan, pc, tgt, ret, saved>>
cpuVars  == <<cproc, ncli, intena, ie, spin, scan>>
lockVars == <<locked, owner>>
vars     == <<procVars, cpuVars, holder, lockVars>>

(***************************************************************************)
(* The calls of acquire and release a process makes: the point of the call *)
(* |-> the point after it.  Prefixes: as acquiresleep, sl sleep, rs        *)
(* releasesleep, wk wakeup, y yield, k kill.                               *)
(***************************************************************************)
\* The while of acquiresleep tests again; mutant: an if.
SleepReturnsIf == "as_set"
SleepReturns == "as_test"
\* sleep calls acquire(&ptable.lock) first; mutant: it does not.
SleepStartsBare == "sl_rel"
SleepStarts == "sl_acq"
\* ... and then release(lk); mutant: it keeps lk.
SleepLockedKeep == "sl_mark"
SleepLocked == "sl_rel"
\* releasesleep calls wakeup; mutant: it does not.
ClearedSilent == "rs_rel"
Cleared == "wk_acq"
\* yield acquires ptable.lock; mutant: it does not.
YieldStartsBare == "y_mark"
YieldStarts == "y_acq"

AfterAcquire ==
  [as_acq |-> "as_test", sl_acq |-> SleepLocked, sl_reacq |-> SleepReturns,
   rs_acq |-> "rs_clear", wk_acq |-> "wk_scan", y_acq |-> "y_mark",
   k_acq |-> "k_scan"]

AfterRelease ==
  [forkret |-> "iret", as_rel |-> "crit", sl_rel |-> "sl_mark",
   sl_relpt |-> "sl_reacq", wk_rel |-> "rs_rel", rs_rel |-> "user",
   y_rel |-> "iret", k_rel |-> "user"]

Acquiring == {"as_acq", "sl_acq", "sl_reacq", "rs_acq", "wk_acq", "y_acq",
              "k_acq"}
Releasing == {"forkret", "as_rel", "sl_rel", "sl_relpt", "wk_rel", "rs_rel",
              "y_rel", "k_rel"}
PCs == Acquiring \cup Releasing \cup
       {"user", "iret", "crit", "as_test", "as_set", "sl_mark", "sl_sched",
        "sl_wake", "rs_clear", "wk_scan", "y_mark", "y_sched", "y_back",
        "k_scan"}

\* The lock a call of acquire or release is about; the rest use s.lk.
OnPTable == {"forkret", "sl_acq", "sl_relpt", "wk_acq", "wk_rel", "y_acq",
             "y_rel", "k_acq", "k_rel"}
LockOf(p) == IF pc[p] \in OnPTable THEN PTable ELSE tgt[p]

\* Points with no lock held and interrupts on: a timer tick is taken here.
Preemptible == {"user", "crit", "as_acq", "sl_reacq", "rs_acq", "k_acq"}

Init ==
  /\ state = [p \in Procs |-> "RUNNABLE"]
  /\ chan = [p \in Procs |-> NoProc]
  /\ pc = [p \in Procs |-> "forkret"]
  /\ tgt \in [Procs -> SLocks]
  /\ ret = [p \in Procs |-> "user"]
  /\ saved = [p \in Procs |-> FALSE]
  /\ cproc = [c \in CPUs |-> NoProc]
  /\ ncli = [c \in CPUs |-> 0]
  /\ intena = [c \in CPUs |-> FALSE]
  /\ ie = [c \in CPUs |-> TRUE]
  /\ spin = [c \in CPUs |-> FALSE]
  /\ scan = [c \in CPUs |-> 0]
  /\ holder = [l \in Locks |-> NoCPU]
  /\ locked = [s \in SLocks |-> FALSE]
  /\ owner = [s \in SLocks |-> NoProc]

----------------------------------------------------------------------------
(* spinlock.c, as effects on CPU c *)

\* pushcli: the interrupt flag found by the outermost call is remembered.
PushCli(c) ==
  /\ ie' = [ie EXCEPT ![c] = FALSE]
  /\ intena' = IF ncli[c] = 0 THEN [intena EXCEPT ![c] = ie[c]] ELSE intena
  /\ ncli' = [ncli EXCEPT ![c] = @ + 1]

\* release of lock l, then popcli; the panics of both are guards, and
\* NoPanic says that they are never reached.
DoRelease(c, l) ==
  /\ holder[l] = c
  /\ ~ie[c] /\ ncli[c] > 0
  /\ holder' = [holder EXCEPT ![l] = NoCPU]
  /\ ncli' = [ncli EXCEPT ![c] = @ - 1]
  /\ ie' = [ie EXCEPT ![c] = ncli[c] = 1 /\ intena[c]]

At(c, p, points) == cproc[c] = p /\ pc[p] \in points
Goto(p, point) == pc' = [pc EXCEPT ![p] = point]

\* xchg found 0; mutant: the old value is not looked at.
FreeUnchecked(l) == TRUE
Free(l) == holder[l] = NoCPU

\* acquire, up to the check that this CPU does not already hold the lock ...
AcquireEnter(c, p) ==
  /\ At(c, p, Acquiring) /\ ~spin[c]
  /\ holder[LockOf(p)] # c
  /\ PushCli(c)
  /\ spin' = [spin EXCEPT ![c] = TRUE]
  /\ UNCHANGED <<procVars, cproc, scan, holder, lockVars>>

\* ... and the xchg that finds the lock free.
AcquireTake(c, p) ==
  /\ At(c, p, Acquiring) /\ spin[c]
  /\ Free(LockOf(p))
  /\ holder' = [holder EXCEPT ![LockOf(p)] = c]
  /\ spin' = [spin EXCEPT ![c] = FALSE]
  /\ Goto(p, AfterAcquire[pc[p]])
  /\ UNCHANGED <<state, chan, tgt, ret, saved, cproc, ncli, intena, ie, scan,
                 lockVars>>

Release(c, p) ==
  /\ At(c, p, Releasing)
  /\ DoRelease(c, LockOf(p))
  /\ Goto(p, AfterRelease[pc[p]])
  /\ UNCHANGED <<state, chan, tgt, ret, saved, cproc, intena, spin, scan,
                 lockVars>>

----------------------------------------------------------------------------
(* The system calls and interrupts that start the activities below *)

Call(c, p, point, s) ==
  /\ Goto(p, point)
  /\ tgt' = [tgt EXCEPT ![p] = s]
  /\ UNCHANGED <<state, chan, ret, saved, cpuVars, holder, lockVars>>

CallAcquireSleep(c, p) ==
  At(c, p, {"user"}) /\ \E s \in SLocks : Call(c, p, "as_acq", s)
CallReleaseSleep(c, p) == At(c, p, {"crit"}) /\ Call(c, p, "rs_acq", tgt[p])
CallKill(c, p) == At(c, p, {"user"}) /\ Call(c, p, "k_acq", tgt[p])

\* The timer interrupt: the gate clears IF, and trap calls yield.
TimerTick(c, p) ==
  /\ At(c, p, Preemptible) /\ ie[c] /\ ~spin[c]
  /\ state[p] = "RUNNING"
  /\ ie' = [ie EXCEPT ![c] = FALSE]
  /\ ret' = [ret EXCEPT ![p] = pc[p]]
  /\ Goto(p, YieldStarts)
  /\ UNCHANGED <<state, chan, tgt, saved, cproc, ncli, intena, spin, scan,
                 holder, lockVars>>

\* trapret: iret restores the eflags of the trap frame, where IF is set.
Iret(c, p) ==
  /\ At(c, p, {"iret"})
  /\ ie' = [ie EXCEPT ![c] = TRUE]
  /\ Goto(p, ret[p])
  /\ ret' = [ret EXCEPT ![p] = "user"]       \* the trap frame is gone
  /\ UNCHANGED <<state, chan, tgt, saved, cproc, ncli, intena, spin, scan,
                 holder, lockVars>>

----------------------------------------------------------------------------
(* sleeplock.c *)

AcquireSleepTest(c, p) ==
  /\ At(c, p, {"as_test"})
  /\ Goto(p, IF locked[tgt[p]] THEN SleepStarts ELSE "as_set")
  /\ UNCHANGED <<state, chan, tgt, ret, saved, cpuVars, holder, lockVars>>

AcquireSleepSet(c, p) ==
  /\ At(c, p, {"as_set"})
  /\ locked' = [locked EXCEPT ![tgt[p]] = TRUE]
  /\ owner' = [owner EXCEPT ![tgt[p]] = p]
  /\ Goto(p, "as_rel")
  /\ UNCHANGED <<state, chan, tgt, ret, saved, cpuVars, holder>>

ReleaseSleepClear(c, p) ==
  /\ At(c, p, {"rs_clear"})
  /\ locked' = [locked EXCEPT ![tgt[p]] = FALSE]
  /\ owner' = [owner EXCEPT ![tgt[p]] = NoProc]
  /\ Goto(p, Cleared)
  /\ UNCHANGED <<state, chan, tgt, ret, saved, cpuVars, holder>>

----------------------------------------------------------------------------
(* proc.c: sleep, wakeup, kill, yield, sched, scheduler *)

SleepMark(c, p) ==
  /\ At(c, p, {"sl_mark"})
  /\ chan' = [chan EXCEPT ![p] = tgt[p]]
  /\ state' = [state EXCEPT ![p] = "SLEEPING"]
  /\ Goto(p, "sl_sched")
  /\ UNCHANGED <<tgt, ret, saved, cpuVars, holder, lockVars>>

YieldMark(c, p) ==
  /\ At(c, p, {"y_mark"})
  /\ state' = [state EXCEPT ![p] = "RUNNABLE"]
  /\ Goto(p, "y_sched")
  /\ UNCHANGED <<chan, tgt, ret, saved, cpuVars, holder, lockVars>>

\* sched: the four panics, then swtch to this CPU's scheduler.
SchedOK(c, p) ==
  holder[PTable] = c /\ ncli[c] = 1 /\ state[p] # "RUNNING" /\ ~ie[c]
Sched(c, p) ==
  /\ At(c, p, {"sl_sched", "y_sched"})
  /\ SchedOK(c, p)
  /\ saved' = [saved EXCEPT ![p] = intena[c]]
  /\ cproc' = [cproc EXCEPT ![c] = NoProc]
  /\ Goto(p, IF pc[p] = "sl_sched" THEN "sl_wake" ELSE "y_back")
  /\ UNCHANGED <<state, chan, tgt, ret, ncli, intena, ie, spin, scan, holder,
                 lockVars>>

\* The intena sched goes on with; mutant: whatever the CPU has.
RestoredAsIs(c, p) == intena[c]
Restored(c, p) == saved[p]

\* swtch has returned: sched restores intena, sleep tidies up.
SchedReturn(c, p) ==
  /\ At(c, p, {"sl_wake", "y_back"})
  /\ intena' = [intena EXCEPT ![c] = Restored(c, p)]
  /\ saved' = [saved EXCEPT ![p] = FALSE]    \* the frame of sched is gone
  /\ chan' = IF pc[p] = "sl_wake" THEN [chan EXCEPT ![p] = NoProc] ELSE chan
  /\ Goto(p, IF pc[p] = "sl_wake" THEN "sl_relpt" ELSE "y_rel")
  /\ UNCHANGED <<state, tgt, ret, cproc, ncli, ie, spin, scan, holder,
                 lockVars>>

Wakeup1(c, p) ==
  /\ At(c, p, {"wk_scan"})
  /\ state' = [q \in Procs |->
                 IF state[q] = "SLEEPING" /\ chan[q] = tgt[p]
                 THEN "RUNNABLE" ELSE state[q]]
  /\ Goto(p, "wk_rel")
  /\ UNCHANGED <<chan, tgt, ret, saved, cpuVars, holder, lockVars>>

\* kill's effect on scheduling; a sleeper it wakes finds its condition as is.
KillWake(c, p) ==
  /\ At(c, p, {"k_scan"})
  /\ \E q \in Procs :
       state' = IF state[q] = "SLEEPING" THEN [state EXCEPT ![q] = "RUNNABLE"]
                ELSE state
  /\ Goto(p, "k_rel")
  /\ UNCHANGED <<chan, tgt, ret, saved, cpuVars, holder, lockVars>>

\* scheduler: sti, then acquire(&ptable.lock).
ScanEnter(c) ==
  /\ cproc[c] = NoProc /\ scan[c] = 0 /\ ~spin[c]
  /\ holder[PTable] # c
  /\ PushCli(c)
  /\ spin' = [spin EXCEPT ![c] = TRUE]
  /\ UNCHANGED <<procVars, cproc, scan, holder, lockVars>>

ScanTake(c) ==
  /\ cproc[c] = NoProc /\ scan[c] = 0 /\ spin[c]
  /\ Free(PTable)
  /\ holder' = [holder EXCEPT ![PTable] = c]
  /\ spin' = [spin EXCEPT ![c] = FALSE]
  /\ scan' = [scan EXCEPT ![c] = 1]
  /\ UNCHANGED <<procVars, cproc, ncli, intena, ie, lockVars>>

\* p++ of the loop; mutant: it starts over.
NextSlotFirst(p) == 1
NextSlot(p) == p + 1

\* The slots the loop still has to look at in this round.
RunnableFrom(i) == {p \in i..NPROC : state[p] = "RUNNABLE"}

\* The next RUNNABLE slot is dispatched; the loop will go on after it.
Dispatch(c) ==
  /\ cproc[c] = NoProc /\ scan[c] > 0
  /\ \E p \in RunnableFrom(scan[c]) :
       /\ \A q \in RunnableFrom(scan[c]) : p <= q
       /\ cproc' = [cproc EXCEPT ![c] = p]
       /\ state' = [state EXCEPT ![p] = "RUNNING"]
       /\ scan' = [scan EXCEPT ![c] = NextSlot(p)]
  /\ UNCHANGED <<chan, pc, tgt, ret, saved, ncli, intena, ie, spin, holder,
                 lockVars>>

\* End of a round: release(&ptable.lock), and the sti of the next round.
ScanEnd(c) ==
  /\ cproc[c] = NoProc /\ scan[c] > 0 /\ RunnableFrom(scan[c]) = {}
  /\ holder[PTable] = c /\ ~ie[c] /\ ncli[c] > 0
  /\ holder' = [holder EXCEPT ![PTable] = NoCPU]
  /\ ncli' = [ncli EXCEPT ![c] = @ - 1]
  /\ ie' = [ie EXCEPT ![c] = TRUE]
  /\ scan' = [scan EXCEPT ![c] = 0]
  /\ UNCHANGED <<procVars, cproc, intena, spin, lockVars>>

----------------------------------------------------------------------------
ProcStep(c, p) ==
  \/ AcquireEnter(c, p)
  \/ AcquireTake(c, p)
  \/ Release(c, p)
  \/ CallReleaseSleep(c, p)
  \/ Iret(c, p)
  \/ AcquireSleepTest(c, p)
  \/ AcquireSleepSet(c, p)
  \/ ReleaseSleepClear(c, p)
  \/ SleepMark(c, p)
  \/ YieldMark(c, p)
  \/ Sched(c, p)
  \/ SchedReturn(c, p)
  \/ Wakeup1(c, p)
  \/ KillWake(c, p)

\* What user programs and the clock start; nothing forces the system calls.
Request(c, p) == CallAcquireSleep(c, p) \/ CallKill(c, p)

SchedulerStep(c) == ScanEnter(c) \/ ScanTake(c) \/ Dispatch(c) \/ ScanEnd(c)

Next == \E c \in CPUs :
          \/ SchedulerStep(c)
          \/ \E p \in Procs : ProcStep(c, p) \/ Request(c, p) \/ TimerTick(c, p)

Spec == Init /\ [][Next]_vars

\* A CPU keeps executing; an interrupt raised while IF is clear stays pending
\* in the local APIC until IF is set; and ticks are rarer than instructions,
\* so a process back from an interrupt gets to execute the point it was at.
CPUStep(c) == SchedulerStep(c) \/ \E p \in Procs : ProcStep(c, p)
Tick(c) == \E p \in Procs : TimerTick(c, p)
OwnStep(p) == pc[p] \in Preemptible /\ \E c \in CPUs : ProcStep(c, p)
FairSpec ==
  /\ Spec
  /\ \A c \in CPUs : WF_vars(CPUStep(c)) /\ SF_vars(Tick(c))
  /\ \A p \in Procs : SF_vars(OwnStep(p))

----------------------------------------------------------------------------
TypeOK ==
  /\ state \in [Procs -> {"RUNNABLE", "RUNNING", "SLEEPING"}]
  /\ chan \in [Procs -> SLocks \cup {NoProc}]
  /\ pc \in [Procs -> PCs]
  /\ tgt \in [Procs -> SLocks]
  /\ ret \in [Procs -> Preemptible]
  /\ saved \in [Procs -> BOOLEAN]
  /\ cproc \in [CPUs -> Procs \cup {NoProc}]
  /\ ncli \in [CPUs -> Nat]
  /\ intena \in [CPUs -> BOOLEAN]
  /\ ie \in [CPUs -> BOOLEAN]
  /\ spin \in [CPUs -> BOOLEAN]
  /\ scan \in [CPUs -> 0..NPROC + 1]
  /\ holder \in [Locks -> CPUs \cup {NoCPU}]
  /\ locked \in [SLocks -> BOOLEAN]
  /\ owner \in [SLocks -> Procs \cup {NoProc}]

\* The point of the interrupted program while an interrupt is handled.
InInterrupt == {"iret", "y_acq", "y_mark", "y_sched", "y_back", "y_rel"}
Where(p) == IF pc[p] \in InInterrupt THEN ret[p] ELSE pc[p]

\* Points between lk->locked = 1 and lk->locked = 0.
Holding == {"as_rel", "crit", "rs_acq", "rs_clear"}
OnCPU(p) == \E c \in CPUs : cproc[c] = p

(***************************************************************************)
(* Two processes never both hold a sleep lock, whatever the interleaving   *)
(* of acquiresleep, releasesleep, wakeups, kills and preemptions           *)
(* (sleeplock.c:22-42), and lk->pid names the one that does.               *)
(***************************************************************************)
Exclusion ==
  /\ \A p, q \in Procs :
       Where(p) \in Holding /\ Where(q) \in Holding /\ tgt[p] = tgt[q]
         => p = q
  /\ \A p \in Procs :
       Where(p) \in Holding => locked[tgt[p]] /\ owner[tgt[p]] = p

(***************************************************************************)
(* No wakeup is missed (the comment of sleep, proc.c:429-433): a process   *)
(* that sleeps on a lock sleeps because the lock is taken, or a release is *)
(* on its way to wakeup1 and will find it.                                 *)
(***************************************************************************)
WakeupComing(s) ==
  \E q \in Procs : pc[q] \in {"wk_acq", "wk_scan"} /\ tgt[q] = s
NoLostWakeup ==
  \A p \in Procs :
    state[p] = "SLEEPING" => locked[chan[p]] \/ WakeupComing(chan[p])

(***************************************************************************)
(* ptable.lock is handed from a process to the scheduler and back through  *)
(* swtch: a process runs on at most one CPU, a RUNNING one runs, and while *)
(* a process that is no longer RUNNING is still on its CPU, that CPU holds *)
(* ptable.lock, so that no other scheduler can use its stack (proc.c).     *)
(***************************************************************************)
OneStack ==
  /\ \A c, d \in CPUs : cproc[c] = cproc[d] /\ cproc[c] # NoProc => c = d
  /\ \A p \in Procs : state[p] = "RUNNING" => OnCPU(p)
  /\ \A c \in CPUs :
       cproc[c] # NoProc /\ state[cproc[c]] # "RUNNING" => holder[PTable] = c

(***************************************************************************)
(* The panics of acquire, release, popcli and sched are never reached:     *)
(* a lock is never taken twice by its CPU nor released by another, and     *)
(* sched is entered with exactly ptable.lock held and interrupts off.      *)
(***************************************************************************)
NoPanic ==
  \A c \in CPUs :
    /\ cproc[c] = NoProc /\ scan[c] = 0 => holder[PTable] # c
    /\ cproc[c] = NoProc /\ scan[c] > 0 =>
         holder[PTable] = c /\ ncli[c] = 1 /\ ~ie[c]
    /\ \A p \in Procs :
         /\ At(c, p, Acquiring) => holder[LockOf(p)] # c
         /\ At(c, p, Releasing) =>
              holder[LockOf(p)] = c /\ ~ie[c] /\ ncli[c] > 0
         /\ At(c, p, {"sl_sched", "y_sched"}) => SchedOK(c, p)

(***************************************************************************)
(* intena is a property of the kernel thread and not of the CPU (comment   *)
(* of sched, proc.c:359-365): wherever a process has no spin lock it runs  *)
(* with interrupts on, on whichever CPU it was resumed, and with none of   *)
(* the pushcli calls of a lock left over.                                  *)
(***************************************************************************)
InterruptsOn ==
  \A c \in CPUs, p \in Procs :
    At(c, p, Preemptible) /\ ~spin[c] => ie[c] /\ ncli[c] = 0

\* The loop of scheduler (proc.c:330-355) passes every slot: a RUNNABLE
\* process is eventually dispatched.
RunnableRuns ==
  \A p \in Procs : state[p] = "RUNNABLE" ~> state[p] = "RUNNING"

\* As every holder releases its lock, a sleeper is eventually woken up.
SleeperWoken ==
  \A p \in Procs : state[p] = "SLEEPING" ~> state[p] = "RUNNABLE"

----------------------------------------------------------------------------
\* The sleep locks implement the abstract mutexes.
Waiting == {"as_acq", "as_test", "as_set", "sl_acq", "sl_rel", "sl_mark",
            "sl_sched", "sl_wake", "sl_relpt", "sl_reacq"}
Phase(p) == IF Where(p) \in Waiting THEN "waiting"
            ELSE IF Where(p) \in Holding THEN "holding" ELSE "idle"

M == INSTANCE Mutex WITH Clients <- Procs, Mutexes <- SLocks,
                         phase <- [p \in Procs |-> Phase(p)], lock <- tgt

(***************************************************************************)
(* acquiresleep and releasesleep behave as one atomic grant and one atomic *)
(* return each, however many steps, sleeps and interrupts they take        *)
(* (sleeplock.c:22-42): the lock is granted to a caller that asked for it  *)
(* and only while nobody has it.                                           *)
(***************************************************************************)
ImplementsMutex == M!Spec
============================================================================
