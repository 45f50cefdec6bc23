------------------------------- MODULE PartsMC ------------------------------
(***************************************************************************)
(* Small instances of parts of the kernels that share no variable with one *)
(* another: the nice scheduler, sleep locks under xv6's scheduler on one   *)
(* CPU, the console's input and the mutexes of threads.  A behaviour of    *)
(* all of them is an interleaving of one of each, and a property of one    *)
(* part is a property of its own steps; so each behaviour here is of one   *)
(* part, chosen in the initial state, and fairness is asked of that part's *)
(* steps.                                                                  *)
(***************************************************************************)
EXTENDS NiceSched

CONSTANTS CPUs, NPROC, SLocks, PTable, NoProc, NoCPU,
          Readers, INPUT_BUF, WRAP, MaxAsked,
          Threads, QMAX, NULL

VARIABLES
  part,
  lstate, chan, pc, tgt, ret, saved, cproc, ncli, intena, ie, spin, scan,
  holder, locked, owner,
  buf, r, w, e, rpc, asked, left, rkilled,
  lock, current, queue, qsize, qnext, waiter, wqueue, wqsize, wqnext, tpc,
  back, target, lost, broken

Sleep == INSTANCE SleepLock WITH state <- lstate
Console == INSTANCE ConsoleInput
Sync == INSTANCE ThreadSync

ASSUME PartsAssumption == Console!ConsoleAssumption /\ Sync!SyncAssumption

sleepvars == <<lstate, chan, pc, tgt, ret, saved, cproc, ncli, intena, ie, spin,
               scan, holder, locked, owner>>
consvars == <<buf, r, w, e, rpc, asked, left, rkilled>>
syncvars == <<lock, current, queue, qsize, qnext, waiter, wqueue, wqsize, wqnext,
              tpc, back, target, lost, broken>>
allvars == <<part, vars, sleepvars, consvars, syncvars>>

PartsInit ==
  /\ part \in {"nice", "sleep", "console", "sync"}
  /\ Init /\ (part # "nice" => nice = [s \in Slots |-> 0])
  /\ Sleep!Init /\ Console!Init /\ Sync!Init

NiceStep == part = "nice" /\ UNCHANGED <<part, sleepvars, consvars, syncvars>>
SleepStep == part = "sleep" /\ UNCHANGED <<part, vars, consvars, syncvars>>
ConsoleStep == part = "console" /\ UNCHANGED <<part, vars, sleepvars, syncvars>>
SyncStep == part = "sync" /\ UNCHANGED <<part, vars, sleepvars, consvars>>

PartsNext ==
  \/ NiceStep /\ Next
  \/ SleepStep /\ Sleep!Next
  \/ ConsoleStep /\ Console!Next
  \/ SyncStep /\ Sync!Next

\* The fairness of NiceSched and of SleepLock.
PartsSpec ==
  /\ PartsInit /\ [][PartsNext]_allvars
  /\ \A c \in Cpus : /\ WF_vars(part = "nice" /\ Schedule(c))
                     /\ WF_vars(part = "nice" /\ (Yield(c) \/ Block(c)))
  /\ \A c \in CPUs : /\ WF_sleepvars(part = "sleep" /\ Sleep!CPUStep(c))
                     /\ SF_sleepvars(part = "sleep" /\ Sleep!Tick(c))
  /\ \A p \in Sleep!Procs : SF_sleepvars(part = "sleep" /\ Sleep!OwnStep(p))

----------------------------------------------------------------------------
(* Properties of the parts; OneCpuEach is NiceSched's. *)

\* No process waits while all others that wait or run are less nice: some CPU
\* takes it when its program gives up (project 4's scheduler).
NicestScheduled ==
  \A p \in Slots :
    ~<>[](/\ part = "nice" /\ state[p] = "RUNNABLE"
          /\ \A q \in ToRun \ {p} : nice[p] < nice[q])

\* The scheduler's scan reaches every RUNNABLE process (proc.c's scheduler).
RunnableRuns ==
  \A p \in Sleep!Procs :
    (part = "sleep" /\ lstate[p] = "RUNNABLE") ~> lstate[p] = "RUNNING"

\* As every holder of a sleep lock releases it, every sleeper is woken up.
SleeperWoken ==
  \A p \in Sleep!Procs :
    (part = "sleep" /\ lstate[p] = "SLEEPING") ~> lstate[p] = "RUNNABLE"

\* consoleintr and consoleread implement a queue of lines, across the wrap of
\* their counters, and ^D is read by itself.
ImplementsLineQueue == Console!ImplementsLineQueue

\* No reader of the console sleeps while there is a finished line, or killed.
ReaderAwake == Console!TypeOK /\ Console!ReaderAwake

\* One thread has project 3's mutex, and is its current until it unlocks.
MutexOwned == Sync!TypeOK /\ Sync!MutexOwned
=============================================================================
