----------------------------- MODULE ThreadSync -----------------------------
(***************************************************************************)
(* Mutexes and condition variables of project 3 (synch.c): threads that    *)
(* lock and unlock one mutex and wait for and signal one condition.        *)
(*                                                                         *)
(* Nothing but the mutex's xchg is atomic, so every access to a shared     *)
(* field is a step of its own.  cond_t has no lock at all.  Thread ids     *)
(* differ (ProcTable has how they are given).                              *)
(***************************************************************************)
EXTENDS Naturals, Sequences

CONSTANTS Threads,
          QMAX,       \* queue[10]: a longer queue is not modelled
          NULL

SyncAssumption == QMAX \in Nat /\ NULL \notin Threads

VARIABLES
  lock, current, queue, qsize, qnext,     \* struct mutex_t
  waiter, wqueue, wqsize, wqnext,         \* struct cond_t: current and its queue
  tpc,
  back,      \* where mutex_unlock, or cond_signal, goes on
  target,    \* the thread twake is about
  lost,      \* came out of mutex_lock through a NULL current
  broken     \* "twake error"

mutex == <<lock, current, queue, qsize, qnext>>
cond == <<waiter, wqueue, wqsize, wqnext>>
syncvars == <<mutex, cond, tpc, back, target, lost, broken>>

Slots == 0..QMAX

Init ==
  /\ lock = 0 /\ current = NULL
  /\ queue = [i \in Slots |-> NULL] /\ qsize = 0 /\ qnext = 0
  /\ waiter = NULL
  /\ wqueue = [i \in Slots |-> NULL] /\ wqsize = 0 /\ wqnext = 0
  /\ tpc = [t \in Threads |-> "out"] /\ back = tpc
  /\ target = [t \in Threads |-> NULL]
  /\ lost = [t \in Threads |-> FALSE]
  /\ broken = FALSE

At(t, point) == tpc[t] = point /\ ~broken
Goto(t, point) == tpc' = [tpc EXCEPT ![t] = point]

----------------------------------------------------------------------------
(* mutex_lock *)

\* A thread that is current gets -3.
LockEnter(t) ==
  /\ (At(t, "out") \/ At(t, "woken"))
  /\ Goto(t, IF current = t THEN "out" ELSE "xchg")
  /\ UNCHANGED <<mutex, cond, back, target, lost, broken>>

\* while(xchg(&mutex->lock, 1) != 0); mutant: it does not wait.
Passes == TRUE
Open == lock = 0

LockXchg(t) ==
  /\ At(t, "xchg") /\ Open
  /\ lock' = 1 /\ Goto(t, "test")
  /\ UNCHANGED <<current, queue, qsize, qnext, cond, back, target, lost, broken>>

LockTest(t) ==
  /\ At(t, "test")
  /\ Goto(t, IF current = NULL THEN "set" ELSE "enqueue")
  /\ UNCHANGED <<mutex, cond, back, target, lost, broken>>

LockSet(t) ==
  /\ At(t, "set")
  /\ current' = t /\ Goto(t, "in")
  /\ UNCHANGED <<lock, queue, qsize, qnext, cond, back, target, lost, broken>>

LockEnqueue(t) ==
  /\ At(t, "enqueue") /\ qsize < QMAX
  /\ queue' = [queue EXCEPT ![qsize] = t] /\ qsize' = qsize + 1
  /\ Goto(t, "spin")
  /\ UNCHANGED <<lock, current, qnext, cond, back, target, lost, broken>>

LockSpin(t) ==
  /\ At(t, "spin") /\ current = NULL
  /\ Goto(t, "match")
  /\ UNCHANGED <<mutex, cond, back, target, lost, broken>>

\* current->tid: of a NULL current it is a word of the program, which may be
\* the thread's id.
LockMatch(t) ==
  /\ At(t, "match") /\ current \in {t, NULL}
  /\ lost' = [lost EXCEPT ![t] = current = NULL]
  /\ Goto(t, "in")
  /\ UNCHANGED <<mutex, cond, back, target, broken>>

----------------------------------------------------------------------------
(* mutex_unlock *)

\* -3 unless the thread is current.
Unlock(t, point) ==
  IF current = t
  THEN /\ Goto(t, "next")
       /\ back' = [back EXCEPT ![t] = point] /\ UNCHANGED lost
  ELSE /\ Goto(t, IF point = "out" THEN "out" ELSE "in")
       /\ lost' = [lost EXCEPT ![t] = @ /\ point # "out"] /\ UNCHANGED back

UnlockEnter(t) ==
  /\ At(t, "in") /\ Unlock(t, "out")
  /\ UNCHANGED <<mutex, cond, target, broken>>

UnlockNext(t) ==
  /\ At(t, "next")
  /\ IF queue[qnext] # NULL THEN current' = queue[qnext] /\ qnext' = qnext + 1
     ELSE UNCHANGED <<current, qnext>>
  /\ Goto(t, "open")
  /\ UNCHANGED <<lock, queue, qsize, cond, back, target, lost, broken>>

\* The lock is opened before current is cleared.
UnlockOpen(t) ==
  /\ At(t, "open")
  /\ lock' = 0 /\ Goto(t, "clear")
  /\ UNCHANGED <<current, queue, qsize, qnext, cond, back, target, lost, broken>>

UnlockClear(t) ==
  /\ At(t, "clear")
  /\ current' = NULL
  /\ Goto(t, back[t]) /\ back' = [back EXCEPT ![t] = "out"]
  /\ UNCHANGED <<lock, queue, qsize, qnext, cond, target, lost, broken>>

----------------------------------------------------------------------------
(* cond_wait *)

WaitEnter(t) ==
  /\ At(t, "in") /\ Unlock(t, "register")
  /\ UNCHANGED <<mutex, cond, target, broken>>

WaitTest(t) ==
  /\ At(t, "register")
  /\ Goto(t, IF waiter = NULL THEN "first" ELSE "append")
  /\ UNCHANGED <<mutex, cond, back, target, lost, broken>>

WaitFirst(t) ==
  /\ At(t, "first")
  /\ waiter' = t /\ Goto(t, "tsleep")
  /\ UNCHANGED <<mutex, wqueue, wqsize, wqnext, back, target, lost, broken>>

WaitAppend(t) ==
  /\ At(t, "append") /\ wqsize < QMAX
  /\ wqueue' = [wqueue EXCEPT ![wqsize] = t] /\ Goto(t, "grow")
  /\ UNCHANGED <<mutex, waiter, wqsize, wqnext, back, target, lost, broken>>

WaitGrow(t) ==
  /\ At(t, "grow")
  /\ wqsize' = wqsize + 1 /\ Goto(t, "tsleep")
  /\ UNCHANGED <<mutex, waiter, wqueue, wqnext, back, target, lost, broken>>

Tsleep(t) ==
  /\ At(t, "tsleep") /\ Goto(t, "asleep")
  /\ UNCHANGED <<mutex, cond, back, target, lost, broken>>

\* A sleeper's channel is its own proc: kill makes it RUNNABLE, and so do exit
\* and thread_exit of its children, with wakeup1(parent).  cond_wait goes on.
Roused(t) ==
  /\ At(t, "asleep") /\ Goto(t, "woken")
  /\ UNCHANGED <<mutex, cond, back, target, lost, broken>>

----------------------------------------------------------------------------
(* cond_signal, by a thread that has the mutex or not *)

SignalTest(t) ==
  /\ (At(t, "out") \/ At(t, "in")) /\ wqnext \in Slots
  /\ LET s == IF waiter # NULL THEN waiter ELSE wqueue[wqnext] IN
       /\ s # NULL
       /\ target' = [target EXCEPT ![t] = s]
       /\ back' = [back EXCEPT ![t] = tpc[t]]
       /\ Goto(t, IF s = waiter THEN "wakefirst" ELSE "wakenext")
  /\ UNCHANGED <<mutex, cond, lost, broken>>

\* twake looks at the state without ptable.lock, and panics unless SLEEPING.
Twake(t) ==
  /\ At(t, "wakefirst") \/ At(t, "wakenext")
  /\ IF tpc[target[t]] = "asleep"
     THEN /\ Goto(t, IF tpc[t] = "wakefirst" THEN "callfirst" ELSE "callnext")
          /\ UNCHANGED broken
     ELSE broken' = TRUE /\ UNCHANGED tpc
  /\ UNCHANGED <<mutex, cond, back, target, lost>>

\* wakeup1, under ptable.lock; the thread may have been roused meanwhile.
TwakeCall(t) ==
  /\ At(t, "callfirst") \/ At(t, "callnext")
  /\ tpc' = [u \in Threads |->
               IF u = t THEN IF tpc[t] = "callfirst" THEN "unset" ELSE "advance"
               ELSE IF u = target[t] /\ tpc[u] = "asleep" THEN "woken"
               ELSE tpc[u]]
  /\ target' = [target EXCEPT ![t] = NULL]
  /\ UNCHANGED <<mutex, cond, back, lost, broken>>

SignalUnset(t) ==
  /\ At(t, "unset") \/ At(t, "advance")
  /\ waiter' = NULL
  /\ wqnext' = IF tpc[t] = "advance" THEN wqnext + 1 ELSE wqnext
  /\ Goto(t, back[t]) /\ back' = [back EXCEPT ![t] = "out"]
  /\ UNCHANGED <<mutex, wqueue, wqsize, target, lost, broken>>

----------------------------------------------------------------------------
Next == \E t \in Threads :
  \/ LockEnter(t) \/ LockXchg(t) \/ LockTest(t) \/ LockSet(t) \/ LockEnqueue(t)
  \/ LockSpin(t) \/ LockMatch(t)
  \/ UnlockEnter(t) \/ UnlockNext(t) \/ UnlockOpen(t) \/ UnlockClear(t)
  \/ WaitEnter(t) \/ WaitTest(t) \/ WaitFirst(t) \/ WaitAppend(t) \/ WaitGrow(t)
  \/ Tsleep(t) \/ Roused(t)
  \/ SignalTest(t) \/ Twake(t) \/ TwakeCall(t) \/ SignalUnset(t)

Spec == Init /\ [][Next]_syncvars

----------------------------------------------------------------------------
(* Properties *)

Points == {"out", "xchg", "test", "set", "enqueue", "spin", "match", "in", "next",
           "open", "clear", "register", "first", "append", "grow", "tsleep",
           "asleep", "woken", "wakefirst", "wakenext", "callfirst", "callnext",
           "unset", "advance"}

TypeOK ==
  /\ lock \in {0, 1} /\ {current, waiter} \subseteq Threads \cup {NULL}
  /\ queue \in [Slots -> Threads \cup {NULL}]
  /\ wqueue \in [Slots -> Threads \cup {NULL}]
  /\ {qsize, qnext} \subseteq 0..QMAX /\ {wqsize, wqnext} \subseteq Nat
  /\ tpc \in [Threads -> Points]
  /\ back \in [Threads -> {"out", "in", "register"}]
  /\ target \in [Threads -> Threads \cup {NULL}]
  /\ lost \in [Threads -> BOOLEAN] /\ broken \in BOOLEAN

\* Between the return of mutex_lock and mutex_unlock's opening of the lock.
InSignal(t) ==
  tpc[t] \in {"wakefirst", "wakenext", "callfirst", "callnext", "unset", "advance"}
Inside(t) == \/ tpc[t] \in {"in", "next", "open"}
             \/ InSignal(t) /\ back[t] = "in"

\* One thread at a time has the mutex, the lock is closed behind it, and it is
\* current until it unlocks, although mutex_unlock opens the lock before it
\* clears current; but for a thread that got in by a NULL current.
MutexOwned ==
  /\ \A t, u \in Threads : (Inside(t) /\ Inside(u)) => t = u
  /\ \A t \in Threads :
       Inside(t) => /\ lock = 1
                    /\ tpc[t] # "open" => (current = t \/ lost[t])
============================================================================
