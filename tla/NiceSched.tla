----------------------------- MODULE NiceSched -----------------------------
(***************************************************************************)
(* The scheduler of project 4: every dispatch takes a RUNNABLE process of  *)
(* the smallest nice value, and nothing preempts a process (the yield on   *)
(* the clock tick is commented out).                                       *)
(*                                                                         *)
(* ptable.lock is held from the moment a process gives up its CPU to the   *)
(* dispatch of the next one, or to the end of the scan when there is none: *)
(* that is one step.  Module SleepLock has the steps of that lock.         *)
(***************************************************************************)
EXTENDS Integers

CONSTANTS NSlots,   \* NPROC
          Cpus,
          MaxNice,  \* 39
          Idle      \* no process

ASSUME NiceAssumption == /\ NSlots \in Nat \ {0} /\ MaxNice \in Nat
                         /\ Idle \notin Nat

Slots == 1..NSlots
NiceValues == 0..MaxNice

VARIABLES
  state,    \* UNUSED, SLEEPING, RUNNABLE or RUNNING
  nice,
  cur,      \* cpu -> the process it runs
  pos,      \* cpu -> the slot its scheduler's loop is at; 0 before the loop
  yielding  \* the processes between the two halves of setnice

vars == <<state, nice, cur, pos, yielding>>

\* Processes of any niceness, all of them waiting to run.
Init ==
  /\ state = [s \in Slots |-> "RUNNABLE"]
  /\ nice \in [Slots -> NiceValues]
  /\ cur = [c \in Cpus |-> Idle]
  /\ pos = [c \in Cpus |-> 0]
  /\ yielding = {}

\* The slot a scan of the table meets first, among those of S.
First(S) == {s \in S : \A t \in S : s <= t}

----------------------------------------------------------------------------
(* scheduler *)

\* The inner loop: p itself when nobody is nicer, otherwise the first of the
\* nicest; mutant: the last slot that is less nice than p.
LessNice(p, S) ==
  LET worse == {q \in S : nice[q] > nice[p]}
  IN  IF worse = {} THEN {p} ELSE First(worse)
Prior(p, S) ==
  LET nicest == {q \in S : \A r \in S : nice[q] <= nice[r]}
  IN  IF p \in nicest THEN {p} ELSE First(nicest)

\* Who may be chosen; mutant: without the inner test of the state.
Present(st) == {s \in Slots : st[s] \in {"RUNNABLE", "RUNNING"}}
Candidates(st) == {s \in Slots : st[s] = "RUNNABLE"}

\* The loop of CPU c goes on at slot from, the table being st: the next
\* process runs, or the loop ends.
Scan(c, from, st) ==
  LET ahead == {s \in Slots : st[s] = "RUNNABLE" /\ s >= from}
  IN
  \/ \E q \in First(ahead) : \E p \in Prior(q, Candidates(st)) :
       /\ state' = [st EXCEPT ![p] = "RUNNING"]
       /\ cur' = [cur EXCEPT ![c] = p]
       /\ pos' = [pos EXCEPT ![c] = p]
  \/ /\ ahead = {}
     /\ state' = st
     /\ cur' = [cur EXCEPT ![c] = Idle]
     /\ pos' = [pos EXCEPT ![c] = 0]

\* An idle CPU starts its loop again.
Schedule(c) ==
  /\ cur[c] = Idle /\ Scan(c, 1, state)
  /\ UNCHANGED <<nice, yielding>>

----------------------------------------------------------------------------
(* What a running process does *)

\* The loop of the CPU goes on behind the slot it had chosen.
GiveUp(c, s) ==
  /\ cur[c] # Idle
  /\ Scan(c, pos[c] + 1, [state EXCEPT ![cur[c]] = s])
  /\ yielding' = yielding \ {cur[c]}
  /\ UNCHANGED nice

Running(c) == cur[c] # Idle /\ cur[c] \notin yielding

Yield(c) == GiveUp(c, "RUNNABLE")
Block(c) == Running(c) /\ (GiveUp(c, "SLEEPING") \/ GiveUp(c, "UNUSED"))

\* setnice: the value is set, ptable.lock released, and then yield.
InRange(v) == 0 <= v /\ v <= MaxNice

SetNice(c, q, v) ==
  /\ Running(c) /\ InRange(v) /\ state[q] # "UNUSED"
  /\ nice' = [nice EXCEPT ![q] = v]
  /\ yielding' = yielding \cup {cur[c]}
  /\ UNCHANGED <<state, cur, pos>>

\* wakeup of a sleeper, and fork, which copies the niceness.
Wakeup(c, q) ==
  /\ Running(c) /\ state[q] = "SLEEPING"
  /\ state' = [state EXCEPT ![q] = "RUNNABLE"]
  /\ UNCHANGED <<nice, cur, pos, yielding>>

Fork(c, q) ==
  /\ Running(c) /\ state[q] = "UNUSED"
  /\ state' = [state EXCEPT ![q] = "RUNNABLE"]
  /\ nice' = [nice EXCEPT ![q] = nice[cur[c]]]
  /\ UNCHANGED <<cur, pos, yielding>>

\* An interrupt handler of an idle CPU wakes a sleeper.
Interrupt(q) ==
  /\ state[q] = "SLEEPING"
  /\ state' = [state EXCEPT ![q] = "RUNNABLE"]
  /\ UNCHANGED <<nice, cur, pos, yielding>>

Next == \E c \in Cpus :
  \/ Schedule(c) \/ Yield(c) \/ Block(c)
  \/ \E q \in Slots : Wakeup(c, q) \/ Fork(c, q) \/ Interrupt(q)
  \/ \E q \in Slots, v \in -1..MaxNice + 1 : SetNice(c, q, v)

Spec == Init /\ [][Next]_vars

\* A CPU goes on scheduling, and a process gives up the CPU after a while.
FairSpec == Spec /\ \A c \in Cpus : /\ WF_vars(Schedule(c))
                                    /\ WF_vars(Yield(c) \/ Block(c))

----------------------------------------------------------------------------
(* Properties *)

TypeOK ==
  /\ state \in [Slots -> {"UNUSED", "SLEEPING", "RUNNABLE", "RUNNING"}]
  /\ nice \in [Slots -> NiceValues]
  /\ cur \in [Cpus -> Slots \cup {Idle}]
  /\ pos \in [Cpus -> 0..NSlots]
  /\ yielding \subseteq Slots

\* A process is RUNNING on one CPU exactly, although a loop may choose a slot
\* it has passed, or one where another CPU's loop stands.
OneCpuEach ==
  \A s \in Slots :
    LET on == {c \in Cpus : cur[c] = s} IN
    /\ state[s] = "RUNNING" <=> on # {}
    /\ \A c, d \in on : c = d

ToRun == {s \in Slots : state[s] \in {"RUNNABLE", "RUNNING"}}

\* What the code does not guarantee, although yield is to "Give up the CPU for
\* one scheduling round": that a process is not left waiting while all others
\* that wait or run are equally or less nice (see README.md).
NiceRoundRobin ==
  \A p \in Slots :
    ~<>[](/\ state[p] = "RUNNABLE"
          /\ \A q \in ToRun \ {p} : nice[p] <= nice[q])
============================================================================
