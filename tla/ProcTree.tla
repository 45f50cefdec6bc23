------------------------------ MODULE ProcTree ------------------------------
(* What fork, exit and wait promise: every process has a living father, is *)
(* reaped by it exactly once, and orphans become children of init.         *)
EXTENDS Naturals

CONSTANT MaxPid

Pids == 1..MaxPid
InitPid == 1

VARIABLES status,   \* pid -> new, live, zombie or gone
          father    \* pid -> a pid; 0 for init and for who is not there

tree == <<status, father>>

Init == /\ status = [k \in Pids |-> IF k = InitPid THEN "live" ELSE "new"]
        /\ father = [k \in Pids |-> 0]

Fork(p, c) ==
  /\ status[p] = "live" /\ status[c] = "new"
  /\ status' = [status EXCEPT ![c] = "live"]
  /\ father' = [father EXCEPT ![c] = p]

\* A fork that fails uses up a pid.
ForkFails(c) ==
  /\ status[c] = "new"
  /\ status' = [status EXCEPT ![c] = "gone"]
  /\ UNCHANGED father

Exit(p) ==
  /\ status[p] = "live" /\ p # InitPid
  /\ status' = [status EXCEPT ![p] = "zombie"]
  /\ father' = [k \in Pids |-> IF father[k] = p THEN InitPid ELSE father[k]]

Wait(p, c) ==
  /\ status[p] = "live" /\ status[c] = "zombie" /\ father[c] = p
  /\ status' = [status EXCEPT ![c] = "gone"]
  /\ father' = [father EXCEPT ![c] = 0]

Next == \E p, c \in Pids : Fork(p, c) \/ ForkFails(c) \/ Exit(p) \/ Wait(p, c)

Spec == Init /\ [][Next]_tree
=============================================================================
