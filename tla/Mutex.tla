------------------------------- MODULE Mutex -------------------------------
(***************************************************************************)
(* What sleep locks promise, without CPUs, stacks or wakeups: a client     *)
(* waits for one lock and is granted it only while nobody holds it.        *)
(***************************************************************************)
CONSTANTS Clients, Mutexes

VARIABLES phase,   \* what each client does
          lock     \* the lock it waits for or holds

vars == <<phase, lock>>

Holders(s) == {p \in Clients : phase[p] = "holding" /\ lock[p] = s}

Init == phase = [p \in Clients |-> "idle"] /\ lock \in [Clients -> Mutexes]

Move(p, from, to) == phase[p] = from /\ phase' = [phase EXCEPT ![p] = to]

Ask(p, s) == Move(p, "idle", "waiting") /\ lock' = [lock EXCEPT ![p] = s]
Grant(p) ==
  Holders(lock[p]) = {} /\ Move(p, "waiting", "holding") /\ UNCHANGED lock
GiveBack(p) == Move(p, "holding", "idle") /\ UNCHANGED lock

Next == \E p \in Clients :
          Grant(p) \/ GiveBack(p) \/ \E s \in Mutexes : Ask(p, s)

Spec == Init /\ [][Next]_vars
============================================================================
