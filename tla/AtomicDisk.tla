----------------------------- MODULE AtomicDisk -----------------------------
(* What the log promises: groups of operations reach the disk all at once, *)
(* never while one of them is half done, and a crash goes back to the last *)
(* group.                                                                  *)
EXTENDS Naturals

CONSTANTS Procs, Blocks, Values, Blank

VARIABLES durable,   \* block -> what a crash leaves
          current,   \* block -> what readers see
          open       \* the processes inside an operation

disk == <<durable, current, open>>

Init == /\ durable = [b \in Blocks |-> Blank] /\ current = durable
        /\ open = {}

Begin(p) == open' = open \cup {p} /\ UNCHANGED <<durable, current>>

Write(p) ==
  /\ p \in open
  /\ \E b \in Blocks, v \in Values : current' = [current EXCEPT ![b] = v]
  /\ UNCHANGED <<durable, open>>

End(p) == open' = open \ {p} /\ UNCHANGED <<durable, current>>

Commit == open = {} /\ durable' = current /\ UNCHANGED <<current, open>>

Crash == current' = durable /\ open' = {} /\ UNCHANGED durable

Next == Commit \/ Crash \/ \E p \in Procs : Begin(p) \/ Write(p) \/ End(p)

Spec == Init /\ [][Next]_disk
=============================================================================
