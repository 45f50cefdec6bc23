----------------------------- MODULE BlockStore -----------------------------
(* What the buffer cache promises the file system: one copy of each block, *)
(* used by one process at a time, that keeps what was written last,        *)
(* whatever is in memory and whatever is on the disk.                      *)
CONSTANTS Procs, Blocks, Values, Blank, Nobody

VARIABLES content,   \* block -> its contents
          user       \* block -> the process that has it, or Nobody

blockstore == <<content, user>>

Init == content = [x \in Blocks |-> Blank] /\ user = [x \in Blocks |-> Nobody]

Take(p, x) ==
  user[x] = Nobody /\ user' = [user EXCEPT ![x] = p] /\ UNCHANGED content

Change(p, x) ==
  /\ user[x] = p
  /\ \E v \in Values : content' = [content EXCEPT ![x] = v]
  /\ UNCHANGED user

Give(p, x) ==
  user[x] = p /\ user' = [user EXCEPT ![x] = Nobody] /\ UNCHANGED content

Next == \E p \in Procs, x \in Blocks : Take(p, x) \/ Change(p, x) \/ Give(p, x)

Spec == Init /\ [][Next]_blockstore
=============================================================================
