--------------------------- MODULE PrivateMemory ---------------------------
(* What user programs are promised about memory: every process has its     *)
(* own; fork copies it, and a write is seen by the writer only.            *)
EXTENDS Naturals, Sequences

CONSTANTS Users, Values, Zero, Limit

VARIABLE mem    \* a process -> the contents of its pages; <<>> without any

Fresh(k) == [v \in 1..k |-> Zero]

Init == \E p \in Users, k \in 1..Limit :
          mem = [q \in Users |-> IF q = p THEN Fresh(k) ELSE <<>>]

Set(p, m) == mem' = [mem EXCEPT ![p] = m]

Write(p) == \E v \in 1..Len(mem[p]), x \in Values :
              Set(p, [mem[p] EXCEPT ![v] = x])
Grow(p)   == mem[p] # <<>> /\ Set(p, Append(mem[p], Zero))
Shrink(p) == mem[p] # <<>> /\ Set(p, SubSeq(mem[p], 1, Len(mem[p]) - 1))
Fork(p)   == \E q \in Users : mem[q] = <<>> /\ Set(q, mem[p])
Exec(p)   == mem[p] # <<>> /\ \E k \in 1..Limit : Set(p, Fresh(k))
Exit(p)   == Set(p, <<>>)

Next == \E p \in Users :
          Write(p) \/ Grow(p) \/ Shrink(p) \/ Fork(p) \/ Exec(p) \/ Exit(p)

Spec == Init /\ [][Next]_mem
============================================================================
