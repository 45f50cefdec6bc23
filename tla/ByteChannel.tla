---------------------------- MODULE ByteChannel ----------------------------
(* What a pipe promises: a bounded first-in first-out queue of bytes.      *)
EXTENDS Naturals, Sequences

CONSTANTS Receivers, Byte, Capacity

VARIABLES q,      \* bytes written and not yet read
          got     \* what each receiver's current call has returned so far

chanVars == <<q, got>>

Init == q = <<>> /\ got = [r \in Receivers |-> <<>>]

Put(b) == Len(q) < Capacity /\ q' = Append(q, b) /\ UNCHANGED got
Start(r) == got' = [got EXCEPT ![r] = <<>>] /\ UNCHANGED q
Get(r) ==
  /\ q # <<>>
  /\ got' = [got EXCEPT ![r] = Append(@, Head(q))]
  /\ q' = Tail(q)

Next == (\E b \in Byte : Put(b)) \/ (\E r \in Receivers : Start(r) \/ Get(r))

Spec == Init /\ [][Next]_chanVars
============================================================================
