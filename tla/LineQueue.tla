----------------------------- MODULE LineQueue ------------------------------
(* What the console promises its readers: the characters of finished lines *)
(* in the order typed, once each; the line being typed can be edited, a    *)
(* finished one cannot; an end of file is read by itself.                  *)
EXTENDS Naturals, Sequences

CONSTANTS Capacity

Chars == {"x", "nl", "eof"}

VARIABLES finished, typing

lines == <<finished, typing>>

Init == finished = <<>> /\ typing = <<>>

Full == Len(finished) + Len(typing) = Capacity

Type(c) ==
  /\ ~Full
  /\ IF c # "x" \/ Len(finished) + Len(typing) + 1 = Capacity
     THEN finished' = finished \o typing \o <<c>> /\ typing' = <<>>
     ELSE typing' = Append(typing, c) /\ UNCHANGED finished

Erase == typing # <<>> /\ typing' = SubSeq(typing, 1, Len(typing) - 1) /\ UNCHANGED finished

KillLine == typing' = <<>> /\ UNCHANGED finished

\* The next characters of one line, or one end of file.
Read(k) ==
  /\ k <= Len(finished)
  /\ \A i \in 1..k - 1 : finished[i] = "x"
  /\ finished[k] = "eof" => k = 1
  /\ finished' = SubSeq(finished, k + 1, Len(finished))
  /\ UNCHANGED typing

Next == (\E c \in Chars : Type(c)) \/ Erase \/ KillLine \/ \E k \in 1..Capacity : Read(k)

Spec == Init /\ [][Next]_lines
=============================================================================
