---------------------------- MODULE ConsoleInput ----------------------------
(***************************************************************************)
(* The console's input line (console.c): consoleintr puts what is typed    *)
(* into a ring, where it can be edited until the line ends, and            *)
(* consoleread takes finished lines out.                                   *)
(*                                                                         *)
(* The three counters run freely and wrap: the code's are 32 bits wide,    *)
(* here they wrap at WRAP.  What runs under cons.lock is one step, one     *)
(* character at a time for consoleintr.  Output is left out.               *)
(***************************************************************************)
EXTENDS Naturals, Sequences, FiniteSetsExt

CONSTANTS Readers,
          INPUT_BUF,
          WRAP,       \* 2^32 in the code
          MaxAsked    \* a bound on consoleread's n

ConsoleAssumption ==
  /\ INPUT_BUF \in Nat \ {0} /\ WRAP \in Nat /\ MaxAsked \in Nat \ {0}
  /\ WRAP > INPUT_BUF /\ WRAP % INPUT_BUF = 0

Chars == {"x", "nl", "eof"}

VARIABLES
  buf, r, w, e,
  rpc,              \* reader -> "user", "ready" to look, or "asleep"
  asked, left,      \* target, and what n has come down to
  rkilled

input == <<buf, r, w, e>>
readers == <<rpc, asked, left, rkilled>>
consvars == <<input, readers>>

Init ==
  /\ buf = [i \in 0..INPUT_BUF - 1 |-> "nul"] /\ r = 0 /\ w = 0 /\ e = 0
  /\ rpc = [p \in Readers |-> "user"] /\ rkilled = [p \in Readers |-> FALSE]
  /\ asked = [p \in Readers |-> 0] /\ left = [p \in Readers |-> 0]

\* Subtraction of uints, and the character at a counter.
Minus(x, y) == (x + WRAP - y) % WRAP
Plus(x, y) == (x + y) % WRAP
CharAt(x) == buf[x % INPUT_BUF]

----------------------------------------------------------------------------
(* consoleintr *)

\* wakeup(&input.r); mutant: one reader is woken.
WokenOne ==
  LET Asleep == {p \in Readers : rpc[p] = "asleep"} IN
  IF Asleep = {} THEN rpc ELSE [rpc EXCEPT ![CHOOSE p \in Asleep : TRUE] = "ready"]
Woken == [p \in Readers |-> IF rpc[p] = "asleep" THEN "ready" ELSE rpc[p]]

\* input.e - input.r < INPUT_BUF; mutant: the unread lines are not
\* counted.
RoomInLine == Minus(e, w) < INPUT_BUF
Room == Minus(e, r) < INPUT_BUF

\* The line ends with a newline, ^D or when the ring is full.
EndsLine(c) == c \in {"nl", "eof"} \/ Plus(e, 1) = Plus(r, INPUT_BUF)

Insert(c) ==
  /\ Room
  /\ buf' = [buf EXCEPT ![e % INPUT_BUF] = c] /\ e' = Plus(e, 1)
  /\ IF EndsLine(c) THEN w' = e' /\ rpc' = Woken ELSE UNCHANGED <<w, rpc>>
  /\ UNCHANGED <<r, asked, left, rkilled>>

Backspace ==
  /\ e # w /\ e' = Minus(e, 1)
  /\ UNCHANGED <<buf, r, w, readers>>

\* Back to input.w, or behind a newline.
KillLine ==
  /\ e # w
  /\ LET Erased == {n \in 1..Minus(e, w) :
                      \A i \in 1..n : CharAt(Minus(e, i)) # "nl"}
     IN e' = Minus(e, Max(Erased \cup {0}))
  /\ UNCHANGED <<buf, r, w, readers>>

----------------------------------------------------------------------------
(* consoleread *)

Read(p) ==
  /\ rpc[p] = "user" /\ ~rkilled[p]
  /\ \E n \in 1..MaxAsked :
       /\ asked' = [asked EXCEPT ![p] = n] /\ left' = [left EXCEPT ![p] = n]
  /\ rpc' = [rpc EXCEPT ![p] = "ready"]
  /\ UNCHANGED <<input, rkilled>>

Return(p) ==
  /\ rpc' = [rpc EXCEPT ![p] = "user"]
  /\ asked' = [asked EXCEPT ![p] = 0] /\ left' = [left EXCEPT ![p] = 0]

\* The ring is empty: sleep, or -1 for a killed process.
Wait(p) ==
  /\ rpc[p] = "ready" /\ r = w
  /\ IF rkilled[p] THEN Return(p)
     ELSE rpc' = [rpc EXCEPT ![p] = "asleep"] /\ UNCHANGED <<asked, left>>
  /\ UNCHANGED <<input, rkilled>>

\* How many characters the loop takes: up to the first newline or ^D, n, or
\* all there are.
Stops(p, k) ==
  k = left[p] \/ Plus(r, k) = w \/ CharAt(Plus(r, k - 1)) \in {"nl", "eof"}
Taken(p) == Min({k \in 1..left[p] : Stops(p, k)})

\* n < target when ^D comes: it is left for the next read.
SavedForNext(p, n) == n < asked[p]

Take(p) ==
  LET k == Taken(p)
      c == CharAt(Plus(r, k - 1))
      n == left[p] - (k - 1) IN
  /\ rpc[p] = "ready" /\ r # w
  /\ r' = Plus(r, IF c = "eof" /\ SavedForNext(p, n) THEN k - 1 ELSE k)
  /\ IF c \in {"nl", "eof"} \/ k = left[p] THEN Return(p)
     ELSE left' = [left EXCEPT ![p] = @ - k] /\ UNCHANGED <<rpc, asked>>
  /\ UNCHANGED <<buf, w, e, rkilled>>

Kill(p) ==
  /\ rpc[p] # "user" /\ ~rkilled[p]
  /\ rkilled' = [rkilled EXCEPT ![p] = TRUE]
  /\ rpc' = [rpc EXCEPT ![p] = IF @ = "asleep" THEN "ready" ELSE @]
  /\ UNCHANGED <<input, asked, left>>

\* The killed process exits, another reader takes its place.
Exit(p) ==
  /\ rpc[p] = "user" /\ rkilled[p]
  /\ rkilled' = [rkilled EXCEPT ![p] = FALSE]
  /\ UNCHANGED <<input, rpc, asked, left>>

----------------------------------------------------------------------------
Next ==
  \/ \E c \in Chars : Insert(c)
  \/ Backspace \/ KillLine
  \/ \E p \in Readers : Read(p) \/ Wait(p) \/ Take(p) \/ Kill(p) \/ Exit(p)

Spec == Init /\ [][Next]_consvars

----------------------------------------------------------------------------
(* Properties *)

TypeOK ==
  /\ buf \in [0..INPUT_BUF - 1 -> Chars \cup {"nul"}]
  /\ {r, w, e} \subseteq 0..WRAP - 1
  /\ rpc \in [Readers -> {"user", "ready", "asleep"}]
  /\ asked \in [Readers -> 0..MaxAsked] /\ left \in [Readers -> 0..MaxAsked]
  /\ rkilled \in [Readers -> BOOLEAN]

\* No reader sleeps while a finished line waits, or when it has been killed: two
\* readers, a full ring and ^D given back included.
ReaderAwake == \A p \in Readers : rpc[p] = "asleep" => (r = w /\ ~rkilled[p])

\* The ring implements the queue of lines: no character that was typed is lost,
\* overwritten, read twice or read before its line is finished, across the wrap
\* of the counters, and ^D is read by itself.
Stretch(from, to) == [i \in 1..Minus(to, from) |-> CharAt(Plus(from, i - 1))]

Lines == INSTANCE LineQueue WITH
  Capacity <- INPUT_BUF, finished <- Stretch(r, w), typing <- Stretch(w, e)

ImplementsLineQueue == Lines!Spec
=============================================================================
