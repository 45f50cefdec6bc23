----------------------------- MODULE PartsProofs -----------------------------
(***************************************************************************)
(* Proofs about the parts of PartsMC, each by itself and in PartsSpec, for *)
(* every size of their constants: the nice scheduler, the console's input  *)
(* and the mutexes of threads (SleepLockProofs has the sleep locks).       *)
(***************************************************************************)
EXTENDS PartsMC, SequenceTheorems, WellFoundedInduction, TLAPS

----------------------------------------------------------------------------
(* The nice scheduler *)

Core == TypeOK /\ OneCpuEach

LEMMA NiceInit == Init => Core
BY NiceAssumption DEF Init, Core, TypeOK, OneCpuEach, Slots

\* Whom a scan chooses is one of the candidates.
LEMMA PriorIsCandidate ==
  ASSUME NEW S, NEW q \in S, NEW p \in Prior(q, S)
  PROVE  p \in S
BY DEF Prior, First

(***************************************************************************)
(* The loop of CPU c takes a process that is on no CPU, whatever slot it   *)
(* stands at, provided that c itself has none any more: st is the table    *)
(* once the process c ran, if any, is no longer RUNNING.                   *)
(***************************************************************************)
LEMMA ScanStep ==
  ASSUME Core, NEW c \in Cpus, NEW from,
         NEW st \in [Slots -> {"UNUSED", "SLEEPING", "RUNNABLE", "RUNNING"}],
         \A s \in Slots : st[s] = "RUNNING" <=> \E d \in Cpus \ {c} : cur[d] = s,
         Scan(c, from, st), nice' = nice, yielding' \subseteq Slots
  PROVE  Core'
<1> USE DEF Core, TypeOK, OneCpuEach
<1>1. CASE \E q \in First({s \in Slots : st[s] = "RUNNABLE" /\ s >= from}) :
             \E p \in Prior(q, Candidates(st)) :
               /\ state' = [st EXCEPT ![p] = "RUNNING"]
               /\ cur' = [cur EXCEPT ![c] = p]
               /\ pos' = [pos EXCEPT ![c] = p]
  <2>1. PICK p \in Candidates(st) :
          /\ state' = [st EXCEPT ![p] = "RUNNING"]
          /\ cur' = [cur EXCEPT ![c] = p]
          /\ pos' = [pos EXCEPT ![c] = p]
    <3>1. \A q \in First({s \in Slots : st[s] = "RUNNABLE" /\ s >= from}) :
            q \in Candidates(st)
      BY DEF First, Candidates
    <3> QED BY <1>1, <3>1, PriorIsCandidate
  <2>2. p \in Slots /\ st[p] = "RUNNABLE"
    BY DEF Candidates
  <2>3. p \in 0..NSlots
    BY <2>2, NiceAssumption DEF Slots
  <2>4. TypeOK'
    BY <2>1, <2>2, <2>3
  <2>5. \A d \in Cpus \ {c} : cur[d] # p
    BY <2>2
  <2>6. OneCpuEach'
    <3> SUFFICES ASSUME NEW s \in Slots
                 PROVE  /\ state'[s] = "RUNNING" <=> \E d \in Cpus : cur'[d] = s
                        /\ \A d, d2 \in Cpus : cur'[d] = s /\ cur'[d2] = s => d = d2
      BY DEF OneCpuEach
    <3>1. CASE s = p
      BY <2>1, <2>2, <2>5, <3>1
    <3>2. CASE s # p
      BY <2>1, <2>2, <3>2
    <3> QED BY <3>1, <3>2
  <2> QED BY <2>4, <2>6
<1>2. CASE /\ state' = st
           /\ cur' = [cur EXCEPT ![c] = Idle]
           /\ pos' = [pos EXCEPT ![c] = 0]
  <2>1. TypeOK'
    BY <1>2, NiceAssumption DEF Slots
  <2>2. Idle \notin Slots
    BY NiceAssumption DEF Slots
  <2> QED BY <1>2, <2>1, <2>2
<1> QED BY <1>1, <1>2 DEF Scan

LEMMA NiceKeeps ==
  ASSUME Core, [Next]_vars
  PROVE  Core'
<1>1. CASE UNCHANGED vars
  BY <1>1 DEF vars, Core, TypeOK, OneCpuEach
<1>2. ASSUME NEW c \in Cpus, Schedule(c) PROVE Core'
  <2>1. \A s \in Slots :
          state[s] = "RUNNING" <=> \E d \in Cpus \ {c} : cur[d] = s
    <3>1. Idle \notin Slots
      BY NiceAssumption DEF Slots
    <3> QED BY <1>2, <3>1 DEF Schedule, Core, OneCpuEach
  <2> QED BY <1>2, <2>1, ScanStep DEF Schedule, Core, TypeOK
<1>3. ASSUME NEW c \in Cpus, NEW k \in {"RUNNABLE", "SLEEPING", "UNUSED"},
             GiveUp(c, k)
      PROVE  Core'
  <2> DEFINE st == [state EXCEPT ![cur[c]] = k]
  <2>1. cur[c] \in Slots
    BY <1>3 DEF GiveUp, Core, TypeOK
  <2>2. st \in [Slots -> {"UNUSED", "SLEEPING", "RUNNABLE", "RUNNING"}]
    BY <2>1 DEF Core, TypeOK
  <2>3. \A s \in Slots :
          st[s] = "RUNNING" <=> \E d \in Cpus \ {c} : cur[d] = s
    BY <2>1 DEF Core, TypeOK, OneCpuEach
  <2>4. Scan(c, pos[c] + 1, st) /\ nice' = nice /\ yielding' \subseteq Slots
    BY <1>3 DEF GiveUp, Core, TypeOK
  <2> HIDE DEF st
  <2> QED BY <2>2, <2>3, <2>4, ScanStep
<1>4. ASSUME NEW c \in Cpus, Yield(c) \/ Block(c) PROVE Core'
  BY <1>3, <1>4 DEF Yield, Block
<1>5. ASSUME NEW q \in Slots, state[q] # "RUNNING",
             state' = [state EXCEPT ![q] = "RUNNABLE"],
             nice' \in [Slots -> NiceValues], UNCHANGED <<cur, pos, yielding>>
      PROVE  Core'
  BY <1>5 DEF Core, TypeOK, OneCpuEach
<1>6. ASSUME NEW c \in Cpus, NEW q \in Slots,
             Wakeup(c, q) \/ Fork(c, q) \/ Interrupt(q)
      PROVE  Core'
  <2>1. nice' \in [Slots -> NiceValues]
    BY <1>6 DEF Wakeup, Fork, Interrupt, Running, Core, TypeOK
  <2> QED BY <1>5, <1>6, <2>1 DEF Wakeup, Fork, Interrupt
<1>7. ASSUME NEW c \in Cpus, NEW q \in Slots, NEW v \in -1..MaxNice + 1,
             SetNice(c, q, v)
      PROVE  Core'
  <2>1. v \in NiceValues /\ cur[c] \in Slots
    BY <1>7, NiceAssumption
       DEF SetNice, InRange, NiceValues, Running, Core, TypeOK
  <2> QED BY <1>7, <2>1 DEF SetNice, Core, TypeOK, OneCpuEach
<1> QED BY <1>1, <1>2, <1>4, <1>6, <1>7 DEF Next

THEOREM CoreInvariant == Spec => []Core
BY NiceInit, NiceKeeps, PTL DEF Spec

\* Every reachable state is well typed; setnice keeps values in range.
THEOREM TypeInvariant == Spec => []TypeOK
<1>1. Core => TypeOK
  BY DEF Core
<1> QED BY CoreInvariant, <1>1, PTL

----------------------------------------------------------------------------
(* Least and greatest numbers of a set *)

LEMMA Least ==
  ASSUME NEW S \in SUBSET Nat, S # {}
  PROVE  \E x \in S : \A y \in S : x <= y
<1> DEFINE R == OpToRel(<, Nat)
<1>1. \A x, y \in Nat : x < y => <<x, y>> \in R
  BY Zenon DEF OpToRel
<1>2. IsWellFoundedOn(R, Nat)
  BY NatLessThanWellFounded
<1> HIDE DEF R
<1>3. PICK x \in S : \A y \in S : <<y, x>> \notin R
  BY <1>2, WFMin
<1>4. \A y \in S : ~(y < x)
  BY <1>1, <1>3
<1> QED BY <1>4

LEMMA MinIs ==
  ASSUME NEW S \in SUBSET Nat, S # {}
  PROVE  Console!Min(S) \in S /\ \A y \in S : Console!Min(S) <= y
BY Least DEF Console!Min

LEMMA MaxIs ==
  ASSUME NEW m \in Nat, NEW S \in SUBSET (0..m), S # {}
  PROVE  Console!Max(S) \in S /\ \A y \in S : Console!Max(S) >= y
<1> DEFINE T == {m - x : x \in S}
<1>1. T \in SUBSET Nat /\ T # {}
  <2>1. \A x \in S : x \in 0..m
    OBVIOUS
  <2>2. \A x \in S : m - x \in Nat
    BY <2>1
  <2> QED BY <2>2
<1>2. PICK x \in T : \A y \in T : x <= y
  BY <1>1, Least
<1>3. m - x \in S /\ \A y \in S : m - x >= y
  BY <1>2
<1> QED BY <1>3 DEF Console!Max

----------------------------------------------------------------------------
(* The console's input *)

\* A reader that is in consoleread has still something to read.
Asking == \A p \in Readers : rpc[p] # "user" => left[p] \in 1..asked[p]

LineInv == Console!TypeOK /\ Console!ReaderAwake /\ Asking

LEMMA Wrapped ==
  ASSUME Console!ConsoleAssumption, NEW x \in 0..WRAP - 1, NEW y \in Nat
  PROVE  /\ Console!Plus(x, y) \in 0..WRAP - 1
         /\ y <= WRAP => Console!Minus(x, y) \in 0..WRAP - 1
         /\ y % INPUT_BUF \in 0..INPUT_BUF - 1
BY DEF Console!ConsoleAssumption, Console!Plus, Console!Minus

\* consoleread's loop takes at least one character, and at most n.
LEMMA TakenIs ==
  ASSUME NEW p \in Readers, left[p] \in Nat \ {0}
  PROVE  /\ Console!Taken(p) \in 1..left[p] /\ Console!Stops(p, Console!Taken(p))
         /\ \A k \in 1..left[p] : Console!Stops(p, k) => Console!Taken(p) <= k
<1> DEFINE S == {k \in 1..left[p] : Console!Stops(p, k)}
<1>1. left[p] \in S
  BY DEF Console!Stops
<1>2. Console!Min(S) \in S /\ \A k \in S : Console!Min(S) <= k
  BY <1>1, MinIs
<1> QED BY <1>2 DEF Console!Taken

LEMMA LineInit == Console!ConsoleAssumption /\ Console!Init => LineInv
BY DEF Console!ConsoleAssumption, Console!Init, LineInv, Console!TypeOK,
       Console!ReaderAwake, Asking

LEMMA LineKeeps ==
  ASSUME Console!ConsoleAssumption, LineInv, [Console!Next]_consvars
  PROVE  LineInv'
<1> USE DEF LineInv, Console!TypeOK, Console!ReaderAwake, Asking, Console!input,
            Console!readers, Console!Return
<1>0. /\ INPUT_BUF \in Nat \ {0} /\ WRAP \in Nat \ {0} /\ MaxAsked \in Nat \ {0}
      /\ r \in 0..WRAP - 1 /\ w \in 0..WRAP - 1 /\ e \in 0..WRAP - 1
  BY DEF Console!ConsoleAssumption
<1>1. CASE UNCHANGED consvars
  BY <1>1 DEF consvars
\* A character either ends the line, and then nobody is left asleep, or leaves
\* the end of the finished lines where it is.
<1>2. ASSUME NEW c \in Console!Chars, Console!Insert(c) PROVE LineInv'
  <2>1. e' \in 0..WRAP - 1 /\ e % INPUT_BUF \in 0..INPUT_BUF - 1
    BY <1>2, Wrapped DEF Console!Insert
  <2>2. buf' \in [0..INPUT_BUF - 1 -> Console!Chars \cup {"nul"}]
    BY <1>2, <2>1 DEF Console!Insert
  <2>3. CASE Console!EndsLine(c)
    BY <1>2, <2>1, <2>2, <2>3 DEF Console!Insert, Console!Woken
  <2>4. CASE ~Console!EndsLine(c)
    BY <1>2, <2>1, <2>2, <2>4 DEF Console!Insert
  <2> QED BY <2>3, <2>4
<1>3. CASE Console!Backspace
  <2>1. e' \in 0..WRAP - 1
    <3>1. Console!Minus(e, 1) \in 0..WRAP - 1
      <4>1. 1 \in Nat /\ 1 <= WRAP
        BY <1>0
      <4> QED BY <1>0, <4>1, Wrapped
    <3> QED BY <1>3, <3>1 DEF Console!Backspace
  <2> QED BY <1>3, <2>1 DEF Console!Backspace
<1>4. CASE Console!KillLine
  <2> DEFINE m == Console!Minus(e, w)
             S == {n \in 1..m : \A i \in 1..n :
                     Console!CharAt(Console!Minus(e, i)) # "nl"} \cup {0}
  <2>1. m \in 0..WRAP - 1
    <3>1. w \in Nat /\ w <= WRAP
      BY <1>0
    <3> QED BY <1>0, <3>1, Wrapped
  <2>2. Console!Max(S) \in 0..m
    <3>1. m \in Nat /\ S \in SUBSET (0..m) /\ S # {}
      BY <2>1
    <3> HIDE DEF m, S
    <3> QED BY <3>1, MaxIs
  <2>3. e' = Console!Minus(e, Console!Max(S))
    BY <1>4 DEF Console!KillLine
  <2>4. e' \in 0..WRAP - 1
    <3>1. Console!Max(S) \in Nat /\ Console!Max(S) <= WRAP
      BY <1>0, <2>1, <2>2
    <3> HIDE DEF S
    <3> QED BY <1>0, <2>3, <3>1, Wrapped
  <2> QED BY <1>4, <2>4 DEF Console!KillLine
<1>5. ASSUME NEW p \in Readers, Console!Read(p) PROVE LineInv'
  <2>1. PICK n \in 1..MaxAsked : /\ asked' = [asked EXCEPT ![p] = n]
                                 /\ left' = [left EXCEPT ![p] = n]
    BY <1>5 DEF Console!Read
  <2> QED BY <1>5, <2>1 DEF Console!Read
<1>6. ASSUME NEW p \in Readers, Console!Wait(p) PROVE LineInv'
  <2>1. CASE rkilled[p]
    <3>1. /\ rpc' = [rpc EXCEPT ![p] = "user"]
          /\ asked' = [asked EXCEPT ![p] = 0] /\ left' = [left EXCEPT ![p] = 0]
          /\ UNCHANGED <<buf, r, w, e, rkilled>>
      BY <1>6, <2>1 DEF Console!Wait
    <3> QED BY <1>0, <3>1
  <2>2. CASE ~rkilled[p]
    BY <1>0, <1>6, <2>2 DEF Console!Wait
  <2> QED BY <2>1, <2>2
\* Only a reader that finds r # w moves r, and then none is asleep.
<1>7. ASSUME NEW p \in Readers, Console!Take(p) PROVE LineInv'
  <2>1. rpc[p] = "ready" /\ r # w /\ UNCHANGED <<buf, w, e, rkilled>>
    BY <1>7 DEF Console!Take
  <2>2. PICK k \in 1..left[p] : k = Console!Taken(p)
    BY <2>1, TakenIs
  <2>3. r' \in 0..WRAP - 1
    <3>1. r' = Console!Plus(r, k) \/ r' = Console!Plus(r, k - 1)
      BY <1>7, <2>2 DEF Console!Take
    <3>2. k \in Nat /\ k - 1 \in Nat
      BY <1>0, <2>1
    <3> QED BY <1>0, <3>1, <3>2, Wrapped
  <2>4. CASE /\ rpc' = [rpc EXCEPT ![p] = "user"]
             /\ asked' = [asked EXCEPT ![p] = 0] /\ left' = [left EXCEPT ![p] = 0]
    BY <1>0, <2>1, <2>3, <2>4
  <2>5. CASE /\ left' = [left EXCEPT ![p] = left[p] - k] /\ UNCHANGED <<rpc, asked>>
             /\ k # left[p]
    BY <1>0, <2>1, <2>3, <2>5
  <2> QED BY <1>7, <2>2, <2>4, <2>5 DEF Console!Take
<1>8. ASSUME NEW p \in Readers, Console!Kill(p) PROVE LineInv'
  BY <1>8 DEF Console!Kill
<1>9. ASSUME NEW p \in Readers, Console!Exit(p) PROVE LineInv'
  BY <1>9 DEF Console!Exit
<1> QED
  BY <1>1, <1>2, <1>3, <1>4, <1>5, <1>6, <1>7, <1>8, <1>9 DEF Console!Next

\* What the steps of consoleintr and consoleread keep, by themselves.
THEOREM LineInvariant == Console!Spec => []LineInv
<1>1. Console!Init => LineInv
  BY LineInit, PartsAssumption
<1>2. LineInv /\ [Console!Next]_(Console!consvars) => LineInv'
  BY LineKeeps, PartsAssumption DEF consvars, Console!consvars, Console!input,
     Console!readers
<1> QED BY <1>1, <1>2, PTL DEF Console!Spec

----------------------------------------------------------------------------
(* The console's ring is a queue of lines *)

LEMMA Modulo ==
  ASSUME NEW W \in Nat \ {0}, NEW x \in 0..2 * W - 1
  PROVE  x % W = IF x < W THEN x ELSE x - W
OBVIOUS

LEMMA NoMultiple ==
  ASSUME NEW P \in Nat \ {0}, NEW m \in Int
  PROVE  ~(0 < m * P /\ m * P < P)
<1>1. CASE m <= 0
  BY <1>1
<1>2. CASE m >= 1
  BY <1>2
<1> QED BY <1>1, <1>2

LEMMA Quotient ==
  ASSUME NEW P \in Nat \ {0}, NEW x \in Int
  PROVE  \E d \in Int : x % P = x - P * d
<1>1. x \div P \in Int
  OBVIOUS
<1>2. x % P = x - P * (x \div P)
  BY SMT
<1> QED BY <1>1, <1>2

LEMMA SameRemainder ==
  ASSUME NEW P \in Nat \ {0}, NEW a \in Int, NEW b \in Int, a % P = b % P
  PROVE  \E m \in Int : b - a = m * P
<1>1. PICK c \in Int : a % P = a - P * c
  BY Quotient
<1>2. PICK d \in Int : b % P = b - P * d
  BY Quotient
<1>3. (d - c) * P = P * d - P * c /\ P * d \in Int /\ P * c \in Int
  OBVIOUS
<1> DEFINE f == P * c
           g == P * d
<1>4. a - f = b - g /\ f \in Int /\ g \in Int
  BY <1>1, <1>2, <1>3
<1>5. b - a = g - f
  <2> HIDE DEF f, g
  <2> QED BY <1>4
<1>6. b - a = (d - c) * P
  BY <1>3, <1>5
<1>7. d - c \in Int
  OBVIOUS
<1> QED BY <1>6, <1>7

\* What the assumption on the console's constants gives to arithmetic.
LEMMA Sizes ==
  ASSUME Console!ConsoleAssumption
  PROVE  /\ INPUT_BUF \in Nat \ {0} /\ WRAP \in Nat \ {0} /\ INPUT_BUF < WRAP
         /\ WRAP % INPUT_BUF = 0
BY DEF Console!ConsoleAssumption

\* Two positions less than the ring's size apart are in different places of it,
\* on either side of the wrap of the counters.
LEMMA PlacesDiffer ==
  ASSUME Console!ConsoleAssumption,
         NEW x \in 0..2 * WRAP - 1, NEW y \in 0..2 * WRAP - 1,
         x < y, y < x + INPUT_BUF
  PROVE  (x % WRAP) % INPUT_BUF # (y % WRAP) % INPUT_BUF
<1> DEFINE a == x % WRAP
           b == y % WRAP
<1>1. /\ a = IF x < WRAP THEN x ELSE x - WRAP
      /\ b = IF y < WRAP THEN y ELSE y - WRAP
  BY Sizes, Modulo
<1>2. a \in Int /\ b \in Int
  BY <1>1, Sizes
<1>3. PICK q \in Int : WRAP = q * INPUT_BUF
  <2>1. 0 \in Int /\ WRAP \in Int /\ 0 % INPUT_BUF = WRAP % INPUT_BUF
    BY Sizes
  <2>2. \E q \in Int : WRAP - 0 = q * INPUT_BUF
    BY <2>1, Sizes, SameRemainder
  <2>3. WRAP - 0 = WRAP
    BY Sizes
  <2> QED BY <2>2, <2>3
<1> SUFFICES ASSUME a % INPUT_BUF = b % INPUT_BUF PROVE FALSE
  OBVIOUS
<1>4. PICK m \in Int : b - a = m * INPUT_BUF
  BY <1>2, Sizes, SameRemainder
<1> HIDE DEF a, b
<1>5. y - x = b - a \/ y - x = b - a + WRAP
  BY <1>1, Sizes
<1>6. CASE y - x = b - a
  BY <1>4, <1>6, Sizes, NoMultiple
<1>7. CASE y - x = b - a + WRAP
  <2>1. (m + q) * INPUT_BUF = m * INPUT_BUF + q * INPUT_BUF
    BY Sizes
  <2>2. y - x = (m + q) * INPUT_BUF
    BY <1>3, <1>4, <1>7, <2>1
  <2> QED BY <2>2, Sizes, NoMultiple
<1> QED BY <1>5, <1>6, <1>7

\* Sums and differences of counters, and that they are inverse to each other.
LEMMA PlusIs ==
  ASSUME Console!ConsoleAssumption, NEW x \in 0..WRAP - 1, NEW d \in 0..WRAP - 1
  PROVE  /\ Console!Plus(x, d) = IF x + d < WRAP THEN x + d ELSE x + d - WRAP
         /\ Console!Plus(x, d) \in 0..WRAP - 1
<1> DEFINE s == x + d
<1>1. s \in 0..2 * WRAP - 1 /\ WRAP \in Nat \ {0}
  BY Sizes
<1>2. s % WRAP = IF s < WRAP THEN s ELSE s - WRAP
  <2> HIDE DEF s
  <2> QED BY <1>1, Modulo
<1> QED BY <1>1, <1>2 DEF Console!Plus

LEMMA PlusZero ==
  ASSUME Console!ConsoleAssumption, NEW x \in 0..WRAP - 1
  PROVE  Console!Plus(x, 0) = x
<1>1. WRAP \in Nat \ {0} /\ x + 0 = x
  BY Sizes
<1>2. x % WRAP = x
  BY <1>1
<1> QED BY <1>1, <1>2 DEF Console!Plus

LEMMA MinusIs ==
  ASSUME Console!ConsoleAssumption, NEW x \in 0..WRAP - 1, NEW y \in 0..WRAP - 1
  PROVE  /\ Console!Minus(x, y) = IF y <= x THEN x - y ELSE x - y + WRAP
         /\ Console!Minus(x, y) \in 0..WRAP - 1
<1> DEFINE s == x + WRAP - y
<1>1. s \in 0..2 * WRAP - 1 /\ WRAP \in Nat \ {0}
  BY Sizes
<1>2. s % WRAP = IF s < WRAP THEN s ELSE s - WRAP
  <2> HIDE DEF s
  <2> QED BY <1>1, Modulo
<1> QED BY <1>1, <1>2 DEF Console!Minus

LEMMA MinusPlus ==
  ASSUME Console!ConsoleAssumption, NEW x \in 0..WRAP - 1, NEW d \in 0..WRAP - 1
  PROVE  Console!Minus(Console!Plus(x, d), x) = d
<1> DEFINE y == Console!Plus(x, d)
<1>1. y \in 0..WRAP - 1 /\ y = IF x + d < WRAP THEN x + d ELSE x + d - WRAP
  BY PlusIs
<1> HIDE DEF y
<1>2. Console!Minus(y, x) = IF x <= y THEN y - x ELSE y - x + WRAP
  BY <1>1, MinusIs
<1>3. Console!Minus(y, x) = d
  BY <1>1, <1>2, Sizes
<1> QED BY <1>3 DEF y

LEMMA PlusMinus ==
  ASSUME Console!ConsoleAssumption, NEW x \in 0..WRAP - 1, NEW y \in 0..WRAP - 1
  PROVE  Console!Plus(y, Console!Minus(x, y)) = x
<1> DEFINE d == Console!Minus(x, y)
<1>1. d \in 0..WRAP - 1 /\ d = IF y <= x THEN x - y ELSE x - y + WRAP
  BY MinusIs
<1> HIDE DEF d
<1>2. Console!Plus(y, d) = IF y + d < WRAP THEN y + d ELSE y + d - WRAP
  BY <1>1, PlusIs
<1>3. Console!Plus(y, d) = x
  BY <1>1, <1>2, Sizes
<1> QED BY <1>3 DEF d

LEMMA PlusPlus ==
  ASSUME Console!ConsoleAssumption, NEW x \in 0..WRAP - 1,
         NEW c \in 0..WRAP - 1, NEW d \in 0..WRAP - 1, c + d < WRAP
  PROVE  Console!Plus(Console!Plus(x, c), d) = Console!Plus(x, c + d)
<1>1. c + d \in 0..WRAP - 1
  BY Sizes
<1> DEFINE y == Console!Plus(x, c)
<1>2. y \in 0..WRAP - 1 /\ y = IF x + c < WRAP THEN x + c ELSE x + c - WRAP
  BY PlusIs
<1> HIDE DEF y
<1>3. Console!Plus(y, d) = IF y + d < WRAP THEN y + d ELSE y + d - WRAP
  BY <1>2, PlusIs
<1>4. Console!Plus(x, c + d) = IF x + (c + d) < WRAP THEN x + (c + d) ELSE x + (c + d) - WRAP
  BY <1>1, PlusIs
<1>5. Console!Plus(y, d) = Console!Plus(x, c + d)
  BY <1>2, <1>3, <1>4, Sizes
<1> QED BY <1>5 DEF y

LEMMA MinusOfPlus ==
  ASSUME Console!ConsoleAssumption, NEW x \in 0..WRAP - 1,
         NEW c \in 0..WRAP - 1, NEW d \in 0..c
  PROVE  /\ Console!Minus(Console!Plus(x, c), d) = Console!Plus(x, c - d)
         /\ Console!Minus(Console!Plus(x, c), Console!Plus(x, d)) = c - d
<1>1. d \in 0..WRAP - 1 /\ c - d \in 0..WRAP - 1
  BY Sizes
<1>2. Console!Plus(x, c) \in 0..WRAP - 1 /\ Console!Plus(x, d) \in 0..WRAP - 1
  BY <1>1, PlusIs
<1>3. /\ Console!Plus(x, c) = IF x + c < WRAP THEN x + c ELSE x + c - WRAP
      /\ Console!Plus(x, d) = IF x + d < WRAP THEN x + d ELSE x + d - WRAP
      /\ Console!Plus(x, c - d) =
           IF x + (c - d) < WRAP THEN x + (c - d) ELSE x + (c - d) - WRAP
  BY <1>1, PlusIs
<1>4. \A a, b \in 0..WRAP - 1 :
        Console!Minus(a, b) = IF b <= a THEN a - b ELSE a - b + WRAP
  BY MinusIs
<1> QED BY <1>1, <1>2, <1>3, <1>4, Sizes

\* A cell of the ring, counted from a position.
Place(at, k) == Console!Plus(at, k) % INPUT_BUF

Finished == Console!Minus(w, r)
Typing == Console!Minus(e, w)

\* Finished lines and the line that is typed share the ring, and are all that
\* is in it; newlines and ^D are behind w.
Ring ==
  /\ Finished + Typing <= INPUT_BUF
  /\ \A k \in 0..Finished - 1 : buf[Place(r, k)] \in Console!Chars
  /\ \A k \in Finished..Finished + Typing - 1 : buf[Place(r, k)] = "x"

LEMMA PlaceIn ==
  ASSUME Console!ConsoleAssumption, NEW x \in 0..WRAP - 1, NEW k \in 0..WRAP - 1
  PROVE  Place(x, k) \in 0..INPUT_BUF - 1
<1>1. Console!Plus(x, k) \in Nat
  BY PlusIs
<1> QED BY <1>1, Sizes DEF Place

LEMMA OtherPlace ==
  ASSUME Console!ConsoleAssumption, NEW x \in 0..WRAP - 1,
         NEW k \in 0..INPUT_BUF - 1, NEW j \in 0..INPUT_BUF - 1, k # j
  PROVE  Place(x, k) # Place(x, j)
<1>1. \A i, l \in 0..INPUT_BUF - 1 : i < l => Place(x, i) # Place(x, l)
  <2> SUFFICES ASSUME NEW i \in 0..INPUT_BUF - 1, NEW l \in 0..INPUT_BUF - 1, i < l
               PROVE  Place(x, i) # Place(x, l)
    OBVIOUS
  <2> DEFINE y == x + i
             z == x + l
  <2>1. y \in 0..2 * WRAP - 1 /\ z \in 0..2 * WRAP - 1 /\ y < z /\ z < y + INPUT_BUF
    BY Sizes
  <2>2. (y % WRAP) % INPUT_BUF # (z % WRAP) % INPUT_BUF
    <3> HIDE DEF y, z
    <3> QED BY <2>1, PlacesDiffer
  <2> QED BY <2>2 DEF Place, Console!Plus
<1> QED BY <1>1, Sizes

LEMMA FunctionIsSeq ==
  ASSUME NEW n \in Nat, NEW S, NEW s \in [1..n -> S]
  PROVE  s \in Seq(S) /\ Len(s) = n
OBVIOUS

(***************************************************************************)
(* A ring b with n characters of finished lines from position x and m of a *)
(* line that is typed behind them, up to y and z; f and t are the ring's   *)
(* stretches from x to y and from y to z.                                  *)
(***************************************************************************)
Holds(b, x, n, m, y, z, f, t) ==
  /\ x \in 0..WRAP - 1 /\ n \in Nat /\ m \in Nat /\ n + m <= INPUT_BUF
  /\ \A k \in 0..n - 1 : b[Place(x, k)] \in Console!Chars
  /\ \A k \in n..n + m - 1 : b[Place(x, k)] = "x"
  /\ y = Console!Plus(x, n) /\ z = Console!Plus(x, n + m)
  /\ f = [i \in 1..Console!Minus(y, x) |-> b[Place(x, i - 1)]]
  /\ t = [i \in 1..Console!Minus(z, y) |-> b[Place(y, i - 1)]]

\* What the queue of lines sees of it.
Shows(b, x, n, m, f, t) ==
  /\ f \in Seq(Console!Chars) /\ Len(f) = n
  /\ \A k \in 0..n - 1 : f[k + 1] = b[Place(x, k)]
  /\ t \in Seq({"x"}) /\ Len(t) = m

LEMMA Picture ==
  ASSUME Console!ConsoleAssumption, NEW b, NEW x, NEW n, NEW m, NEW y, NEW z,
         NEW f, NEW t, Holds(b, x, n, m, y, z, f, t)
  PROVE  /\ Console!Minus(y, x) = n /\ Console!Minus(z, y) = m
         /\ Shows(b, x, n, m, f, t)
<1> USE DEF Holds, Shows
<1>1. n \in 0..WRAP - 1 /\ n + m \in 0..WRAP - 1
  BY Sizes
<1>2. Console!Minus(y, x) = n
  BY <1>1, MinusPlus
<1>3. Console!Minus(z, y) = m
  <2> DEFINE c == n + m
  <2>1. c \in 0..WRAP - 1 /\ n \in 0..c /\ c - n = m
    BY <1>1
  <2> HIDE DEF c
  <2>2. Console!Minus(Console!Plus(x, c), Console!Plus(x, n)) = c - n
    BY <2>1, MinusOfPlus
  <2> QED BY <2>1, <2>2 DEF c
<1>4. /\ f \in Seq(Console!Chars) /\ Len(f) = n
      /\ \A k \in 0..n - 1 : f[k + 1] = b[Place(x, k)]
  <2>1. f = [i \in 1..n |-> b[Place(x, i - 1)]]
    BY <1>2
  <2>2. \A k \in 0..n - 1 : f[k + 1] = b[Place(x, k)]
    <3> SUFFICES ASSUME NEW k \in 0..n - 1 PROVE f[k + 1] = b[Place(x, k)]
      OBVIOUS
    <3>1. k + 1 \in 1..n /\ (k + 1) - 1 = k
      OBVIOUS
    <3> QED BY <2>1, <3>1
  <2>3. \A i \in 1..n : b[Place(x, i - 1)] \in Console!Chars
    <3> SUFFICES ASSUME NEW i \in 1..n PROVE b[Place(x, i - 1)] \in Console!Chars
      OBVIOUS
    <3>1. i - 1 \in 0..n - 1
      OBVIOUS
    <3> QED BY <3>1
  <2>4. f \in [1..n -> Console!Chars]
    BY <2>1, <2>3
  <2> QED BY <2>2, <2>4, FunctionIsSeq
<1>5. \A k \in 0..m - 1 : b[Place(y, k)] \in {"x"}
  <2> SUFFICES ASSUME NEW k \in 0..m - 1 PROVE b[Place(y, k)] = "x"
    OBVIOUS
  <2>1. k \in 0..WRAP - 1 /\ n + k < WRAP
    BY <1>1, Sizes
  <2>2. Console!Plus(y, k) = Console!Plus(x, n + k)
    BY <1>1, <2>1, PlusPlus
  <2>3. n + k \in n..n + m - 1
    OBVIOUS
  <2> QED BY <2>2, <2>3 DEF Place
<1>6. t \in Seq({"x"}) /\ Len(t) = m
  <2>1. t = [i \in 1..m |-> b[Place(y, i - 1)]]
    BY <1>3
  <2>2. \A i \in 1..m : b[Place(y, i - 1)] \in {"x"}
    <3> SUFFICES ASSUME NEW i \in 1..m PROVE b[Place(y, i - 1)] \in {"x"}
      OBVIOUS
    <3>1. i - 1 \in 0..m - 1
      OBVIOUS
    <3> QED BY <1>5, <3>1
  <2> DEFINE X == {"x"}
  <2>3. t \in [1..m -> X]
    BY <2>1, <2>2
  <2>4. t \in Seq(X) /\ Len(t) = m
    <3>1. m \in Nat
      OBVIOUS
    <3> HIDE DEF X, Holds, Shows
    <3> QED BY <2>3, <3>1, FunctionIsSeq
  <2> QED BY <2>4
<1> QED BY <1>2, <1>3, <1>4, <1>6

\* A stretch of x's is known by its length.
LEMMA SameLine ==
  ASSUME NEW s \in Seq({"x"}), NEW t \in Seq({"x"}), Len(s) = Len(t)
  PROVE  s = t
<1>1. \A i \in 1..Len(s) : s[i] = t[i]
  BY ElementOfSeq
<1> QED BY <1>1, SeqEqual

LEMMA RingIs ==
  ASSUME Console!ConsoleAssumption, Console!TypeOK, Ring
  PROVE  /\ r \in 0..WRAP - 1 /\ Finished \in Nat /\ Typing \in Nat
         /\ w = Console!Plus(r, Finished) /\ e = Console!Plus(r, Finished + Typing)
         /\ Console!Minus(e, r) = Finished + Typing
         /\ Shows(buf, r, Finished, Typing, Console!Stretch(r, w), Console!Stretch(w, e))
<1>1. r \in 0..WRAP - 1 /\ w \in 0..WRAP - 1 /\ e \in 0..WRAP - 1
  BY DEF Console!TypeOK
<1>2. Finished \in 0..WRAP - 1 /\ Typing \in 0..WRAP - 1
  BY <1>1, MinusIs DEF Finished, Typing
<1>3. w = Console!Plus(r, Finished) /\ e = Console!Plus(w, Typing)
  BY <1>1, PlusMinus DEF Finished, Typing
<1>4. Finished + Typing <= INPUT_BUF
  BY DEF Ring
<1>5. Finished + Typing \in 0..WRAP - 1
  BY <1>2, <1>4, Sizes
<1>6. e = Console!Plus(r, Finished + Typing)
  <2>1. Finished + Typing < WRAP
    BY <1>5, Sizes
  <2> QED BY <1>1, <1>2, <1>3, <2>1, PlusPlus
<1>7. Console!Minus(e, r) = Finished + Typing
  BY <1>1, <1>5, <1>6, MinusPlus
<1>8. /\ Console!Stretch(r, w) =
           [i \in 1..Console!Minus(w, r) |-> buf[Place(r, i - 1)]]
      /\ Console!Stretch(w, e) =
           [i \in 1..Console!Minus(e, w) |-> buf[Place(w, i - 1)]]
  BY DEF Console!Stretch, Console!CharAt, Place
<1>9. /\ \A k \in 0..Finished - 1 : buf[Place(r, k)] \in Console!Chars
      /\ \A k \in Finished..Finished + Typing - 1 : buf[Place(r, k)] = "x"
  BY DEF Ring
<1>10. Finished \in Nat /\ Typing \in Nat
  BY <1>2
<1> HIDE DEF Finished, Typing
<1>11. Holds(buf, r, Finished, Typing, w, e,
             Console!Stretch(r, w), Console!Stretch(w, e))
  BY <1>1, <1>3, <1>4, <1>6, <1>8, <1>9, <1>10 DEF Holds
<1>12. Shows(buf, r, Finished, Typing, Console!Stretch(r, w), Console!Stretch(w, e))
  BY <1>11, Picture
<1> QED BY <1>1, <1>3, <1>6, <1>7, <1>10, <1>12

\* The same of the state after a step, of which it is known what the ring holds.
LEMMA RingBecomes ==
  ASSUME Console!ConsoleAssumption,
         NEW n \in Nat, NEW m \in Nat, n + m <= INPUT_BUF, r' \in 0..WRAP - 1,
         w' = Console!Plus(r', n), e' = Console!Plus(r', n + m),
         \A k \in 0..n - 1 : buf'[Place(r', k)] \in Console!Chars,
         \A k \in n..n + m - 1 : buf'[Place(r', k)] = "x"
  PROVE  /\ Ring'
         /\ Shows(buf', r', n, m, Console!Stretch(r, w)', Console!Stretch(w, e)')
<1>1. /\ Console!Stretch(r, w)' =
           [i \in 1..Console!Minus(w', r') |-> buf'[Place(r', i - 1)]]
      /\ Console!Stretch(w, e)' =
           [i \in 1..Console!Minus(e', w') |-> buf'[Place(w', i - 1)]]
  BY DEF Console!Stretch, Console!CharAt, Place
<1>2. Holds(buf', r', n, m, w', e', Console!Stretch(r, w)', Console!Stretch(w, e)')
  BY <1>1 DEF Holds
<1>3. /\ Console!Minus(w', r') = n /\ Console!Minus(e', w') = m
      /\ Shows(buf', r', n, m, Console!Stretch(r, w)', Console!Stretch(w, e)')
  BY <1>2, Picture
<1>4. Ring'
  BY <1>3 DEF Ring, Finished, Typing
<1> QED BY <1>3, <1>4

\* Two sequences, and a last character, put one after the other.
LEMMA Joined ==
  ASSUME NEW S, NEW s \in Seq(S), NEW t \in Seq(S), NEW c \in S, NEW u \in Seq(S),
         Len(u) = Len(s) + Len(t) + 1,
         \A i \in 1..Len(s) : u[i] = s[i],
         \A i \in 1..Len(t) : u[Len(s) + i] = t[i],
         u[Len(s) + Len(t) + 1] = c
  PROVE  u = s \o t \o <<c>>
<1> DEFINE v == s \o t
           y == Append(v, c)
<1>1. Len(s) \in Nat /\ Len(t) \in Nat
  OBVIOUS
<1>2. /\ v \in Seq(S) /\ Len(v) = Len(s) + Len(t)
      /\ \A i \in 1..Len(s) + Len(t) :
           v[i] = IF i <= Len(s) THEN s[i] ELSE t[i - Len(s)]
  BY ConcatProperties
<1>3. y = v \o <<c>>
  <2> HIDE DEF v
  <2> QED BY <1>2, AppendIsConcat
<1>4. /\ y \in Seq(S) /\ Len(y) = Len(v) + 1
      /\ \A i \in 1..Len(v) : y[i] = v[i]
      /\ y[Len(v) + 1] = c
  <2>1. v \in Seq(S)
    BY <1>2
  <2> HIDE DEF v
  <2> QED BY <2>1, AppendProperties
<1> HIDE DEF v, y
<1>5. \A i \in 1..Len(u) : u[i] = y[i]
  <2> SUFFICES ASSUME NEW i \in 1..Len(u) PROVE u[i] = y[i]
    OBVIOUS
  <2>1. CASE i <= Len(s)
    <3>1. i \in 1..Len(s) /\ i \in 1..Len(s) + Len(t)
      BY <1>1, <2>1
    <3> QED BY <1>2, <1>4, <2>1, <3>1
  <2>2. CASE i > Len(s) /\ i <= Len(s) + Len(t)
    <3>1. i - Len(s) \in 1..Len(t) /\ Len(s) + (i - Len(s)) = i
      BY <1>1, <2>2
    <3>2. u[i] = t[i - Len(s)]
      BY <3>1
    <3>3. i \in 1..Len(s) + Len(t) /\ ~(i <= Len(s))
      BY <1>1, <2>2
    <3> QED BY <1>2, <1>4, <3>2, <3>3
  <2>3. CASE i = Len(s) + Len(t) + 1
    BY <1>2, <1>4, <2>3
  <2>4. i \in Nat /\ 1 <= i /\ i <= Len(s) + Len(t) + 1
    BY <1>1
  <2>5. \/ i <= Len(s)
        \/ i > Len(s) /\ i <= Len(s) + Len(t)
        \/ i = Len(s) + Len(t) + 1
    <3>1. \A a, d \in Nat : i <= a + d + 1 =>
            \/ i <= a
            \/ i > a /\ i <= a + d
            \/ i = a + d + 1
      BY <2>4
    <3> QED BY <1>1, <2>4, <3>1
  <2> QED BY <2>1, <2>2, <2>3, <2>5
<1>6. u = y
  BY <1>1, <1>2, <1>4, <1>5, SeqEqual
<1> QED BY <1>3, <1>6 DEF v

LEMMA CutOff ==
  ASSUME NEW S, NEW s \in Seq(S), NEW u \in Seq(S), NEW a \in 0..Len(s),
         Len(u) = Len(s) - a, \A i \in 1..Len(u) : u[i] = s[a + i]
  PROVE  u = SubSeq(s, a + 1, Len(s))
<1> DEFINE n == Len(s)
           t == SubSeq(s, a + 1, n)
<1>1. n \in Nat /\ a + 1 \in Int
  OBVIOUS
<1>2. \A i \in a + 1..n : s[i] \in S
  BY ElementOfSeq
<1>3. /\ t \in Seq(S) /\ Len(t) = (IF a + 1 <= n THEN n - (a + 1) + 1 ELSE 0)
      /\ \A i \in 1..n - (a + 1) + 1 : t[i] = s[a + 1 + i - 1]
  <2> HIDE DEF n
  <2> QED BY <1>1, <1>2, SubSeqProperties
<1> HIDE DEF t
<1>4. Len(t) = Len(u)
  BY <1>1, <1>3
<1>5. \A i \in 1..Len(u) : u[i] = t[i]
  <2> SUFFICES ASSUME NEW i \in 1..Len(u) PROVE u[i] = t[i]
    OBVIOUS
  <2>1. i \in 1..n - (a + 1) + 1 /\ a + 1 + i - 1 = a + i
    BY <1>1
  <2> QED BY <1>3, <2>1
<1>6. u = t
  BY <1>3, <1>4, <1>5, SeqEqual
<1> QED BY <1>6 DEF t

Queue == Console!Stretch(r, w)
Line == Console!Stretch(w, e)

\* What is in the ring, by position.
LEMMA Cells ==
  ASSUME Console!ConsoleAssumption, Console!TypeOK, Ring,
         NEW k \in 0..Finished + Typing - 1
  PROVE  /\ buf[Place(r, k)] \in Console!Chars
         /\ k >= Finished => buf[Place(r, k)] = "x"
BY RingIs DEF Ring, Console!Chars

\* The queue is left alone as long as its cells are.
LEMMA SameQueue ==
  ASSUME NEW n \in Nat, NEW S, NEW f \in Seq(S), NEW g \in Seq(S), Len(f) = n,
         Len(g) = n, \A k \in 0..n - 1 : g[k + 1] = f[k + 1]
  PROVE  g = f
<1>1. \A i \in 1..n : g[i] = f[i]
  <2> SUFFICES ASSUME NEW i \in 1..n PROVE g[i] = f[i]
    OBVIOUS
  <2>1. i - 1 \in 0..n - 1 /\ (i - 1) + 1 = i
    OBVIOUS
  <2>2. g[(i - 1) + 1] = f[(i - 1) + 1]
    BY <2>1
  <2> QED BY <2>1, <2>2
<1> QED BY <1>1, SeqEqual

\* A character is put behind all others: it ends the line, or lengthens it.
LEMMA InsertIsType ==
  ASSUME Console!ConsoleAssumption, Console!TypeOK, Ring,
         NEW c \in Console!Chars, Console!Insert(c)
  PROVE  Ring' /\ Console!Lines!Type(c)
<1> DEFINE n == Finished
           m == Typing
           s == n + m
<1>0. /\ r \in 0..WRAP - 1 /\ n \in Nat /\ m \in Nat
      /\ w = Console!Plus(r, n) /\ e = Console!Plus(r, s) /\ Console!Minus(e, r) = s
      /\ Shows(buf, r, n, m, Queue, Line)
  BY RingIs DEF Queue, Line
<1>1. /\ buf' = [buf EXCEPT ![e % INPUT_BUF] = c] /\ e' = Console!Plus(e, 1)
      /\ r' = r /\ s < INPUT_BUF
      /\ IF Console!EndsLine(c) THEN w' = e' ELSE w' = w
  BY <1>0 DEF Console!Insert, Console!Room
<1>2. \A k \in 0..s - 1 : /\ buf[Place(r, k)] \in Console!Chars
                          /\ k >= n => buf[Place(r, k)] = "x"
  <2>1. \A k \in 0..Finished + Typing - 1 :
          /\ buf[Place(r, k)] \in Console!Chars
          /\ k >= Finished => buf[Place(r, k)] = "x"
    BY Cells
  <2> QED BY <1>0, <2>1
<1> HIDE DEF n, m
<1>3. /\ s \in 0..INPUT_BUF - 1 /\ s \in 0..WRAP - 1 /\ s + 1 \in 0..WRAP - 1
      /\ 1 \in 0..WRAP - 1 /\ INPUT_BUF \in 0..WRAP - 1 /\ s + 1 < WRAP
  BY <1>0, <1>1, Sizes
<1>4. e % INPUT_BUF = Place(r, s) /\ e' = Console!Plus(r, s + 1)
  BY <1>0, <1>1, <1>3, PlusPlus DEF Place
<1>5. \A k \in 0..s : buf'[Place(r, k)] = IF k = s THEN c ELSE buf[Place(r, k)]
  <2> SUFFICES ASSUME NEW k \in 0..s
               PROVE  buf'[Place(r, k)] = IF k = s THEN c ELSE buf[Place(r, k)]
    OBVIOUS
  <2>1. k \in 0..INPUT_BUF - 1 /\ k \in 0..WRAP - 1
    BY <1>3, Sizes
  <2>2. Place(r, k) \in 0..INPUT_BUF - 1
    BY <1>0, <2>1, PlaceIn
  <2>3. k # s => Place(r, k) # Place(r, s)
    BY <1>0, <1>3, <2>1, OtherPlace
  <2>4. DOMAIN buf = 0..INPUT_BUF - 1
    BY DEF Console!TypeOK
  <2> QED BY <1>1, <1>4, <2>2, <2>3, <2>4
<1>6. Console!EndsLine(c) <=> c # "x" \/ s + 1 = INPUT_BUF
  <2>1. /\ Console!Minus(Console!Plus(r, s + 1), r) = s + 1
        /\ Console!Minus(Console!Plus(r, INPUT_BUF), r) = INPUT_BUF
    BY <1>0, <1>3, MinusPlus
  <2> QED BY <1>1, <1>4, <2>1 DEF Console!EndsLine, Console!Chars
<1>7. Queue \in Seq(Console!Chars) /\ Line \in Seq({"x"})
      /\ Len(Queue) = n /\ Len(Line) = m
      /\ \A k \in 0..n - 1 : Queue[k + 1] = buf[Place(r, k)]
  BY <1>0 DEF Shows
<1>8. CASE Console!EndsLine(c)
  <2> DEFINE N == s + 1
  <2>1. N \in Nat /\ 0 \in Nat /\ N + 0 <= INPUT_BUF /\ N + 0 = N
    BY <1>3, Sizes
  <2>2. w' = Console!Plus(r', N) /\ e' = Console!Plus(r', N + 0)
    BY <1>1, <1>4, <1>8, <2>1
  <2>3. /\ \A k \in 0..N - 1 : buf'[Place(r', k)] \in Console!Chars
        /\ \A k \in N..N + 0 - 1 : buf'[Place(r', k)] = "x"
    <3>1. \A k \in 0..N - 1 : k \in 0..s /\ (k # s => k \in 0..s - 1)
      BY <1>3
    <3> QED BY <1>1, <1>2, <1>5, <2>1, <3>1
  <2> HIDE DEF N
  <2>4. Ring' /\ Shows(buf', r', N, 0, Queue', Line')
    BY <1>0, <1>1, <2>1, <2>2, <2>3, RingBecomes DEF Queue, Line
  <2>5. /\ Queue' \in Seq(Console!Chars) /\ Len(Queue') = N
        /\ \A k \in 0..N - 1 : Queue'[k + 1] = buf'[Place(r, k)]
        /\ Line' = <<>>
    BY <1>1, <2>4 DEF Shows
  <2>6. Queue' = Queue \o Line \o <<c>>
    <3> DEFINE f == Queue
               t == Line
               u == Queue'
    <3>1. f \in Seq(Console!Chars) /\ t \in Seq(Console!Chars) /\ u \in Seq(Console!Chars)
          /\ Len(f) = n /\ Len(t) = m /\ Len(u) = n + m + 1
      <4>1. {"x"} \subseteq Console!Chars
        BY DEF Console!Chars
      <4> QED BY <1>7, <2>5, <4>1 DEF N
    <3>2. \A i \in 1..n : u[i] = f[i]
      <4> SUFFICES ASSUME NEW i \in 1..n PROVE u[i] = f[i]
        OBVIOUS
      <4>1. /\ i - 1 \in 0..n - 1 /\ i - 1 \in 0..N - 1 /\ (i - 1) + 1 = i
            /\ i - 1 \in 0..s /\ i - 1 # s
        BY <1>0 DEF N
      <4>2. Queue'[(i - 1) + 1] = buf'[Place(r, i - 1)]
        BY <2>5, <4>1
      <4>3. buf'[Place(r, i - 1)] = buf[Place(r, i - 1)]
        BY <1>5, <4>1
      <4>4. Queue[(i - 1) + 1] = buf[Place(r, i - 1)]
        BY <1>7, <4>1
      <4> QED BY <4>1, <4>2, <4>3, <4>4
    <3>3. \A i \in 1..m : u[n + i] = t[i]
      <4> SUFFICES ASSUME NEW i \in 1..m PROVE u[n + i] = t[i]
        OBVIOUS
      <4> DEFINE k == n + i - 1
      <4>1. /\ k \in 0..N - 1 /\ k \in 0..s /\ k # s /\ k \in 0..s - 1 /\ k >= n
            /\ k + 1 = n + i
        BY <1>0 DEF N
      <4> HIDE DEF k
      <4>2. u[k + 1] = buf'[Place(r, k)]
        BY <2>5, <4>1
      <4>3. buf'[Place(r, k)] = buf[Place(r, k)]
        BY <1>5, <4>1
      <4>4. buf[Place(r, k)] = "x"
        BY <1>2, <4>1
      <4>5. t[i] = "x"
        BY <1>7, ElementOfSeq
      <4> QED BY <4>1, <4>2, <4>3, <4>4, <4>5
    <3>4. u[n + m + 1] = c
      <4>1. s \in 0..N - 1 /\ s \in 0..s
        BY <1>3 DEF N
      <4> QED BY <1>5, <2>5, <4>1
    <3> HIDE DEF f, t, u
    <3>5. u = f \o t \o <<c>>
      BY <3>1, <3>2, <3>3, <3>4, Joined
    <3> QED BY <3>5 DEF f, t, u
  <2>7. c # "x" \/ Len(Queue) + Len(Line) + 1 = INPUT_BUF
    BY <1>6, <1>7, <1>8
  <2>8. Len(Queue) + Len(Line) # INPUT_BUF
    BY <1>3, <1>7, Sizes
  <2> QED BY <2>4, <2>5, <2>6, <2>7, <2>8
          DEF Console!Lines!Type, Console!Lines!Full, Queue, Line
<1>9. CASE ~Console!EndsLine(c)
  <2>1. m + 1 \in Nat /\ n + (m + 1) <= INPUT_BUF /\ n + (m + 1) = s + 1
    BY <1>0, <1>3, Sizes
  <2>2. w' = Console!Plus(r', n) /\ e' = Console!Plus(r', n + (m + 1))
    BY <1>0, <1>1, <1>4, <1>9, <2>1
  <2>3. c = "x"
    BY <1>6, <1>9
  <2>4. /\ \A k \in 0..n - 1 : buf'[Place(r', k)] \in Console!Chars
        /\ \A k \in n..n + (m + 1) - 1 : buf'[Place(r', k)] = "x"
    <3>1. \A k \in 0..n - 1 : k \in 0..s /\ k \in 0..s - 1 /\ k # s
      BY <1>0
    <3>2. \A k \in n..n + (m + 1) - 1 :
            k \in 0..s /\ k >= n /\ (k # s => k \in 0..s - 1)
      BY <1>0
    <3> QED BY <1>1, <1>2, <1>5, <2>3, <3>1, <3>2
  <2>5. Ring' /\ Shows(buf', r', n, m + 1, Queue', Line')
    BY <1>0, <1>1, <2>1, <2>2, <2>4, RingBecomes DEF Queue, Line
  <2>6. /\ Queue' \in Seq(Console!Chars) /\ Len(Queue') = n
        /\ \A k \in 0..n - 1 : Queue'[k + 1] = buf'[Place(r, k)]
        /\ Line' \in Seq({"x"}) /\ Len(Line') = m + 1
    BY <1>1, <2>5 DEF Shows
  <2>7. Queue' = Queue
    <3>1. \A k \in 0..n - 1 : k \in 0..s /\ k # s
      BY <1>0
    <3>2. \A k \in 0..n - 1 : Queue'[k + 1] = Queue[k + 1]
      BY <1>5, <1>7, <2>6, <3>1
    <3> QED BY <1>0, <1>7, <2>6, <3>2, SameQueue
  <2>8. Line' = Append(Line, c)
    <3> DEFINE t == Line
               u == Line'
               X == {"x"}
    <3>1. t \in Seq(X) /\ u \in Seq(X) /\ Len(t) = m /\ Len(u) = m + 1 /\ c \in X
      BY <1>7, <2>3, <2>6
    <3>2. Append(t, c) \in Seq(X) /\ Len(Append(t, c)) = Len(t) + 1
      <4> HIDE DEF t, X
      <4> QED BY <3>1, AppendProperties
    <3>3. Len(u) = Len(Append(t, c))
      BY <3>1, <3>2
    <3> HIDE DEF t, u
    <3> QED BY <3>1, <3>2, <3>3, SameLine DEF t, u
  <2>9. ~(c # "x" \/ Len(Queue) + Len(Line) + 1 = INPUT_BUF)
    BY <1>6, <1>7, <1>9
  <2>10. Len(Queue) + Len(Line) # INPUT_BUF
    BY <1>3, <1>7, Sizes
  <2> QED BY <2>5, <2>7, <2>8, <2>9, <2>10
          DEF Console!Lines!Type, Console!Lines!Full, Queue, Line
<1> QED BY <1>8, <1>9

\* A line that is edited gets shorter, down to nothing.
LEMMA LineCut ==
  ASSUME Console!ConsoleAssumption, Console!TypeOK, Ring,
         NEW m \in Nat, m <= Typing, e' = Console!Plus(r, Finished + m),
         UNCHANGED <<buf, r, w>>
  PROVE  /\ Ring' /\ Queue' = Queue
         /\ Line \in Seq({"x"}) /\ Len(Line) = Typing
         /\ Line' \in Seq({"x"}) /\ Len(Line') = m
<1> DEFINE n == Finished
<1>0. /\ r \in 0..WRAP - 1 /\ n \in Nat /\ Typing \in Nat /\ n + Typing <= INPUT_BUF
      /\ w = Console!Plus(r, n) /\ Shows(buf, r, n, Typing, Queue, Line)
  BY RingIs DEF Queue, Line, Ring
<1>1. \A k \in 0..n + Typing - 1 : /\ buf[Place(r, k)] \in Console!Chars
                                   /\ k >= n => buf[Place(r, k)] = "x"
  BY Cells
<1> HIDE DEF n
<1>2. \A k \in 0..n - 1 : k \in 0..n + Typing - 1
  BY <1>0
<1>3. \A k \in n..n + m - 1 : k \in 0..n + Typing - 1 /\ k >= n
  BY <1>0
<1>4. n + m <= INPUT_BUF
  BY <1>0, Sizes
<1>5. w' = Console!Plus(r', n) /\ e' = Console!Plus(r', n + m)
  BY <1>0 DEF n
<1>6. /\ \A k \in 0..n - 1 : buf'[Place(r', k)] \in Console!Chars
      /\ \A k \in n..n + m - 1 : buf'[Place(r', k)] = "x"
  BY <1>1, <1>2, <1>3
<1>7. Ring' /\ Shows(buf', r', n, m, Queue', Line')
  BY <1>0, <1>4, <1>5, <1>6, RingBecomes DEF Queue, Line
<1>8. Queue' = Queue
  <2>1. /\ Queue \in Seq(Console!Chars) /\ Queue' \in Seq(Console!Chars)
        /\ Len(Queue) = n /\ Len(Queue') = n
        /\ \A k \in 0..n - 1 : Queue'[k + 1] = Queue[k + 1]
    BY <1>0, <1>7 DEF Shows
  <2> QED BY <1>0, <2>1, SameQueue
<1> QED BY <1>0, <1>7, <1>8 DEF Shows

LEMMA BackspaceIsErase ==
  ASSUME Console!ConsoleAssumption, Console!TypeOK, Ring, Console!Backspace
  PROVE  Ring' /\ Console!Lines!Erase
<1> DEFINE n == Finished
           m == Typing
<1>0. /\ r \in 0..WRAP - 1 /\ n \in Nat /\ m \in Nat /\ n + m <= INPUT_BUF
      /\ w = Console!Plus(r, n) /\ e = Console!Plus(r, n + m)
  BY RingIs DEF Ring
<1>1. e # w /\ e' = Console!Minus(e, 1) /\ UNCHANGED <<buf, r, w>>
  BY DEF Console!Backspace
<1>2. m # 0
  BY <1>0, <1>1
<1>3. e' = Console!Plus(r, n + (m - 1))
  <2> DEFINE s == n + m
  <2> HIDE DEF n, m
  <2>1. s \in 0..WRAP - 1 /\ 1 \in 0..s /\ s - 1 = n + (m - 1)
    BY <1>0, <1>2, Sizes
  <2>2. e = Console!Plus(r, s)
    BY <1>0
  <2> HIDE DEF s
  <2>3. Console!Minus(Console!Plus(r, s), 1) = Console!Plus(r, s - 1)
    BY <1>0, <2>1, MinusOfPlus
  <2> QED BY <1>1, <2>1, <2>2, <2>3
<1>4. /\ Ring' /\ Queue' = Queue
      /\ Line \in Seq({"x"}) /\ Len(Line) = m
      /\ Line' \in Seq({"x"}) /\ Len(Line') = m - 1
  <2>1. m - 1 \in Nat /\ m - 1 <= Typing
    BY <1>0, <1>2
  <2> QED BY <1>1, <1>3, <2>1, LineCut
<1>5. Line # <<>>
  BY <1>2, <1>4
<1>6. Line' = SubSeq(Line, 1, Len(Line) - 1)
  <2> DEFINE t == Line
             u == Line'
             X == {"x"}
             v == SubSeq(t, 1, m - 1)
  <2>1. t \in Seq(X) /\ u \in Seq(X) /\ Len(t) = m /\ Len(u) = m - 1
    BY <1>4
  <2> HIDE DEF t, u, m
  <2>2. \A i \in 1..m - 1 : t[i] \in X
    <3>1. \A i \in 1..m - 1 : i \in 1..Len(t)
      BY <1>0, <2>1
    <3> HIDE DEF X
    <3> QED BY <2>1, <3>1, ElementOfSeq
  <2>3. v \in Seq(X) /\ Len(v) = (IF 1 <= m - 1 THEN m - 1 - 1 + 1 ELSE 0)
    <3>1. 1 \in Int /\ m - 1 \in Int
      BY <1>0
    <3> HIDE DEF X
    <3> QED BY <2>2, <3>1, SubSeqProperties
  <2>4. Len(v) = Len(u)
    BY <1>0, <1>2, <2>1, <2>3
  <2> HIDE DEF v
  <2>5. u = v
    BY <2>1, <2>3, <2>4, SameLine
  <2> QED BY <1>4, <2>5 DEF t, u, v
<1> QED BY <1>4, <1>5, <1>6 DEF Console!Lines!Erase, Queue, Line

\* The line that is typed holds no newline, so killing it goes back to its start.
LEMMA KillIsKill ==
  ASSUME Console!ConsoleAssumption, Console!TypeOK, Ring, Console!KillLine
  PROVE  Ring' /\ Console!Lines!KillLine
<1> DEFINE n == Finished
           m == Typing
           s == n + m
           S == {i \in 1..m : \A j \in 1..i : Console!CharAt(Console!Minus(e, j)) # "nl"}
                  \cup {0}
<1>0. /\ r \in 0..WRAP - 1 /\ n \in Nat /\ m \in Nat /\ s <= INPUT_BUF
      /\ w = Console!Plus(r, n) /\ e = Console!Plus(r, s)
  BY RingIs DEF Ring
<1>1. \A k \in 0..s - 1 : k >= n => buf[Place(r, k)] = "x"
  <2>1. \A k \in 0..Finished + Typing - 1 :
          k >= Finished => buf[Place(r, k)] = "x"
    BY Cells
  <2> QED BY <1>0, <2>1
<1>2. e' = Console!Minus(e, Console!Max(S)) /\ UNCHANGED <<buf, r, w>>
  BY DEF Console!KillLine, Typing
<1>3. \A j \in 1..m : /\ j \in 0..s /\ Console!Minus(e, j) = Console!Plus(r, s - j)
                      /\ s - j \in 0..s - 1 /\ s - j >= n
  <2> SUFFICES ASSUME NEW j \in 1..m
               PROVE  /\ j \in 0..s /\ Console!Minus(e, j) = Console!Plus(r, s - j)
                      /\ s - j \in 0..s - 1 /\ s - j >= n
    OBVIOUS
  <2> HIDE DEF n, m
  <2>1. s \in 0..WRAP - 1 /\ j \in 0..s /\ s - j \in 0..s - 1 /\ s - j >= n
    BY <1>0, Sizes
  <2> HIDE DEF s
  <2> QED BY <1>0, <2>1, MinusOfPlus
<1>4. \A j \in 1..m : Console!CharAt(Console!Minus(e, j)) # "nl"
  BY <1>1, <1>3 DEF Console!CharAt, Place
<1>5. Console!Max(S) = m
  <2> HIDE DEF m
  <2>1. m \in S
    BY <1>0, <1>4
  <2>2. S \in SUBSET (0..m) /\ S # {}
    BY <1>0
  <2> HIDE DEF S
  <2>3. Console!Max(S) \in 0..m /\ Console!Max(S) >= m
    BY <1>0, <2>1, <2>2, MaxIs
  <2> QED BY <1>0, <2>3
<1>6. e' = Console!Plus(r, n + 0)
  <2>1. CASE m = 0
    <3>1. m \in 0..s /\ s - m = n + 0 /\ s \in 0..WRAP - 1
      BY <1>0, <2>1, Sizes
    <3>2. Console!Minus(Console!Plus(r, s), m) = Console!Plus(r, s - m)
      BY <1>0, <3>1, MinusOfPlus
    <3> QED BY <1>0, <1>2, <1>5, <3>1, <3>2
  <2>2. CASE m # 0
    <3>1. m \in 1..m /\ s - m = n + 0
      BY <1>0, <2>2
    <3> QED BY <1>2, <1>3, <1>5, <3>1
  <2> QED BY <2>1, <2>2
<1>7. Ring' /\ Queue' = Queue /\ Line' \in Seq({"x"}) /\ Len(Line') = 0
  <2>1. 0 \in Nat /\ 0 <= Typing
    BY <1>0
  <2> QED BY <1>2, <1>6, <2>1, LineCut
<1>8. Line' = <<>>
  BY <1>7
<1> QED BY <1>7, <1>8 DEF Console!Lines!KillLine, Queue, Line

(***************************************************************************)
(* consoleread's loop takes what is before the first newline or ^D and     *)
(* that character; ^D is taken alone or, behind others, left for the next  *)
(* read, which never asks for less than it has still to get.               *)
(***************************************************************************)
LEMMA TakeIsRead ==
  ASSUME Console!ConsoleAssumption, LineInv, Ring, NEW p \in Readers, Console!Take(p)
  PROVE  /\ Ring'
         /\ \/ \E k \in 1..INPUT_BUF : Console!Lines!Read(k)
            \/ UNCHANGED <<buf, r, w, e>>
<1> DEFINE n == Finished
           m == Typing
<1>0. /\ r \in 0..WRAP - 1 /\ n \in Nat /\ m \in Nat /\ n + m <= INPUT_BUF
      /\ w = Console!Plus(r, n) /\ e = Console!Plus(r, n + m)
      /\ Shows(buf, r, n, m, Queue, Line)
  BY RingIs DEF Queue, Line, Ring, LineInv
<1>1. \A k \in 0..n + m - 1 : /\ buf[Place(r, k)] \in Console!Chars
                              /\ k >= n => buf[Place(r, k)] = "x"
  <2>1. \A k \in 0..Finished + Typing - 1 :
          /\ buf[Place(r, k)] \in Console!Chars
          /\ k >= Finished => buf[Place(r, k)] = "x"
    BY Cells DEF LineInv
  <2> QED BY <1>0, <2>1
<1>2. /\ rpc[p] = "ready" /\ r # w /\ UNCHANGED <<buf, w, e>>
      /\ left[p] \in Nat \ {0} /\ asked[p] \in Nat /\ left[p] <= asked[p]
  <2>1. rpc[p] = "ready" /\ r # w /\ UNCHANGED <<buf, w, e>>
    BY DEF Console!Take
  <2>2. left[p] \in 1..asked[p] /\ asked[p] \in 0..MaxAsked /\ MaxAsked \in Nat
    BY <2>1 DEF LineInv, Asking, Console!TypeOK, Console!ConsoleAssumption
  <2> QED BY <2>1, <2>2
<1> HIDE DEF n, m
<1>3. n # 0
  <2>1. Console!Plus(r, 0) = r
    BY <1>0, PlusZero
  <2> QED BY <1>0, <1>2, <2>1
<1>4. n \in 0..WRAP - 1 /\ n + m \in 0..WRAP - 1 /\ n + m < WRAP
  BY <1>0, Sizes
<1>5. PICK k \in 1..left[p] : k = Console!Taken(p)
  BY <1>2, TakenIs
<1>6. \A j \in 1..left[p] : Console!Stops(p, j) => k <= j
  BY <1>2, <1>5, TakenIs
<1>7. k \in 1..n
  <2>1. CASE n <= left[p]
    <3>1. n \in 1..left[p] /\ Console!Stops(p, n)
      BY <1>0, <1>2, <1>3, <2>1 DEF Console!Stops
    <3> QED BY <1>0, <1>6, <3>1
  <2>2. CASE left[p] < n
    BY <1>0, <1>2, <2>2
  <2> QED BY <1>0, <1>2, <2>1, <2>2
<1>8. \A j \in 0..k - 2 : buf[Place(r, j)] = "x"
  <2> SUFFICES ASSUME NEW j \in 0..k - 2 PROVE buf[Place(r, j)] = "x"
    OBVIOUS
  <2>1. /\ j + 1 \in 1..left[p] /\ ~(k <= j + 1) /\ (j + 1) - 1 = j
        /\ j \in 0..n + m - 1
    BY <1>0, <1>2, <1>7
  <2>2. ~Console!Stops(p, j + 1)
    BY <1>6, <2>1
  <2>3. buf[Place(r, j)] \notin {"nl", "eof"}
    BY <2>1, <2>2 DEF Console!Stops, Console!CharAt, Place
  <2> QED BY <1>1, <2>1, <2>3 DEF Console!Chars
<1> DEFINE c == buf[Place(r, k - 1)]
           kept == c = "eof" /\ left[p] - (k - 1) < asked[p]
           d == IF kept THEN k - 1 ELSE k
<1>9. r' = Console!Plus(r, d)
  <2>1. Console!CharAt(Console!Plus(r, k - 1)) = c
    BY DEF Console!CharAt, Place
  <2> QED BY <1>5, <2>1 DEF Console!Take, Console!SavedForNext
<1>10. /\ d \in 0..n /\ d \in 0..WRAP - 1 /\ d \in 0..INPUT_BUF
       /\ n - d \in Nat /\ (n - d) + m <= INPUT_BUF
       /\ n - d \in 0..WRAP - 1 /\ (n - d) + m \in 0..WRAP - 1
       /\ d + (n - d) = n /\ d + ((n - d) + m) = n + m
       /\ d + (n - d) < WRAP /\ d + ((n - d) + m) < WRAP
  <2>1. d \in 0..n
    BY <1>0, <1>7
  <2> HIDE DEF d
  <2> QED BY <1>0, <1>4, <2>1, Sizes
<1>11. d = k \/ d = k - 1
  OBVIOUS
<1> HIDE DEF d
<1>12. \A j \in 0..(n - d) + m - 1 : Place(r', j) = Place(r, d + j)
  <2> SUFFICES ASSUME NEW j \in 0..(n - d) + m - 1
               PROVE  Place(r', j) = Place(r, d + j)
    OBVIOUS
  <2>1. j \in 0..WRAP - 1 /\ d + j < WRAP
    <3> DEFINE q == (n - d) + m
    <3>1. q \in Nat /\ q <= INPUT_BUF /\ j \in 0..q - 1 /\ d + q < WRAP
      BY <1>0, <1>10
    <3>2. d \in Nat
      BY <1>10
    <3> HIDE DEF q
    <3> QED BY <3>1, <3>2, Sizes
  <2>2. Console!Plus(Console!Plus(r, d), j) = Console!Plus(r, d + j)
    BY <1>0, <1>10, <2>1, PlusPlus
  <2> QED BY <1>9, <2>2 DEF Place
<1>13. Ring' /\ Shows(buf', r', n - d, m, Queue', Line')
  <2>1. r' \in 0..WRAP - 1
    BY <1>0, <1>9, <1>10, PlusIs
  <2>2. w' = Console!Plus(r', n - d)
    <3>1. Console!Plus(Console!Plus(r, d), n - d) = Console!Plus(r, d + (n - d))
      BY <1>0, <1>10, PlusPlus
    <3> QED BY <1>0, <1>2, <1>9, <1>10, <3>1
  <2>3. e' = Console!Plus(r', (n - d) + m)
    <3> DEFINE q == (n - d) + m
    <3>1. q \in 0..WRAP - 1 /\ d + q < WRAP /\ d + q = n + m
      BY <1>10
    <3> HIDE DEF q
    <3>2. Console!Plus(Console!Plus(r, d), q) = Console!Plus(r, d + q)
      BY <1>0, <1>10, <3>1, PlusPlus
    <3> QED BY <1>0, <1>2, <1>9, <3>1, <3>2 DEF q
  <2>4. /\ \A j \in 0..n - d - 1 : buf'[Place(r', j)] \in Console!Chars
        /\ \A j \in n - d..(n - d) + m - 1 : buf'[Place(r', j)] = "x"
    <3>1. \A j \in 0..(n - d) + m - 1 :
            /\ buf'[Place(r', j)] \in Console!Chars
            /\ d + j >= n => buf'[Place(r', j)] = "x"
      <4> SUFFICES ASSUME NEW j \in 0..(n - d) + m - 1
                   PROVE  /\ buf'[Place(r', j)] \in Console!Chars
                          /\ d + j >= n => buf'[Place(r', j)] = "x"
        OBVIOUS
      <4>1. d + j \in 0..n + m - 1
        BY <1>0, <1>10
      <4> QED BY <1>1, <1>2, <1>12, <4>1
    <3>2. \A j \in 0..n - d - 1 : j \in 0..(n - d) + m - 1
      BY <1>0, <1>10
    <3>3. \A j \in n - d..(n - d) + m - 1 : j \in 0..(n - d) + m - 1 /\ d + j >= n
      BY <1>0, <1>10
    <3> QED BY <3>1, <3>2, <3>3
  <2> DEFINE q == n - d
  <2> HIDE DEF q
  <2>5. q \in Nat /\ q + m <= INPUT_BUF
    BY <1>10 DEF q
  <2>6. /\ w' = Console!Plus(r', q) /\ e' = Console!Plus(r', q + m)
        /\ \A j \in 0..q - 1 : buf'[Place(r', j)] \in Console!Chars
        /\ \A j \in q..q + m - 1 : buf'[Place(r', j)] = "x"
    BY <2>2, <2>3, <2>4 DEF q
  <2>7. Ring' /\ Shows(buf', r', q, m, Queue', Line')
    BY <1>0, <2>1, <2>5, <2>6, RingBecomes DEF Queue, Line
  <2> QED BY <2>7 DEF q
<1>14. /\ Queue \in Seq(Console!Chars) /\ Len(Queue) = n
       /\ \A j \in 0..n - 1 : Queue[j + 1] = buf[Place(r, j)]
       /\ Line \in Seq({"x"}) /\ Len(Line) = m
       /\ Queue' \in Seq(Console!Chars) /\ Len(Queue') = n - d
       /\ \A j \in 0..n - d - 1 : Queue'[j + 1] = buf'[Place(r', j)]
       /\ Line' \in Seq({"x"}) /\ Len(Line') = m
  BY <1>0, <1>13 DEF Shows
<1>15. Line' = Line
  BY <1>14, SameLine
<1>16. Queue' = SubSeq(Queue, d + 1, Len(Queue))
  <2> DEFINE f == Queue
             u == Queue'
  <2>1. \A i \in 1..n - d : u[i] = f[d + i]
    <3> SUFFICES ASSUME NEW i \in 1..n - d PROVE u[i] = f[d + i]
      OBVIOUS
    <3> DEFINE j == i - 1
    <3>1. /\ j \in 0..n - d - 1 /\ j + 1 = i /\ d + j \in 0..n - 1
          /\ (d + j) + 1 = d + i /\ j \in 0..(n - d) + m - 1
      BY <1>0, <1>10
    <3> HIDE DEF j
    <3>2. u[i] = buf'[Place(r', j)]
      BY <1>14, <3>1
    <3>3. f[d + i] = buf[Place(r, d + j)]
      BY <1>14, <3>1
    <3> QED BY <1>2, <1>12, <3>1, <3>2, <3>3
  <2>2. /\ f \in Seq(Console!Chars) /\ u \in Seq(Console!Chars)
        /\ d \in 0..Len(f) /\ Len(u) = Len(f) - d
    BY <1>10, <1>14
  <2> HIDE DEF f, u
  <2>3. u = SubSeq(f, d + 1, Len(f))
    <3>1. \A i \in 1..Len(u) : u[i] = f[d + i]
      BY <1>14, <2>1 DEF f, u
    <3> QED BY <2>2, <3>1, CutOff
  <2> QED BY <2>3 DEF f, u
<1>17. CASE d = 0
  <2>1. Console!Plus(r, d) = r
    BY <1>0, <1>17, PlusZero
  <2> QED BY <1>2, <1>9, <1>13, <2>1
<1>18. CASE d # 0
  <2>1. d \in 1..INPUT_BUF /\ d <= Len(Queue)
    BY <1>10, <1>14, <1>18, Sizes
  <2>2. \A i \in 1..d - 1 : Queue[i] = "x"
    <3> SUFFICES ASSUME NEW i \in 1..d - 1 PROVE Queue[i] = "x"
      OBVIOUS
    <3>1. /\ i - 1 \in 0..k - 2 /\ i - 1 \in 0..n - 1 /\ (i - 1) + 1 = i
      BY <1>2, <1>7, <1>10, <1>11
    <3>2. Queue[(i - 1) + 1] = buf[Place(r, i - 1)]
      BY <1>14, <3>1
    <3> QED BY <1>8, <3>1, <3>2
  <2>3. Queue[d] = "eof" => d = 1
    <3> SUFFICES ASSUME Queue[d] = "eof" PROVE d = 1
      OBVIOUS
    <3>1. d - 1 \in 0..n - 1 /\ (d - 1) + 1 = d
      BY <1>10, <1>18
    <3>2. buf[Place(r, d - 1)] = "eof"
      BY <1>14, <3>1
    <3>3. d = k
      <4>1. d = k - 1 => d - 1 \in 0..k - 2
        BY <1>10, <1>18
      <4> QED BY <1>8, <1>11, <3>2, <4>1
    <3>4. c = "eof" /\ ~kept
      BY <1>2, <3>2, <3>3 DEF d
    <3>5. left[p] - (k - 1) >= asked[p]
      BY <1>2, <1>5, <3>4
    <3> QED BY <1>2, <1>5, <3>3, <3>5
  <2>4. Console!Lines!Read(d)
    BY <1>15, <1>16, <2>1, <2>2, <2>3 DEF Console!Lines!Read, Queue, Line
  <2> QED BY <1>13, <2>1, <2>4
<1> QED BY <1>17, <1>18

\* What leaves the ring alone leaves the queue alone.
LEMMA QueueStutter ==
  ASSUME UNCHANGED <<buf, r, w, e>>
  PROVE  UNCHANGED Console!Lines!lines /\ (Ring => Ring')
BY DEF Console!Lines!lines, Console!Stretch, Console!CharAt, Console!Plus,
       Console!Minus, Ring, Place, Finished, Typing

LEMMA QueueInit ==
  ASSUME Console!ConsoleAssumption, Console!Init
  PROVE  Ring /\ Console!Lines!Init
<1>1. r = 0 /\ w = 0 /\ e = 0 /\ 0 \in 0..WRAP - 1 /\ INPUT_BUF \in Nat
  BY Sizes DEF Console!Init
<1>2. Console!Minus(0, 0) = 0
  BY <1>1, MinusIs
<1>3. Ring
  BY <1>1, <1>2 DEF Ring, Finished, Typing
<1>4. Console!Stretch(r, w) = <<>> /\ Console!Stretch(w, e) = <<>>
  BY <1>1, <1>2 DEF Console!Stretch
<1> QED BY <1>3, <1>4 DEF Console!Lines!Init

LEMMA QueueStep ==
  ASSUME Console!ConsoleAssumption, LineInv, Ring, [Console!Next]_consvars
  PROVE  Ring' /\ [Console!Lines!Next]_(Console!Lines!lines)
<1>0. Console!TypeOK
  BY DEF LineInv
<1>1. CASE UNCHANGED <<buf, r, w, e>>
  BY <1>1, QueueStutter
<1>2. ASSUME NEW c \in Console!Chars, Console!Insert(c)
      PROVE  Ring' /\ [Console!Lines!Next]_(Console!Lines!lines)
  <2>1. Ring' /\ Console!Lines!Type(c)
    BY <1>0, <1>2, InsertIsType
  <2> QED BY <2>1 DEF Console!Lines!Next, Console!Lines!Chars, Console!Chars
<1>3. CASE Console!Backspace
  BY <1>0, <1>3, BackspaceIsErase DEF Console!Lines!Next
<1>4. CASE Console!KillLine
  BY <1>0, <1>4, KillIsKill DEF Console!Lines!Next
<1>5. ASSUME NEW p \in Readers, Console!Take(p)
      PROVE  Ring' /\ [Console!Lines!Next]_(Console!Lines!lines)
  <2>1. CASE UNCHANGED <<buf, r, w, e>>
    BY <2>1, QueueStutter
  <2>2. CASE Ring' /\ \E k \in 1..INPUT_BUF : Console!Lines!Read(k)
    BY <2>2 DEF Console!Lines!Next
  <2> QED BY <1>5, <2>1, <2>2, TakeIsRead
<1>6. \/ UNCHANGED <<buf, r, w, e>> \/ Console!Backspace \/ Console!KillLine
      \/ \E c \in Console!Chars : Console!Insert(c)
      \/ \E p \in Readers : Console!Take(p)
  BY DEF Console!Next, Console!Read, Console!Wait, Console!Kill, Console!Exit,
         Console!input, consvars
<1> QED BY <1>1, <1>2, <1>3, <1>4, <1>5, <1>6

----------------------------------------------------------------------------
(* The mutexes of threads *)

\* From the xchg that closes the lock to the assignment that opens it.
Closing == {"test", "set", "enqueue", "spin", "match", "in", "next", "open"}
Holding(t) == tpc[t] \in Closing \/ (Sync!InSignal(t) /\ back[t] = "in")

\* mutex_lock fills the queue from its front and leaves its last place empty,
\* so that mutex_unlock, which takes from it, stops there.
QueueEnds == qsize \in 0..QMAX /\ queue[QMAX] = NULL

\* Who is in cond_signal's twake has a thread to wake.
Waking == \A t \in Threads :
  tpc[t] \in {"wakefirst", "wakenext"} => target[t] \in Threads

BackTo == \A t \in Threads :
  /\ tpc[t] \in {"next", "open", "clear"} => back[t] \in {"out", "register"}
  /\ Sync!InSignal(t) => back[t] \in {"out", "in"}

Alone == \A t \in Threads : Holding(t) =>
  /\ lock = 1
  /\ \A u \in Threads : Holding(u) => u = t

\* While a thread has still to clear current, current is not NULL, so whoever
\* has closed the lock after it stays in front of its test or in its loop.
Clearing == \A t \in Threads : tpc[t] = "clear" =>
  /\ current # NULL
  /\ \A u \in Threads : Holding(u) => tpc[u] \in {"test", "enqueue", "spin"}
  /\ \A u \in Threads : tpc[u] = "clear" => u = t

Owner == \A t \in Threads :
  /\ tpc[t] = "in" \/ (Sync!InSignal(t) /\ back[t] = "in") => current = t \/ lost[t]
  /\ tpc[t] = "next" => current = t
  /\ tpc[t] = "open" => current # NULL

SyncInv == Sync!TypeOK /\ QueueEnds /\ Waking /\ BackTo /\ Alone /\ Clearing /\ Owner

LEMMA MutexInit == Sync!SyncAssumption /\ Sync!Init => SyncInv
<1> SUFFICES ASSUME Sync!SyncAssumption, Sync!Init PROVE SyncInv
  OBVIOUS
<1>1. Sync!TypeOK
  <2>1. /\ tpc \in [Threads -> Sync!Points]
        /\ back \in [Threads -> {"out", "in", "register"}]
        /\ target \in [Threads -> Threads \cup {NULL}]
    BY DEF Sync!Init, Sync!Points
  <2>2. /\ queue \in [Sync!Slots -> Threads \cup {NULL}]
        /\ wqueue \in [Sync!Slots -> Threads \cup {NULL}]
        /\ lost \in [Threads -> BOOLEAN] /\ broken \in BOOLEAN
    BY DEF Sync!Init
  <2>3. /\ lock \in {0, 1} /\ {current, waiter} \subseteq Threads \cup {NULL}
        /\ {qsize, qnext} \subseteq 0..QMAX /\ {wqsize, wqnext} \subseteq Nat
    BY DEF Sync!Init, Sync!SyncAssumption
  <2> QED BY <2>1, <2>2, <2>3 DEF Sync!TypeOK
<1>2. QueueEnds
  BY DEF Sync!Init, QueueEnds, Sync!Slots, Sync!SyncAssumption
<1>3. Waking /\ BackTo /\ Alone /\ Clearing /\ Owner
  BY DEF Sync!Init, Waking, BackTo, Alone, Clearing, Owner, Holding, Closing,
         Sync!InSignal
<1> QED BY <1>1, <1>2, <1>3 DEF SyncInv

\* Types, the ends of the queue and whom cond_signal wakes.
SyncTypes == Sync!TypeOK /\ QueueEnds /\ Waking

LEMMA SyncTypesKeep ==
  ASSUME Sync!SyncAssumption, SyncTypes, [Sync!Next]_syncvars
  PROVE  SyncTypes'
<1> USE DEF SyncTypes, Sync!TypeOK, QueueEnds, Waking, Sync!At, Sync!Goto,
            Sync!mutex, Sync!cond, Sync!Slots
<1>0. QMAX \in Nat /\ NULL \notin Threads
  BY DEF Sync!SyncAssumption
<1>1. CASE UNCHANGED syncvars
  BY <1>1 DEF syncvars
<1>3. ASSUME NEW t \in Threads,
             \/ Sync!LockEnter(t) \/ Sync!LockXchg(t) \/ Sync!LockTest(t)
             \/ Sync!LockSet(t) \/ Sync!LockSpin(t) \/ Sync!LockMatch(t)
      PROVE  SyncTypes'
  <2>1. CASE Sync!LockEnter(t)
    BY <2>1 DEF Sync!LockEnter, Sync!Points
  <2>2. CASE Sync!LockXchg(t)
    BY <2>2 DEF Sync!LockXchg, Sync!Points
  <2>2a. CASE Sync!LockTest(t)
    BY <2>2a DEF Sync!LockTest, Sync!Points
  <2>3. CASE Sync!LockSet(t)
    BY <2>3 DEF Sync!LockSet, Sync!Points
  <2>3a. CASE Sync!LockSpin(t)
    BY <2>3a DEF Sync!LockSpin, Sync!Points
  <2>4. CASE Sync!LockMatch(t)
    BY <2>4 DEF Sync!LockMatch, Sync!Points
  <2> QED BY <1>3, <2>1, <2>2, <2>2a, <2>3, <2>3a, <2>4
<1>4. ASSUME NEW t \in Threads, Sync!LockEnqueue(t) PROVE SyncTypes'
  BY <1>0, <1>4 DEF Sync!LockEnqueue, Sync!Points
<1>5. ASSUME NEW t \in Threads, Sync!UnlockEnter(t) \/ Sync!WaitEnter(t)
      PROVE  SyncTypes'
  <2>1. PICK point \in {"out", "register"} : Sync!Unlock(t, point)
    BY <1>5 DEF Sync!UnlockEnter, Sync!WaitEnter
  <2>2. UNCHANGED <<lock, current, queue, qsize, qnext, waiter, wqueue, wqsize,
                    wqnext, target, broken>>
    BY <1>5 DEF Sync!UnlockEnter, Sync!WaitEnter
  <2>3. CASE current = t
    BY <2>1, <2>2, <2>3 DEF Sync!Unlock, Sync!Points
  <2>4. CASE current # t
    BY <2>1, <2>2, <2>4 DEF Sync!Unlock, Sync!Points
  <2> QED BY <2>3, <2>4
<1>6. ASSUME NEW t \in Threads, Sync!UnlockNext(t) PROVE SyncTypes'
  BY <1>0, <1>6 DEF Sync!UnlockNext, Sync!Points
<1>7. ASSUME NEW t \in Threads, Sync!UnlockOpen(t) PROVE SyncTypes'
  BY <1>7 DEF Sync!UnlockOpen, Sync!Points
<1>8. ASSUME NEW t \in Threads, Sync!UnlockClear(t) PROVE SyncTypes'
  BY <1>8 DEF Sync!UnlockClear, Sync!Points
<1>9. ASSUME NEW t \in Threads,
             \/ Sync!WaitTest(t) \/ Sync!WaitFirst(t) \/ Sync!WaitGrow(t)
             \/ Sync!Tsleep(t) \/ Sync!Roused(t)
      PROVE  SyncTypes'
  <2>1. CASE Sync!WaitTest(t)
    BY <2>1 DEF Sync!WaitTest, Sync!Points
  <2>2. CASE Sync!WaitFirst(t)
    BY <2>2 DEF Sync!WaitFirst, Sync!Points
  <2>3. CASE Sync!WaitGrow(t)
    BY <2>3 DEF Sync!WaitGrow, Sync!Points
  <2>4. CASE Sync!Tsleep(t)
    BY <2>4 DEF Sync!Tsleep, Sync!Points
  <2>5. CASE Sync!Roused(t)
    BY <2>5 DEF Sync!Roused, Sync!Points
  <2> QED BY <1>9, <2>1, <2>2, <2>3, <2>4, <2>5
<1>10. ASSUME NEW t \in Threads, Sync!WaitAppend(t) PROVE SyncTypes'
  BY <1>0, <1>10 DEF Sync!WaitAppend, Sync!Points
<1>11. ASSUME NEW t \in Threads, Sync!SignalTest(t) PROVE SyncTypes'
  <2>1. PICK s \in Threads : /\ target' = [target EXCEPT ![t] = s]
                             /\ back' = [back EXCEPT ![t] = tpc[t]]
                             /\ tpc' \in {[tpc EXCEPT ![t] = "wakefirst"],
                                          [tpc EXCEPT ![t] = "wakenext"]}
    BY <1>11 DEF Sync!SignalTest
  <2> QED BY <1>11, <2>1 DEF Sync!SignalTest, Sync!Points
<1>12. ASSUME NEW t \in Threads, Sync!Twake(t) PROVE SyncTypes'
  BY <1>12 DEF Sync!Twake, Sync!Points
<1>12a. ASSUME NEW t \in Threads, Sync!TwakeCall(t) PROVE SyncTypes'
  BY <1>12a DEF Sync!TwakeCall, Sync!Points
<1>13. ASSUME NEW t \in Threads, Sync!SignalUnset(t) PROVE SyncTypes'
  BY <1>0, <1>13 DEF Sync!SignalUnset, Sync!Points
<1> QED
  BY <1>1, <1>3, <1>4, <1>5, <1>6, <1>7, <1>8, <1>9, <1>10, <1>11, <1>12,
     <1>12a, <1>13 DEF Sync!Next

LEMMA MutexKeeps ==
  ASSUME Sync!SyncAssumption, SyncInv, [Sync!Next]_syncvars
  PROVE  SyncInv'
<1> USE DEF BackTo, Alone, Clearing, Owner, Holding, Closing, Sync!InSignal,
            Sync!At, Sync!Goto, Sync!mutex, Sync!cond
<1> DEFINE Inv == BackTo /\ Alone /\ Clearing /\ Owner
<1>t. /\ tpc \in [Threads -> Sync!Points]
      /\ back \in [Threads -> {"out", "in", "register"}]
      /\ lost \in [Threads -> BOOLEAN]
      /\ Inv
  BY DEF SyncInv, Sync!TypeOK
<1>1. ASSUME UNCHANGED syncvars PROVE Inv'
  BY <1>1, <1>t DEF syncvars
<1>2. ASSUME NEW t \in Threads,
             \/ Sync!LockEnter(t) \/ Sync!LockTest(t) \/ Sync!LockEnqueue(t)
             \/ Sync!LockSpin(t)
      PROVE  Inv'
  BY <1>t, <1>2 DEF Sync!LockEnter, Sync!LockTest, Sync!LockEnqueue, Sync!LockSpin
<1>3. ASSUME NEW t \in Threads, Sync!LockXchg(t) PROVE Inv'
  BY <1>t, <1>3 DEF Sync!LockXchg, Sync!Open
<1>4. ASSUME NEW t \in Threads, Sync!LockSet(t) PROVE Inv'
  BY <1>t, <1>4 DEF Sync!LockSet
<1>5. ASSUME NEW t \in Threads, Sync!LockMatch(t) PROVE Inv'
  BY <1>t, <1>5 DEF Sync!LockMatch
<1>6. ASSUME NEW t \in Threads, Sync!UnlockEnter(t) \/ Sync!WaitEnter(t) PROVE Inv'
  <2>1. CASE Sync!UnlockEnter(t) /\ current = t
    BY <1>t, <2>1 DEF Sync!UnlockEnter, Sync!Unlock
  <2>2. CASE Sync!UnlockEnter(t) /\ current # t
    <3>1. tpc' = [tpc EXCEPT ![t] = "out"] /\ UNCHANGED <<lock, current, back>>
      BY <2>2 DEF Sync!UnlockEnter, Sync!Unlock
    <3>2. lost' = [lost EXCEPT ![t] = FALSE] /\ tpc[t] = "in"
      BY <2>2 DEF Sync!UnlockEnter, Sync!Unlock
    <3> QED
      BY <1>t, <3>1, <3>2
  <2>3. CASE Sync!WaitEnter(t) /\ current = t
    BY <1>t, <2>3 DEF Sync!WaitEnter, Sync!Unlock
  <2>4. CASE Sync!WaitEnter(t) /\ current # t
    BY <1>t, <2>4 DEF Sync!WaitEnter, Sync!Unlock
  <2> QED
    BY <1>6, <2>1, <2>2, <2>3, <2>4
<1>7. ASSUME NEW t \in Threads, Sync!UnlockNext(t) PROVE Inv'
  BY <1>t, <1>7 DEF Sync!UnlockNext, Sync!SyncAssumption
<1>8. ASSUME NEW t \in Threads, Sync!UnlockOpen(t) PROVE Inv'
  BY <1>t, <1>8 DEF Sync!UnlockOpen
<1>9. ASSUME NEW t \in Threads, Sync!UnlockClear(t) PROVE Inv'
  BY <1>t, <1>9 DEF Sync!UnlockClear
<1>10. ASSUME NEW t \in Threads,
              \/ Sync!WaitTest(t) \/ Sync!WaitFirst(t) \/ Sync!WaitAppend(t)
              \/ Sync!WaitGrow(t) \/ Sync!Tsleep(t) \/ Sync!Roused(t)
       PROVE  Inv'
  BY <1>t, <1>10 DEF Sync!WaitTest, Sync!WaitFirst, Sync!WaitAppend, Sync!WaitGrow,
                     Sync!Tsleep, Sync!Roused
<1>11. ASSUME NEW t \in Threads, Sync!SignalTest(t) PROVE Inv'
  BY <1>t, <1>11 DEF Sync!SignalTest
<1>12. ASSUME NEW t \in Threads, Sync!Twake(t) PROVE Inv'
  BY <1>t, <1>12 DEF Sync!Twake
<1>12a. ASSUME NEW t \in Threads, Sync!TwakeCall(t) PROVE Inv'
  BY <1>t, <1>12a DEF Sync!TwakeCall
<1>13. ASSUME NEW t \in Threads, Sync!SignalUnset(t) PROVE Inv'
  BY <1>t, <1>13 DEF Sync!SignalUnset
<1>14. Inv'
  BY <1>1, <1>2, <1>3, <1>4, <1>5, <1>6, <1>7, <1>8, <1>9, <1>10, <1>11, <1>12,
     <1>12a, <1>13 DEF Sync!Next
<1>15. SyncTypes'
  BY SyncTypesKeep DEF SyncInv, SyncTypes
<1> HIDE DEF BackTo, Alone, Clearing, Owner
<1> QED BY <1>14, <1>15 DEF SyncInv, SyncTypes

\* What the steps of mutexes and conditions keep, by themselves.
THEOREM SyncInvariant == Sync!Spec => []SyncInv
<1>1. Sync!Init => SyncInv
  BY MutexInit, PartsAssumption
<1>2. SyncInv /\ [Sync!Next]_(Sync!syncvars) => SyncInv'
  BY MutexKeeps, PartsAssumption DEF syncvars, Sync!syncvars, Sync!mutex, Sync!cond
<1> QED BY <1>1, <1>2, PTL DEF Sync!Spec

----------------------------------------------------------------------------
(* All parts *)

PartsInv == Core /\ LineInv /\ Ring /\ SyncInv

LEMMA PartsStart == PartsInit => PartsInv
BY PartsAssumption, NiceInit, LineInit, QueueInit, MutexInit DEF PartsInit, PartsInv

LEMMA PartsKeep == PartsInv /\ [PartsNext]_allvars => PartsInv'
<1> SUFFICES ASSUME PartsInv, [PartsNext]_allvars PROVE PartsInv'
  OBVIOUS
<1>1. [Next]_vars /\ [Console!Next]_consvars /\ [Sync!Next]_syncvars
  BY DEF PartsNext, allvars, NiceStep, SleepStep, ConsoleStep, SyncStep
<1> QED BY <1>1, PartsAssumption, NiceKeeps, LineKeeps, QueueStep, MutexKeeps
        DEF PartsInv

\* The inductive invariants of the three parts.
THEOREM PartsInvariant == PartsSpec => []PartsInv
BY PartsStart, PartsKeep, PTL DEF PartsSpec

\* A process is RUNNING on exactly one CPU, for any number of CPUs and slots,
\* although each loop restarts its search at the slot it chose last
\* (scheduler's p = prior_proc).
THEOREM EachOnOneCpu == PartsSpec => []OneCpuEach
<1>1. PartsInv => OneCpuEach
  BY DEF PartsInv, Core
<1> QED BY PartsInvariant, <1>1, PTL

\* No reader of the console sleeps while a finished line waits, or when it has
\* been killed, and the counters stay in range when they wrap.
THEOREM ReadersWake == PartsSpec => []ReaderAwake
<1>1. PartsInv => ReaderAwake
  BY DEF PartsInv, LineInv, ReaderAwake
<1> QED BY PartsInvariant, <1>1, PTL

\* The ring is a queue of lines for any size of the ring, any width of the
\* counters that is a multiple of it and any number of readers: no character is
\* lost, overwritten, read twice or before its line is finished, and ^D is read
\* by itself (consoleintr and consoleread).
THEOREM LinesAreQueued == PartsSpec => ImplementsLineQueue
<1>1. PartsInit => Console!Lines!Init
  BY PartsAssumption, QueueInit DEF PartsInit
<1>2. PartsInv /\ [PartsNext]_allvars => [Console!Lines!Next]_(Console!Lines!lines)
  <2> SUFFICES ASSUME PartsInv, [PartsNext]_allvars
               PROVE  [Console!Lines!Next]_(Console!Lines!lines)
    OBVIOUS
  <2>1. [Console!Next]_consvars
    BY DEF PartsNext, allvars, NiceStep, SleepStep, ConsoleStep, SyncStep
  <2> QED BY <2>1, PartsAssumption, QueueStep DEF PartsInv
<1> QED
  BY <1>1, <1>2, PartsInvariant, PTL
     DEF PartsSpec, ImplementsLineQueue, Console!ImplementsLineQueue, Console!Lines!Spec

\* One thread at a time is between the return of mutex_lock and the opening of
\* the lock in mutex_unlock; it finds itself current, unless a NULL current let
\* it in.
THEOREM Ownership == PartsSpec => []MutexOwned
<1>1. SyncInv => Sync!MutexOwned
  BY DEF SyncInv, Sync!TypeOK, BackTo, Alone, Clearing, Owner, Sync!MutexOwned,
         Sync!Inside, Sync!InSignal, Holding, Closing
<1>2. PartsInv => MutexOwned
  BY <1>1 DEF PartsInv, SyncInv, MutexOwned
<1> QED BY PartsInvariant, <1>2, PTL
=============================================================================
