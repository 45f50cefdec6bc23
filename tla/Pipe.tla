-------------------------------- MODULE Pipe --------------------------------
(***************************************************************************)
(* One pipe (pipe.c) between readers and writers that share its two ends.  *)
(* A process holds p->lock from acquire to release; sleep(chan, &p->lock)  *)
(* is two steps here, the decision to sleep and the moment the process is  *)
(* SLEEPING with the lock released: SleepLock proves that nothing done     *)
(* under the lock falls between, but kill does not take that lock.         *)
(* Readers sleep on &p->nread, writers on &p->nwrite.                      *)
(***************************************************************************)
EXTENDS Integers, Sequences, FiniteSets

CONSTANTS Readers, Writers,  \* processes with the read end, the write end
          PIPESIZE,          \* 512
          WRAP,              \* 2^32: the counters are uints
          MaxCount,          \* largest n of a read or write
          Nobody             \* p->lock is free

ASSUME PipeAssumption ==
  /\ PIPESIZE \in Nat \ {0} /\ WRAP \in Nat
  /\ WRAP > PIPESIZE /\ WRAP % PIPESIZE = 0
  /\ MaxCount \in Nat
  /\ Readers # {} /\ Writers # {} /\ Readers \cap Writers = {}
  /\ Nobody \notin Readers \cup Writers

Procs == Readers \cup Writers
Counter == 0..WRAP - 1
Bytes == Writers \X (0..MaxCount - 1)   \* byte i of some write by w

VARIABLES
  data, nread, nwrite, readopen, writeopen,   \* struct pipe
  lock,       \* p->lock: its holder, or Nobody
  pc,         \* user, loop, copy (of piperead), sleep, wait (in sleep)
  asleep,     \* p->state = SLEEPING
  killed,     \* p->killed
  isopen,     \* the process still has its end of the pipe open
  n, i,       \* argument and loop counter of its current call
  got         \* what piperead has stored at addr

pipeVars == <<data, nread, nwrite, readopen, writeopen>>
callVars == <<n, i, got>>
vars == <<pipeVars, lock, pc, asleep, killed, isopen, callVars>>

Init ==
  /\ \E b \in Bytes : data = [k \in 0..PIPESIZE - 1 |-> b]   \* junk
  /\ nread = 0 /\ nwrite = 0
  /\ readopen = TRUE /\ writeopen = TRUE
  /\ lock = Nobody
  /\ pc = [p \in Procs |-> "user"]
  /\ asleep = [p \in Procs |-> FALSE]
  /\ killed = [p \in Procs |-> FALSE]
  /\ isopen = [p \in Procs |-> TRUE]
  /\ n = [p \in Procs |-> 0] /\ i = [p \in Procs |-> 0]
  /\ got = [r \in Readers |-> <<>>]

Empty == nread = nwrite
Full  == nwrite = (nread + PIPESIZE) % WRAP

\* p->nread++ and p->nwrite++.
Succ(k) == (k + 1) % WRAP

\* The slot piperead reads; mutant: ++p->nread instead of p->nread++.
ReadSlotNext == (nread + 1) % PIPESIZE
ReadSlot == nread % PIPESIZE

\* Whom the end of piperead wakes up; mutant: nobody.
ReadWakesNobody == {}
ReadWakes == Writers

At(p, point) == pc[p] = point /\ lock = p
Goto(p, point) == pc' = [pc EXCEPT ![p] = point]
Wakeup(chan) == asleep' = [p \in Procs |-> asleep[p] /\ p \notin chan]
Return(p) ==      \* the frame of the call is gone
  /\ Goto(p, "user") /\ lock' = Nobody
  /\ n' = [n EXCEPT ![p] = 0] /\ i' = [i EXCEPT ![p] = 0]

\* pipewrite or piperead of count bytes, up to the acquired lock.
Enter(p, count) ==
  /\ pc[p] = "user" /\ isopen[p] /\ ~killed[p]
  /\ lock = Nobody /\ lock' = p
  /\ Goto(p, "loop")
  /\ n' = [n EXCEPT ![p] = count] /\ i' = [i EXCEPT ![p] = 0]
  /\ got' = IF p \in Readers THEN [got EXCEPT ![p] = <<>>] ELSE got
  /\ UNCHANGED <<pipeVars, asleep, killed, isopen>>

\* The second half of sleep: SLEEPING and the lock released, at once ...
Sleep(p) ==
  /\ At(p, "sleep")
  /\ asleep' = [asleep EXCEPT ![p] = TRUE]
  /\ lock' = Nobody
  /\ Goto(p, "wait")
  /\ UNCHANGED <<pipeVars, killed, isopen, callVars>>

\* ... and its end, when woken up: the lock is taken again.
Resume(p) ==
  /\ pc[p] = "wait" /\ ~asleep[p]
  /\ lock = Nobody /\ lock' = p
  /\ Goto(p, "loop")
  /\ UNCHANGED <<pipeVars, asleep, killed, isopen, callVars>>

----------------------------------------------------------------------------
(* pipewrite *)

WriteByte(w) ==
  /\ At(w, "loop") /\ i[w] < n[w] /\ ~Full
  /\ data' = [data EXCEPT ![nwrite % PIPESIZE] = <<w, i[w]>>]
  /\ nwrite' = Succ(nwrite)
  /\ i' = [i EXCEPT ![w] = @ + 1]
  /\ UNCHANGED <<nread, readopen, writeopen, lock, pc, asleep, killed, isopen,
                 n, got>>

WriteFull(w) ==
  /\ At(w, "loop") /\ i[w] < n[w] /\ Full
  /\ IF ~readopen \/ killed[w]
     THEN Return(w) /\ UNCHANGED asleep                       \* return -1
     ELSE Wakeup(Readers) /\ Goto(w, "sleep") /\ UNCHANGED <<lock, n, i>>
  /\ UNCHANGED <<pipeVars, killed, isopen, got>>

WriteDone(w) ==
  /\ At(w, "loop") /\ i[w] = n[w]
  /\ Wakeup(Readers)
  /\ Return(w)
  /\ UNCHANGED <<pipeVars, killed, isopen, got>>

----------------------------------------------------------------------------
(* piperead *)

ReadEmpty(r) ==
  /\ At(r, "loop") /\ Empty /\ writeopen
  /\ IF killed[r] THEN Return(r)                              \* return -1
                  ELSE Goto(r, "sleep") /\ UNCHANGED <<lock, n, i>>
  /\ UNCHANGED <<pipeVars, asleep, killed, isopen, got>>

ReadReady(r) ==
  /\ At(r, "loop") /\ (~Empty \/ ~writeopen)
  /\ Goto(r, "copy")
  /\ UNCHANGED <<pipeVars, lock, asleep, killed, isopen, callVars>>

ReadByte(r) ==
  /\ At(r, "copy") /\ i[r] < n[r] /\ ~Empty
  /\ got' = [got EXCEPT ![r] = Append(@, data[ReadSlot])]
  /\ nread' = Succ(nread)
  /\ i' = [i EXCEPT ![r] = @ + 1]
  /\ UNCHANGED <<data, nwrite, readopen, writeopen, lock, pc, asleep, killed,
                 isopen, n>>

ReadDone(r) ==
  /\ At(r, "copy") /\ (i[r] = n[r] \/ Empty)
  /\ Wakeup(ReadWakes)
  /\ Return(r)
  /\ UNCHANGED <<pipeVars, killed, isopen, got>>

----------------------------------------------------------------------------
(* fileclose on one end; the last process to close it calls pipeclose *)

\* f->ref drops to 0; mutant: references are not counted.
LastOpenAlways(p, side) == TRUE
LastOpen(p, side) == \A q \in side \ {p} : ~isopen[q]

Close(p, side, other) ==
  /\ pc[p] = "user" /\ isopen[p]
  /\ isopen' = [isopen EXCEPT ![p] = FALSE]
  /\ IF LastOpen(p, side)
     THEN /\ lock = Nobody
          /\ readopen' = (readopen /\ side # Readers)
          /\ writeopen' = (writeopen /\ side # Writers)
          /\ Wakeup(other)
     ELSE UNCHANGED <<readopen, writeopen, asleep>>
  /\ UNCHANGED <<data, nread, nwrite, lock, pc, killed, callVars>>

\* Mutant: pipeclose wakes the side that closes.
CloseEndWrongSide(p) == IF p \in Readers THEN Close(p, Readers, Readers)
                                         ELSE Close(p, Writers, Writers)
CloseEnd(p) == IF p \in Readers THEN Close(p, Readers, Writers)
                                ELSE Close(p, Writers, Readers)

\* kill: under ptable.lock only.
Kill(p) ==
  /\ ~killed[p]
  /\ killed' = [killed EXCEPT ![p] = TRUE]
  /\ asleep' = [asleep EXCEPT ![p] = FALSE]
  /\ UNCHANGED <<pipeVars, lock, pc, isopen, callVars>>

----------------------------------------------------------------------------
Writing(w) == WriteByte(w) \/ WriteFull(w) \/ WriteDone(w)
Reading(r) == ReadEmpty(r) \/ ReadReady(r) \/ ReadByte(r) \/ ReadDone(r)

\* The steps of a call in progress.
Step(p) == \/ Sleep(p)
           \/ Resume(p)
           \/ p \in Writers /\ Writing(p)
           \/ p \in Readers /\ Reading(p)

Next ==
  \E p \in Procs : \/ Step(p)
                   \/ \E count \in 0..MaxCount : Enter(p, count)
                   \/ CloseEnd(p)
                   \/ Kill(p)

Spec == Init /\ [][Next]_vars

\* A process in a call is scheduled (SleepLock), gets the lock in the end,
\* and one that was killed closes its files when it exits.
FairSpec ==
  /\ Spec
  /\ \A p \in Procs : /\ WF_vars(Step(p)) /\ SF_vars(Resume(p))
                      /\ SF_vars(killed[p] /\ CloseEnd(p))

----------------------------------------------------------------------------
TypeOK ==
  /\ data \in [0..PIPESIZE - 1 -> Bytes]
  /\ nread \in Counter /\ nwrite \in Counter
  /\ readopen \in BOOLEAN /\ writeopen \in BOOLEAN
  /\ lock \in Procs \cup {Nobody}
  /\ pc \in [Procs -> {"user", "loop", "copy", "sleep", "wait"}]
  /\ asleep \in [Procs -> BOOLEAN]
  /\ killed \in [Procs -> BOOLEAN]
  /\ isopen \in [Procs -> BOOLEAN]
  /\ n \in [Procs -> 0..MaxCount] /\ i \in [Procs -> 0..MaxCount]
  /\ got \in [Readers -> Seq(Bytes)]

\* Bytes in the pipe, by the free-running counters.
Count == (nwrite - nread) % WRAP

(***************************************************************************)
(* The counters never run apart by more than the buffer, also when nwrite  *)
(* has wrapped to 0 and nread has not (pipe.c:85-93, 113-117).             *)
(***************************************************************************)
PipeBounded == Count <= PIPESIZE

(***************************************************************************)
(* Nobody sleeps on a condition that has come true (pipe.c:62-73, 85-95,   *)
(* 106-118): a sleeping writer faces a full pipe that can still be read,   *)
(* or a reader that is at it and will wake it; a sleeping reader an empty  *)
(* one that can still be written, or a writer at it.  A writer that        *)
(* finds itself killed returns without that wakeup (pipe.c:86-89).         *)
(***************************************************************************)
PipeNoLostWakeup ==
  /\ \A w \in Writers : asleep[w] => readopen /\ (Full \/ lock \in Readers)
  /\ \A r \in Readers : asleep[r] =>
       /\ writeopen
       /\ Empty \/ lock \in Writers \/ \E w \in Writers : killed[w]

(***************************************************************************)
(* No process is inside a pipe operation once pipeclose has freed the pipe *)
(* (pipe.c:70-72), and an end counts as open as long as somebody has it.   *)
(***************************************************************************)
NotFreedInUse ==
  /\ ~readopen /\ ~writeopen => \A p \in Procs : pc[p] = "user"
  /\ readopen <=> \E r \in Readers : isopen[r]
  /\ writeopen <=> \E w \in Writers : isopen[w]

\* The bytes in transit, in the order in which they will be read.
InPipe == [k \in 1..Count |-> data[((nread + k - 1) % WRAP) % PIPESIZE]]

C == INSTANCE ByteChannel WITH Receivers <- Readers, Byte <- Bytes,
       Capacity <- PIPESIZE, q <- InPipe, got <- got

(***************************************************************************)
(* The ring buffer and its two counters are a first-in first-out queue: no *)
(* byte is lost, duplicated, reordered or overwritten, with several        *)
(* readers and writers asleep in the middle of their loops (pipe.c).       *)
(***************************************************************************)
ImplementsChannel == C!Spec

(***************************************************************************)
(* A call does not outlive the other end: once no writer is left every     *)
(* piperead returns, and once no reader is left every pipewrite does       *)
(* (pipe.c:62-69, 86, 106).                                                *)
(***************************************************************************)
PipeClosedUnblocks ==
  /\ \A r \in Readers : ~writeopen /\ pc[r] # "user" ~> pc[r] = "user"
  /\ \A w \in Writers : ~readopen /\ pc[w] # "user" ~> pc[w] = "user"
=============================================================================
