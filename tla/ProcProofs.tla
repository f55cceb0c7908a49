----------------------------- MODULE ProcProofs -----------------------------
(***************************************************************************)
(* Proofs about the kernel, part 1, for any number of processes,           *)
(* processors, buffers, blocks and pages: the process table is consistent  *)
(* and every component keeps its types (Types).  A frame lemma per         *)
(* component says what its steps leave alone: which processes move (Moves) *)
(* and on which channels they go to sleep (Sleeps).  Lemma Frames puts     *)
(* them together; the invariants of the single components in KernelProofs  *)
(* rest on it.                                                             *)
(***************************************************************************)
EXTENDS Kernel, FiniteSetTheorems, WellFoundedInduction, TLAPS

-----------------------------------------------------------------------------
(* Where a process can be, and what it can sleep for                       *)

\* A process that runs, may run or sleeps: it is somewhere in the kernel's or the program's code.
Alive == {"SLEEPING", "RUNNABLE", "RUNNING"}

\* The labels of pc, by component: where a process stands between two steps.
Common == {"none", "user", "wait", "exit"}
Forking == {"fork_kstack", "fork_setupkvm", "copyuvm"}
InMemory == Forking \cup {"allocuvm", "exec"}
InPipe == {"pipewrite", "pipewrite_sleep", "piperead", "piperead_sleep", "pipeclose"}
InConsole == {"consoleread", "consoleread_sleep"}
InClock == {"sys_sleep", "sys_sleep_sleep"}
InDisk == {"acquiresleep", "iderw", "held", "brelse"}
Label == Common \cup InMemory \cup InPipe \cup InConsole \cup InClock \cup InDisk

\* What the channel of a sleeping process is the address of, and the locals a step keeps.
Kind == {"wait", "nread", "nwrite", "input", "ticks", "buf", "lock"}
Locals == [np : 0..NPROC, i : Nat, n : Nat]

-----------------------------------------------------------------------------
(* The process table                                                       *)

\* The types of struct proc's fields.  nextpid goes past MaxPid only by the fork()s in progress.
TableType ==
    /\ state \in [Slot -> ProcState]
    /\ pid \in [Slot -> Nat] /\ nextpid \in 0..(MaxPid + NPROC + 1)
    /\ parent \in [Slot -> 0..NPROC]
    /\ killed \in [Slot -> BOOLEAN]
    /\ chan \in [Slot -> (Kind \cup {"none"}) \X Nat]
    /\ ofile \in [Slot -> SUBSET {"r", "w"}]
    /\ pc \in [Slot -> Label]
    /\ loc \in [Slot -> Locals]

\* A process that does not run yet, or any more, is nowhere in the code.
PcInv == \A p \in Slot : pc[p] = "none" <=> state[p] \notin Alive

\* The child of a fork() in progress is nobody else's.
ForkInv ==
    \A p \in Slot : pc[p] \in Forking =>
        /\ loc[p].np \in Slot /\ state[loc[p].np] = "EMBRYO"
        /\ \A q \in Slot \ {p} : pc[q] \in Forking => loc[q].np # loc[p].np

\* No two processes have the same pid, and the next one is larger than all of them.
PidInv ==
    /\ \A p \in Slot : pid[p] < nextpid
    /\ \A p, q \in Slot : p # q /\ state[p] # "UNUSED" /\ state[q] # "UNUSED" => pid[p] # pid[q]

\* Init lives for ever, and whoever has a parent has another one, that can wait for it.
ParentInv ==
    /\ state[initproc] \in Alive /\ parent[initproc] = 0
    /\ \A p \in Slot : state[p] \in {"UNUSED", "EMBRYO"} => parent[p] = 0
    /\ \A p \in Slot \ {initproc} : Live(p) => parent[p] \in Slot /\ state[parent[p]] \in Alive
    /\ \A p \in Slot : parent[p] # p

\* Nobody sleeps for nothing, and nobody waits for children that are not there or that
\* have exited already.
WaitInv ==
    \A p \in Slot : state[p] = "SLEEPING" =>
        /\ chan[p][1] \in Kind
        /\ chan[p][1] = "wait" => /\ chan[p][2] = p
                                  /\ \E q \in Slot : parent[q] = p
                                  /\ \A q \in Slot : parent[q] = p => state[q] # "ZOMBIE"

\* The inductive invariant of the process table.
TableInv == TableType /\ PcInv /\ ForkInv /\ PidInv /\ ParentInv /\ WaitInv

-----------------------------------------------------------------------------
(* Types of the components                                                 *)

\* Types of the address spaces; growproc() tested the new size before allocuvm() began.
MemType ==
    /\ kstack \subseteq Slot
    /\ vm \in [Slot -> Space] /\ spare \in [Slot -> Space]
    /\ sz \in [Slot -> 0..KERNBASE]
    /\ \A p \in Slot : pc[p] = "allocuvm" => loc[p].n < KERNBASE

\* Types of the pipe: the ring never holds more than PIPESIZE bytes, and no write loop runs past its count.
PipeRec == [used : BOOLEAN, readopen : BOOLEAN, writeopen : BOOLEAN,
            nread : 0..(UINT - 1), nwrite : 0..(UINT - 1), data : [0..(PIPESIZE - 1) -> Nat]]

PipeType ==
    /\ pipe \in PipeRec
    /\ sent \in 0..(2 * PIPESIZE - 1) /\ cut \in BOOLEAN
    /\ Count <= PIPESIZE
    /\ \A p \in Slot : pc[p] \in {"pipewrite", "pipewrite_sleep"} => loc[p].i <= loc[p].n

\* Types of the console's input buffer; a consoleread() in progress still wants bytes.
ConsType ==
    /\ input \in [buf : [0..(INPUT_BUF - 1) -> Key], r : 0..(UINT - 1), w : 0..(UINT - 1), e : 0..(UINT - 1)]
    /\ \A p \in Slot : pc[p] \in InConsole => loc[p].n > 0

\* Type of the tick counter, an unsigned int.
ClockType == ticks \in 0..(UINT - 1)

\* Types of the buffer cache: the LRU list has every buffer, and a process in bio.c or ide.c has one of them.
BufRec == [blockno : Block \cup {0}, refcnt : Int, valid : BOOLEAN, dirty : BOOLEAN,
           data : Value, owner : 0..NPROC]

DiskType ==
    /\ buf \in [Buffer -> BufRec]
    /\ lru \in [Buffer -> Buffer] /\ \A b \in Buffer : \E i \in Buffer : lru[i] = b
    /\ idequeue \in Seq(Buffer)
    /\ disk \in [Block -> Value] /\ stored \in [Block -> Value]
    /\ \A p \in Slot : pc[p] \in InDisk => loc[p].i \in Buffer

\* A buffer that is in use is the buffer of a block.
DiskNamed ==
    /\ \A p \in Slot : pc[p] \in InDisk => buf[loc[p].i].blockno \in Block
    /\ \A i \in 1..Len(idequeue) : buf[idequeue[i]].blockno \in Block

-----------------------------------------------------------------------------
(* Minima, maxima and remainders                                           *)

\* Min finds an element.
LEMMA MinIs ==
  ASSUME NEW S \in SUBSET Nat, S # {}
  PROVE  Min(S) \in S /\ \A y \in S : Min(S) <= y
<1> DEFINE R == StrictSubsetOrdering(Nat)
           F == FiniteSubsetsOf(Nat)
           T == {1..x : x \in S}
<1>1. IsWellFoundedOn(R, F)
  BY FS_StrictSubsetOrderingWellFounded
<1>2. T \subseteq F /\ T # {}
  <2>1. \A x \in Nat : IsFiniteSet(1..x) /\ 1..x \in SUBSET Nat
    BY FS_Interval
  <2> QED
    BY <2>1 DEF FiniteSubsetsOf
<1>3. PICK t \in T : \A u \in T : ~ (<<u, t>> \in R)
  <2> HIDE DEF R, F, T
  <2> QED
    BY <1>1, <1>2, WFMin
<1>4. PICK x \in S : t = 1..x
  OBVIOUS
<1>5. ASSUME NEW y \in S, y < x
      PROVE  FALSE
  <2>1. 1..y \in SUBSET (1..x) /\ x \in 1..x /\ x \notin 1..y
    BY <1>5
  <2>2. 1..y \in F /\ 1..x \in F
    BY <1>2
  <2>3. <<1..y, 1..x>> \in R
    BY <2>1, <2>2 DEF StrictSubsetOrdering, FiniteSubsetsOf
  <2> QED
    BY <1>3, <1>4, <2>3
<1>6. \A y \in S : x <= y
  BY <1>5
<1> QED
  BY <1>6 DEF Min

\* And so does Max, in a set that is bounded.
LEMMA MaxIs ==
  ASSUME NEW n \in Nat, NEW S \in SUBSET (0..n), S # {}
  PROVE  Max(S) \in S /\ \A y \in S : y <= Max(S)
<1> DEFINE T == {n - x : x \in S}
<1>1. T \in SUBSET Nat /\ T # {}
  <2>1. \A x \in S : n - x \in Nat
    OBVIOUS
  <2>2. PICK x \in S : TRUE
    OBVIOUS
  <2>3. n - x \in T
    BY <2>2
  <2> QED
    BY <2>1, <2>3
<1>2. Min(T) \in T /\ \A y \in T : Min(T) <= y
  <2> HIDE DEF T
  <2> QED
    BY <1>1, MinIs
<1>3. PICK x \in S : Min(T) = n - x
  BY <1>2
<1>4. \A y \in S : y <= x
  <2> TAKE y \in S
  <2>1. n - y \in T
    OBVIOUS
  <2>2. n - x <= n - y
    BY <2>1, <1>2, <1>3
  <2> QED
    BY <2>2
<1> QED
  BY <1>3, <1>4 DEF Max

\* Division with remainder, as the provers know it.
LEMMA ModDiv ==
  ASSUME NEW a \in Int, NEW n \in Nat \ {0}
  PROVE  /\ a \div n \in Int /\ a % n \in 0..(n - 1)
         /\ a = n * (a \div n) + (a % n)
  OBVIOUS

\* The remainder is determined by the equation it satisfies.
LEMMA ModUnique ==
  ASSUME NEW n \in Nat \ {0}, NEW q \in Int, NEW r \in 0..(n - 1)
  PROVE  (n * q + r) % n = r
<1> DEFINE a == n * q + r
<1>1. /\ a \in Int /\ a = n * (a \div n) + (a % n)
      /\ a \div n \in Int /\ a % n \in 0..(n - 1)
  BY ModDiv
<1>2. n * (q - (a \div n)) = (a % n) - r
  BY <1>1
<1>3. q = a \div n
  <2>1. CASE q - (a \div n) >= 1
    <3>1. n * (q - (a \div n)) >= n
      BY <2>1, <1>1
    <3> QED
      BY <3>1, <1>2, <1>1
  <2>2. CASE q - (a \div n) <= -1
    <3>1. n * (q - (a \div n)) <= -n
      BY <2>2, <1>1
    <3> QED
      BY <3>1, <1>2, <1>1
  <2> QED
    BY <2>1, <2>2, <1>1
<1> QED
  BY <1>3, <1>1, <1>2

\* Adding a multiple of the divisor changes nothing.
LEMMA ModShift ==
  ASSUME NEW a \in Int, NEW n \in Nat \ {0}, NEW k \in Int
  PROVE  (a + n * k) % n = a % n
<1>1. /\ a \div n \in Int /\ a % n \in 0..(n - 1)
      /\ a = n * (a \div n) + (a % n)
  BY ModDiv
<1>2. a + n * k = n * ((a \div n) + k) + (a % n)
  BY <1>1
<1>3. (n * ((a \div n) + k) + (a % n)) % n = a % n
  <2> DEFINE q == (a \div n) + k
             r == a % n
  <2>1. q \in Int /\ r \in 0..(n - 1)
    BY <1>1
  <2> HIDE DEF q, r
  <2>2. (n * q + r) % n = r
    BY <2>1, ModUnique
  <2> QED
    BY <2>2 DEF q, r
<1> QED
  BY <1>2, <1>3

\* Around the range of a uint the remainder is one addition or subtraction.
LEMMA ModNear ==
  ASSUME NEW n \in Nat \ {0}, NEW a \in Int, -n <= a, a < 2 * n
  PROVE  a % n = IF a < 0 THEN a + n ELSE IF a < n THEN a ELSE a - n
<1>1. CASE a < 0
  <2>1. a = n * (-1) + (a + n) /\ a + n \in 0..(n - 1)
    BY <1>1
  <2>2. (n * (-1) + (a + n)) % n = a + n
    BY <2>1, ModUnique
  <2> QED
    BY <1>1, <2>1, <2>2
<1>2. CASE 0 <= a /\ a < n
  <2>1. a = n * 0 + a /\ a \in 0..(n - 1)
    BY <1>2
  <2>2. (n * 0 + a) % n = a
    BY <2>1, ModUnique
  <2> QED
    BY <1>2, <2>1, <2>2
<1>3. CASE n <= a
  <2>1. a = n * 1 + (a - n) /\ a - n \in 0..(n - 1)
    BY <1>3
  <2>2. (n * 1 + (a - n)) % n = a - n
    BY <2>1, ModUnique
  <2> QED
    BY <1>3, <2>1, <2>2
<1> QED
  BY <1>1, <1>2, <1>3

\* Two numbers less than n apart have different remainders.
LEMMA ModApart ==
  ASSUME NEW n \in Nat \ {0}, NEW a \in Int, NEW b \in Int, a < b, b < a + n
  PROVE  a % n # b % n
<1>1. SUFFICES ASSUME a % n = b % n PROVE FALSE
  OBVIOUS
<1>2. /\ a \div n \in Int /\ b \div n \in Int
      /\ a = n * (a \div n) + (a % n) /\ b = n * (b \div n) + (b % n)
      /\ a % n \in Int
  BY ModDiv
<1>3. n * ((b \div n) - (a \div n)) = b - a
  BY <1>1, <1>2
<1>4. CASE (b \div n) - (a \div n) >= 1
  <2>1. n * ((b \div n) - (a \div n)) >= n
    BY <1>4, <1>2
  <2> QED
    BY <2>1, <1>3
<1>5. CASE (b \div n) - (a \div n) <= 0
  <2>1. n * ((b \div n) - (a \div n)) <= 0
    BY <1>5, <1>2
  <2> QED
    BY <2>1, <1>3
<1> QED
  BY <1>4, <1>5, <1>2

\* The index of a ring whose size divides the range of a uint survives the wrap-around.
LEMMA ModMod ==
  ASSUME NEW m \in Nat \ {0}, NEW n \in Nat \ {0}, m % n = 0, NEW a \in Int
  PROVE  (a % m) % n = a % n
<1> DEFINE x == m \div n
           y == a \div m
           r == a % m
<1>1. m = n * x /\ x \in Int
  BY ModDiv
<1>2. a = m * y + r /\ y \in Int /\ r \in Int
  BY ModDiv
<1> HIDE DEF x, y, r
<1>3. m * y = n * (x * y) /\ x * y \in Int
  BY <1>1, <1>2
<1>4. a = r + n * (x * y)
  BY <1>2, <1>3
<1>5. (r + n * (x * y)) % n = r % n
  BY <1>2, <1>3, ModShift
<1> QED
  BY <1>4, <1>5 DEF r

-----------------------------------------------------------------------------
(* What the steps of a component leave alone                               *)

\* Only processes at the labels L move, and only among them.
Moves(L) ==
    \A q \in Slot : \/ pc'[q] = pc[q] /\ loc'[q] = loc[q]
                    \/ pc[q] \in L /\ pc'[q] \in L

\* Whoever falls asleep does so for something of the kinds K.
Sleeps(K) ==
    \A q \in Slot : state'[q] = "SLEEPING" =>
        \/ state[q] = "SLEEPING" /\ chan'[q] = chan[q]
        \/ chan'[q][1] \in K

\* Processes may sleep, wake and be scheduled.
StateStep(K) ==
    /\ state' \in [Slot -> ProcState] /\ chan' \in [Slot -> (Kind \cup {"none"}) \X Nat]
    /\ \A q \in Slot : state'[q] = state[q] \/ (state[q] \in Alive /\ state'[q] \in Alive)
    /\ Sleeps(K)

\* Processes may go from one place in the code to another.
PcStep(L) ==
    /\ pc' \in [Slot -> Label] /\ loc' \in [Slot -> Locals]
    /\ \A q \in Slot : pc'[q] = "none" <=> pc[q] = "none"
    /\ Moves(L)

\* A step that is none of the process table's business.
Foreign(L, K) ==
    /\ StateStep(K) /\ PcStep(L)
    /\ pid' = pid /\ parent' = parent /\ nextpid' = nextpid
    /\ killed' \in [Slot -> BOOLEAN] /\ ofile' \in [Slot -> SUBSET {"r", "w"}]

\* What the assumptions on the constants say about the process table and unsigned integers.
LEMMA SlotFacts ==
  /\ NPROC \in Nat \ {0} /\ UINT \in Nat \ {0}
  /\ initproc \in Slot /\ 0 \notin Slot /\ Slot \subseteq Nat /\ Slot \subseteq 0..NPROC
  /\ IsFiniteSet(Slot)
  BY ProcAssumption, FS_Interval DEF Slot, initproc

\* A step that changes no state and no channel puts nobody to sleep.
LEMMA StateSame ==
  ASSUME TableType, NEW K, UNCHANGED <<state, chan>>
  PROVE  StateStep(K)
  BY DEF TableType, StateStep, Sleeps

\* wakeup() makes sleepers runnable and puts nobody to sleep.
LEMMA StateWoken ==
  ASSUME TableType, NEW K, NEW c, wakeup(c), UNCHANGED chan
  PROVE  StateStep(K)
<1>1. \A q \in Slot : state'[q] = IF state[q] = "SLEEPING" /\ chan[q] = c THEN "RUNNABLE" ELSE state[q]
  BY DEF wakeup, wakeup1
<1>2. state' \in [Slot -> ProcState]
  BY DEF wakeup, wakeup1, TableType, ProcState
<1> QED
  BY <1>1, <1>2 DEF TableType, StateStep, Sleeps, Alive

\* sleep() puts one process to sleep, on a channel of the kind it names.
LEMMA StateSlept ==
  ASSUME TableType, NEW K \in SUBSET Kind, NEW p \in Slot, state[p] = "RUNNING",
         NEW k \in K, NEW n \in Nat, sleep(p, <<k, n>>)
  PROVE  StateStep(K)
<1>1. chan' = [chan EXCEPT ![p] = <<k, n>>] /\ state' = [state EXCEPT ![p] = "SLEEPING"]
  BY DEF sleep
<1>2. <<k, n>> \in (Kind \cup {"none"}) \X Nat
  OBVIOUS
<1>3. state' \in [Slot -> ProcState] /\ chan' \in [Slot -> (Kind \cup {"none"}) \X Nat]
  BY <1>1, <1>2 DEF TableType, ProcState
<1>4. /\ \A q \in Slot : q # p => state'[q] = state[q] /\ chan'[q] = chan[q]
      /\ state'[p] = "SLEEPING" /\ chan'[p] = <<k, n>>
  BY <1>1 DEF TableType
<1>5. Sleeps(K)
  <2> SUFFICES ASSUME NEW q \in Slot, state'[q] = "SLEEPING"
               PROVE  (state[q] = "SLEEPING" /\ chan'[q] = chan[q]) \/ chan'[q][1] \in K
    BY DEF Sleeps
  <2>1. CASE q = p
    <3>1. chan'[p][1] = k
      BY <1>4
    <3> QED
      BY <2>1, <3>1
  <2> QED
    BY <2>1, <1>4
<1> QED
  BY <1>3, <1>4, <1>5 DEF StateStep, Alive

\* A step that moves nobody moves nobody outside any set of labels.
LEMMA PcSame ==
  ASSUME TableType, NEW L, UNCHANGED <<pc, loc>>
  PROVE  PcStep(L)
  BY DEF TableType, PcStep, Moves

\* A process goes to another label of the same component with new locals.
LEMMA PcGoto ==
  ASSUME TableType, NEW L \in SUBSET Label, NEW p \in Slot, NEW l \in L, l # "none",
         pc[p] \in L, pc[p] # "none", Goto(p, l),
         NEW x \in Locals, loc' = [loc EXCEPT ![p] = x]
  PROVE  PcStep(L)
<1>1. /\ \A q \in Slot : q # p => pc'[q] = pc[q] /\ loc'[q] = loc[q]
      /\ pc'[p] = l
      /\ pc' \in [Slot -> Label] /\ loc' \in [Slot -> Locals]
  BY DEF TableType, Goto
<1> QED
  BY <1>1 DEF PcStep, Moves

\* A process goes to another label of the same component with the locals it has.
LEMMA PcJump ==
  ASSUME TableType, NEW L \in SUBSET Label, NEW p \in Slot, NEW l \in L, l # "none",
         pc[p] \in L, pc[p] # "none", Goto(p, l), loc' = loc
  PROVE  PcStep(L)
<1>1. /\ \A q \in Slot : q # p => pc'[q] = pc[q] /\ loc'[q] = loc[q]
      /\ pc'[p] = l
      /\ pc' \in [Slot -> Label] /\ loc' \in [Slot -> Locals]
  BY DEF TableType, Goto
<1> QED
  BY <1>1 DEF PcStep, Moves

\* The locals of a process that enters a system call.
LEMMA NoLocIs ==
  /\ NoLoc \in Locals
  /\ NoLoc.np = 0 /\ NoLoc.i = 0 /\ NoLoc.n = 0
  /\ \A i, n \in Nat : [np |-> 0, i |-> i, n |-> n] \in Locals
  /\ \A n \in Nat : [NoLoc EXCEPT !.n = n] = [np |-> 0, i |-> 0, n |-> n]
  /\ \A i \in Nat : [NoLoc EXCEPT !.i = i] = [np |-> 0, i |-> i, n |-> 0]
  /\ \A i, n \in Nat : [NoLoc EXCEPT !.i = i, !.n = n] = [np |-> 0, i |-> i, n |-> n]
  /\ \A k \in 0..NPROC : [NoLoc EXCEPT !.np = k] = [np |-> k, i |-> 0, n |-> 0]
<1>1. NoLoc \in Locals /\ NoLoc.np = 0 /\ NoLoc.i = 0 /\ NoLoc.n = 0
  BY SlotFacts DEF NoLoc, Locals
<1>2. \A i, n \in Nat : [np |-> 0, i |-> i, n |-> n] \in Locals
  BY SlotFacts DEF Locals
<1>3. \A n \in Nat : [NoLoc EXCEPT !.n = n] = [np |-> 0, i |-> 0, n |-> n]
  BY DEF NoLoc
<1>4. \A i \in Nat : [NoLoc EXCEPT !.i = i] = [np |-> 0, i |-> i, n |-> 0]
  BY DEF NoLoc
<1>5. \A i, n \in Nat : [NoLoc EXCEPT !.i = i, !.n = n] = [np |-> 0, i |-> i, n |-> n]
  <2> TAKE i, n \in Nat
  <2>1. [NoLoc EXCEPT !.i = i, !.n = n] = [[NoLoc EXCEPT !.i = i] EXCEPT !.n = n]
    OBVIOUS
  <2>2. [[np |-> 0, i |-> i, n |-> 0] EXCEPT !.n = n] = [np |-> 0, i |-> i, n |-> n]
    OBVIOUS
  <2> QED
    BY <2>1, <2>2, <1>4
<1>6. \A k \in 0..NPROC : [NoLoc EXCEPT !.np = k] = [np |-> k, i |-> 0, n |-> 0]
  BY DEF NoLoc
<1> QED
  BY <1>1, <1>2, <1>3, <1>4, <1>5, <1>6

\* A loop counter in the locals is replaced by a new one.
LEMMA LocExcept ==
  ASSUME TableType, NEW p \in Slot, NEW y \in Nat
  PROVE  /\ [np |-> loc[p].np, i |-> y, n |-> loc[p].n] \in Locals
         /\ [loc EXCEPT ![p].i = y] = [loc EXCEPT ![p] = [np |-> loc[p].np, i |-> y, n |-> loc[p].n]]
<1>1. \A r \in Locals : [r EXCEPT !.i = y] = [np |-> r.np, i |-> y, n |-> r.n]
  BY DEF Locals
<1>2. loc[p] \in Locals
  BY DEF TableType
<1>3. [loc EXCEPT ![p].i = y] = [loc EXCEPT ![p] = [loc[p] EXCEPT !.i = y]]
  BY DEF TableType
<1>4. [np |-> loc[p].np, i |-> y, n |-> loc[p].n] \in Locals
  BY <1>2 DEF Locals
<1> QED
  BY <1>1, <1>2, <1>3, <1>4

\* A system call returns to the program.
LEMMA PcReturn ==
  ASSUME TableType, NEW L \in SUBSET Label, NEW p \in Slot, "user" \in L,
         pc[p] \in L, pc[p] # "none", Return(p)
  PROVE  PcStep(L)
  BY PcGoto, NoLocIs DEF Return

\* The table survives such a step, if the forks in progress keep their children.
LEMMA ForkKeeps ==
  ASSUME TableInv, NEW L, NEW K, Foreign(L, K), K \subseteq Kind \ {"wait"},
         \A q \in Slot : pc'[q] \in Forking => pc[q] \in Forking /\ loc'[q].np = loc[q].np
  PROVE  TableInv'
<1>1. TableType'
  BY DEF Foreign, StateStep, PcStep, TableType, TableInv
<1>2. PcInv'
  BY DEF Foreign, StateStep, PcStep, PcInv, TableInv
<1>3. ForkInv'
  <2>1. \A q \in Slot : pc'[q] \in Forking => pc[q] \in Forking /\ loc'[q].np = loc[q].np
    OBVIOUS
  <2>2. \A q \in Slot : state[q] = "EMBRYO" => state'[q] = "EMBRYO"
    BY DEF Foreign, StateStep, Alive
  <2> QED
    BY <2>1, <2>2 DEF ForkInv, TableInv
<1>4. PidInv'
  <2>1. \A q \in Slot : state'[q] # "UNUSED" => state[q] # "UNUSED"
    BY DEF Foreign, StateStep, Alive
  <2> QED
    BY <2>1 DEF PidInv, Foreign, TableInv
<1>5. ParentInv'
  <2>1. \A q \in Slot : state[q] \in Alive <=> state'[q] \in Alive
    BY DEF Foreign, StateStep
  <2>2. \A q \in Slot : state'[q] \in {"UNUSED", "EMBRYO"} => state[q] \in {"UNUSED", "EMBRYO"}
    BY DEF Foreign, StateStep, Alive
  <2>3. \A q \in Slot : Live(q)' => Live(q)
    BY DEF Foreign, StateStep, Alive, Live
  <2> QED
    BY <2>1, <2>2, <2>3, SlotFacts DEF ParentInv, Foreign, TableInv
<1>6. WaitInv'
  <2> SUFFICES ASSUME NEW q \in Slot, state'[q] = "SLEEPING"
               PROVE  /\ chan'[q][1] \in Kind
                      /\ chan'[q][1] = "wait" =>
                           /\ chan'[q][2] = q
                           /\ \E r \in Slot : parent'[r] = q
                           /\ \A r \in Slot : parent'[r] = q => state'[r] # "ZOMBIE"
    BY DEF WaitInv
  <2>1. CASE chan'[q][1] \in K
    BY <2>1
  <2>2. CASE state[q] = "SLEEPING" /\ chan'[q] = chan[q]
    <3>1. \A r \in Slot : state'[r] = "ZOMBIE" => state[r] = "ZOMBIE"
      BY DEF Foreign, StateStep, Alive
    <3> QED
      BY <2>2, <3>1 DEF WaitInv, TableInv, Foreign
  <2> QED
    BY <2>1, <2>2 DEF Foreign, StateStep, Sleeps
<1> QED
  BY <1>1, <1>2, <1>3, <1>4, <1>5, <1>6 DEF TableInv

\* A step of a pipe, the console, the clock or the disk keeps the process table's invariant.
LEMMA ForeignKeeps ==
  ASSUME TableInv, NEW L, NEW K, Foreign(L, K), L \cap Forking = {}, K \subseteq Kind \ {"wait"}
  PROVE  TableInv'
<1>1. \A q \in Slot : pc'[q] \in Forking => pc[q] \in Forking /\ loc'[q].np = loc[q].np
  BY DEF Foreign, PcStep, Moves
<1> QED
  BY <1>1, ForkKeeps

-----------------------------------------------------------------------------
(* The clock                                                               *)

\* The timer interrupt counts a tick, modulo 2^w, and wakes the sleepers of sys_sleep().
LEMMA TickFrame ==
  ASSUME TableType, ClockType, NEW K, NEW L, NEW st \in [Slot -> ProcState], Tick(st),
         \A q \in Slot : st[q] = state[q] \/ (state[q] = "RUNNING" /\ st[q] = "RUNNABLE")
  PROVE  Foreign(L, K) /\ ClockType'
<1> DEFINE c == <<"ticks", 0>>
<1>1. state' = wakeup1(st, c) /\ UNCHANGED <<pid, parent, killed, chan, nextpid, ofile, pc, loc>>
  BY DEF Tick
<1>2. \A q \in Slot : state'[q] = IF st[q] = "SLEEPING" /\ chan[q] = c THEN "RUNNABLE" ELSE st[q]
  BY <1>1 DEF wakeup1
<1>3. state' \in [Slot -> ProcState]
  BY <1>1 DEF wakeup1, ProcState
<1> HIDE DEF c
<1>4. \A q \in Slot : state'[q] = state[q] \/ (state[q] \in Alive /\ state'[q] \in Alive)
  BY <1>2 DEF Alive
<1>5. \A q \in Slot : state'[q] = "SLEEPING" => state[q] = "SLEEPING"
  BY <1>2
<1>6. StateStep(K)
  BY <1>1, <1>3, <1>4, <1>5 DEF StateStep, Sleeps, TableType
<1>7. PcStep(L)
  BY <1>1, PcSame
<1>8. ClockType'
  BY ModDiv, SlotFacts DEF Tick, ClockType
<1> QED
  BY <1>1, <1>6, <1>7, <1>8 DEF Foreign, TableType

\* sys_sleep()'s test sends the process to the sleep or back to the program.
LEMMA TestTicksPc ==
  ASSUME TableType, NEW p \in Slot, NEW since \in Nat, NEW n \in Nat,
         pc[p] \in {"user", "sys_sleep"}, TestTicks(p, since, n)
  PROVE  PcStep(Common \cup InClock)
<1>1. /\ Common \cup InClock \in SUBSET Label
      /\ {"user", "sys_sleep", "sys_sleep_sleep"} \subseteq Common \cup InClock
      /\ pc[p] \in Common \cup InClock /\ pc[p] # "none"
  BY DEF Common, InClock, Label
<1>2. CASE Elapsed(since) < n /\ ~killed[p]
  <2>1. /\ Goto(p, "sys_sleep_sleep")
        /\ loc' = [loc EXCEPT ![p] = [np |-> 0, i |-> since, n |-> n]]
    BY <1>2, NoLocIs DEF TestTicks
  <2>2. [np |-> 0, i |-> since, n |-> n] \in Locals
    BY NoLocIs
  <2> QED
    BY <1>1, <2>1, <2>2, PcGoto
<1>3. CASE ~ (Elapsed(since) < n /\ ~killed[p])
  <2>1. Return(p)
    BY <1>3 DEF TestTicks
  <2> QED
    BY <1>1, <2>1, PcReturn
<1> QED
  BY <1>2, <1>3

\* The steps of sys_sleep() and of the timer interrupt stay within the clock.
LEMMA ClockFrame ==
  ASSUME TableType, ClockType, NEW p \in Slot, ClockStep(p)
  PROVE  Foreign(Common \cup InClock, {"ticks"}) /\ ClockType'
<1> DEFINE L == Common \cup InClock
<1>1. /\ ticks \in Nat /\ IOSizes \subseteq Nat /\ L \in SUBSET Label
      /\ loc[p].i \in Nat /\ loc[p].n \in Nat /\ {"ticks"} \in SUBSET Kind
      /\ {"user", "sys_sleep", "sys_sleep_sleep"} \subseteq L
  BY PipeAssumption DEF TableType, ClockType, Locals, Label, Kind, Common, InClock
<1>2. CASE \E n \in IOSizes : sys_sleep(p, n)
  <2>1. PICK n \in IOSizes : sys_sleep(p, n)
    BY <1>2
  <2>2. UNCHANGED <<ptable, ofile, clockVars>> /\ pc[p] = "user" /\ TestTicks(p, ticks, n)
    BY <2>1 DEF sys_sleep, InUser
  <2>3. PcStep(L)
    BY <2>2, <1>1, TestTicksPc
  <2>4. StateStep({"ticks"})
    BY <2>2, StateSame DEF ptable
  <2> QED
    BY <2>2, <2>3, <2>4 DEF Foreign, ptable, clockVars, ClockType, TableType
<1>3. CASE sys_sleep_sleep(p)
  <2>1. /\ UNCHANGED <<pid, parent, killed, nextpid, ofile, loc, clockVars>>
        /\ pc[p] = "sys_sleep_sleep" /\ sleep(p, <<"ticks", 0>>) /\ Goto(p, "sys_sleep")
        /\ state[p] = "RUNNING"
    BY <1>3 DEF sys_sleep_sleep, Running
  <2>2. PcStep(L)
    BY <2>1, <1>1, PcJump
  <2>3. StateStep({"ticks"})
    BY <2>1, <1>1, StateSlept
  <2> QED
    BY <2>1, <2>2, <2>3 DEF Foreign, clockVars, ClockType, TableType
<1>4. CASE sys_sleep_again(p)
  <2>2. UNCHANGED <<ptable, ofile, clockVars>> /\ pc[p] = "sys_sleep" /\ TestTicks(p, loc[p].i, loc[p].n)
    BY <1>4 DEF sys_sleep_again
  <2>3. PcStep(L)
    BY <2>2, <1>1, TestTicksPc
  <2>4. StateStep({"ticks"})
    BY <2>2, StateSame DEF ptable
  <2> QED
    BY <2>2, <2>3, <2>4 DEF Foreign, ptable, clockVars, ClockType, TableType
<1>5. CASE timer(p)
  <2> DEFINE st == IF pc[p] = "user" \/ Preempt THEN [state EXCEPT ![p] = "RUNNABLE"] ELSE state
  <2>1. Tick(st) /\ state[p] = "RUNNING"
    BY <1>5 DEF timer, Running
  <2>2. /\ st \in [Slot -> ProcState]
        /\ \A q \in Slot : st[q] = state[q] \/ (state[q] = "RUNNING" /\ st[q] = "RUNNABLE")
    BY <2>1 DEF TableType, ProcState
  <2> HIDE DEF st
  <2> QED
    BY <2>1, <2>2, TickFrame
<1> QED
  BY <1>2, <1>3, <1>4, <1>5 DEF ClockStep

\* A timer interrupt on an idle processor stays within the clock.
LEMMA TimerIdleFrame ==
  ASSUME TableType, ClockType, timer_idle
  PROVE  Foreign(Common \cup InClock, {"ticks"}) /\ ClockType'
<1>1. Tick(state)
  BY DEF timer_idle
<1> QED
  BY <1>1, TickFrame DEF TableType

-----------------------------------------------------------------------------
(* The console                                                             *)

\* The distance between two indices of the console's ring, whatever has overflowed.
LEMMA DistIs ==
  ASSUME NEW i \in 0..(UINT - 1), NEW j \in 0..(UINT - 1)
  PROVE  Dist(i, j) \in 0..(UINT - 1) /\ Dist(i, j) = IF i <= j THEN j - i ELSE j - i + UINT
<1>1. UINT \in Nat \ {0} /\ j - i \in Int /\ -UINT <= j - i /\ j - i < 2 * UINT
  BY SlotFacts
<1>2. (j - i) % UINT = IF j - i < 0 THEN j - i + UINT ELSE IF j - i < UINT THEN j - i ELSE j - i - UINT
  BY <1>1, ModNear
<1> QED
  BY <1>1, <1>2 DEF Dist

\* ^U goes back by at most what is not committed.
LEMMA KillLineIs ==
  ASSUME ConsType
  PROVE  \E d \in 0..Dist(input.w, input.e) : KillLine = (input.e - d) % UINT
<1> DEFINE line == {d \in 0..Dist(input.w, input.e) :
                      \A c \in 1..d : At((input.e - c) % UINT) # "nl"}
<1>1. Dist(input.w, input.e) \in Nat
  BY DistIs DEF ConsType
<1>2. line \in SUBSET (0..Dist(input.w, input.e)) /\ 0 \in line
  BY <1>1
<1>3. KillLine = (input.e - Max(line)) % UINT
  BY DEF KillLine
<1> HIDE DEF line
<1>4. Max(line) \in line
  BY <1>1, <1>2, MaxIs
<1> QED
  BY <1>2, <1>3, <1>4

\* Unsigned arithmetic stays unsigned.
LEMMA UintMod ==
  \A x \in Int : x % UINT \in 0..(UINT - 1)
  BY ModDiv, SlotFacts

\* consoleintr(), for every key, keeps the types and stays within the console.
LEMMA KeyFrame ==
  ASSUME TableType, ConsType, NEW c \in Key, consoleintr(c)
  PROVE  Foreign(Common \cup InConsole, {"input"}) /\ ConsType'
<1>1. UNCHANGED <<pid, parent, killed, chan, nextpid, ofile, pc, loc>>
  BY DEF consoleintr
<1>2. StateStep({"input"})
  <2>1. CASE UNCHANGED state
    BY <2>1, <1>1, StateSame
  <2>2. CASE wakeup(<<"input", 0>>)
    BY <2>2, <1>1, StateWoken
  <2> QED
    BY <2>1, <2>2 DEF consoleintr
<1>3. PcStep(Common \cup InConsole)
  BY <1>1, PcSame
<1>4. input' \in [buf : [0..(INPUT_BUF - 1) -> Key], r : 0..(UINT - 1), w : 0..(UINT - 1), e : 0..(UINT - 1)]
  <2>1. CASE input' = [input EXCEPT !.e = KillLine]
    <3>1. KillLine \in 0..(UINT - 1)
      <4>1. PICK d \in 0..Dist(input.w, input.e) : KillLine = (input.e - d) % UINT
        BY KillLineIs
      <4>2. Dist(input.w, input.e) \in Int
        BY DistIs DEF ConsType
      <4> QED
        BY <4>1, <4>2, UintMod DEF ConsType
    <3> QED
      BY <2>1, <3>1 DEF ConsType
  <2>2. CASE input' = [input EXCEPT !.e = (@ - 1) % UINT]
    <3>1. (input.e - 1) % UINT \in 0..(UINT - 1)
      <4>1. input.e - 1 \in Int
        BY SlotFacts DEF ConsType
      <4> QED
        BY <4>1, UintMod
    <3> QED
      BY <2>2, <3>1 DEF ConsType
  <2>3. CASE LET e == (input.e + 1) % UINT
             IN  input' = [input EXCEPT !.buf[input.e % INPUT_BUF] = c, !.e = e,
                                        !.w = IF Commit(c, e) THEN e ELSE @]
    <3>1. (input.e + 1) % UINT \in 0..(UINT - 1)
      <4>1. input.e + 1 \in Int
        BY SlotFacts DEF ConsType
      <4> QED
        BY <4>1, UintMod
    <3>2. PICK w \in 0..(UINT - 1) :
             input' = [input EXCEPT !.buf[input.e % INPUT_BUF] = c, !.e = (input.e + 1) % UINT, !.w = w]
      BY <2>3, <3>1 DEF ConsType
    <3>3. [input.buf EXCEPT ![input.e % INPUT_BUF] = c] \in [0..(INPUT_BUF - 1) -> Key]
      BY DEF ConsType
    <3> QED
      BY <3>1, <3>2, <3>3 DEF ConsType
  <2> QED
    BY <2>1, <2>2, <2>3 DEF consoleintr
<1> QED
  BY <1>1, <1>2, <1>3, <1>4 DEF Foreign, TableType, ConsType

\* How much one round of consoleread takes.
Stops == {k \in 1..Dist(input.r, input.w) : At((input.r + k - 1) % UINT) \in {"nl", "eof"}}
Amount(n) == Min(Stops \cup {Dist(input.r, input.w), n})

\* consoleread() takes at least one byte when there is one, and no more than it wants or is there.
LEMMA AmountIs ==
  ASSUME ConsType, NEW n \in Nat, n > 0, Dist(input.r, input.w) > 0
  PROVE  /\ Amount(n) \in 1..Dist(input.r, input.w) /\ Amount(n) <= n
         /\ Amount(n) \in Stops \/ Amount(n) = n \/ Amount(n) = Dist(input.r, input.w)
<1> DEFINE d == Dist(input.r, input.w)
           S == Stops \cup {d, n}
<1>1. d \in Nat
  BY DistIs DEF ConsType
<1>2. S \in SUBSET Nat /\ S # {} /\ \A x \in Stops : x \in 1..d
  BY <1>1 DEF Stops
<1> HIDE DEF S, d
<1>3. Min(S) \in S /\ \A y \in S : Min(S) <= y
  BY <1>2, MinIs
<1>4. d \in S /\ n \in S /\ d > 0
  BY DEF S, d
<1>5. Amount(n) = Min(S)
  BY DEF Amount, S, d
<1>6. Min(S) \in Nat /\ Min(S) <= d /\ Min(S) <= n
  BY <1>2, <1>3, <1>4
<1>7. Min(S) \in Stops \/ Min(S) = n \/ Min(S) = d
  BY <1>3 DEF S
<1>8. Min(S) >= 1
  BY <1>1, <1>2, <1>4, <1>7
<1> QED
  BY <1>1, <1>5, <1>6, <1>7, <1>8 DEF d

\* consoleread in terms of it.
ReadWaits(p) ==
    /\ Dist(input.r, input.w) = 0
    /\ IF killed[p] THEN Return(p) ELSE Goto(p, "consoleread_sleep") /\ UNCHANGED loc
    /\ UNCHANGED input
ReadTakes(p, k) ==
    /\ Dist(input.r, input.w) > 0 /\ k = Amount(loc[p].n)
    /\ \E m \in {k - 1, k} :
          /\ input' = [input EXCEPT !.r = (@ + m) % UINT]
          /\ m = k - 1 => k \in Stops
    /\ IF k \in Stops \/ k = loc[p].n \/ killed[p] THEN Return(p)
       ELSE /\ loc' = [loc EXCEPT ![p] = [NoLoc EXCEPT !.i = 1, !.n = loc[p].n - k]]
            /\ Goto(p, "consoleread_sleep")

\* consoleread() waits, gives up when killed, or takes Amount bytes.
LEMMA ReadIs ==
  ASSUME TableType, ConsType, NEW p \in Slot, consoleread(p)
  PROVE  /\ state[p] = "RUNNING" /\ pc[p] = "consoleread" /\ ConsFree
         /\ UNCHANGED <<ptable, ofile>>
         /\ loc[p].n \in Nat /\ loc[p].n > 0
         /\ ReadWaits(p) \/ ReadTakes(p, Amount(loc[p].n))
<1>1. /\ state[p] = "RUNNING" /\ pc[p] = "consoleread" /\ ConsFree
      /\ UNCHANGED <<ptable, ofile>>
  BY DEF consoleread, Running
<1>2. loc[p].n \in Nat /\ loc[p].n > 0
  BY <1>1 DEF ConsType, TableType, Locals, InConsole
<1>3. CASE Dist(input.r, input.w) = 0
  <2>1. ReadWaits(p) \/ Dist(input.r, input.w) > 0
    BY DEF consoleread, ReadWaits
  <2>2. ~ (0 > 0)
    OBVIOUS
  <2> QED
    BY <1>1, <1>2, <1>3, <2>1, <2>2
<1>4. CASE Dist(input.r, input.w) > 0
  <2> DEFINE k == Amount(loc[p].n)
             kept == At((input.r + k - 1) % UINT) = "eof" /\ (k > 1 \/ loc[p].i # 0)
             m == IF kept THEN k - 1 ELSE k
  <2>1. /\ input' = [input EXCEPT !.r = (@ + m) % UINT]
        /\ IF k \in Stops \/ k = loc[p].n \/ killed[p] THEN Return(p)
           ELSE /\ loc' = [loc EXCEPT ![p] = [NoLoc EXCEPT !.i = 1, !.n = loc[p].n - k]]
                /\ Goto(p, "consoleread_sleep")
    BY <1>4 DEF consoleread, Amount, Stops
  <2>2. k \in 1..Dist(input.r, input.w)
    BY <1>2, <1>4, AmountIs
  <2>3. kept => k \in Stops
    <3> SUFFICES ASSUME At((input.r + k - 1) % UINT) = "eof"
                 PROVE  k \in Stops
      OBVIOUS
    <3> HIDE DEF k
    <3> QED
      BY <2>2 DEF Stops
  <2>4. m \in {k - 1, k} /\ (m = k - 1 => k \in Stops)
    BY <2>2, <2>3
  <2> HIDE DEF m, kept
  <2> QED
    BY <1>1, <1>2, <1>4, <2>1, <2>4 DEF ReadTakes
<1>5. Dist(input.r, input.w) \in Nat
  BY DistIs DEF ConsType
<1> QED
  BY <1>1, <1>2, <1>3, <1>4, <1>5

\* consoleread() keeps the types and stays within the console.
LEMMA ReadFrame ==
  ASSUME TableType, ConsType, NEW p \in Slot, consoleread(p)
  PROVE  Foreign(Common \cup InConsole, {"input"}) /\ ConsType'
<1> DEFINE L == Common \cup InConsole
           k == Amount(loc[p].n)
<1>1. /\ pc[p] = "consoleread" /\ UNCHANGED <<ptable, ofile>>
      /\ loc[p].n \in Nat /\ loc[p].n > 0
      /\ ReadWaits(p) \/ ReadTakes(p, k)
  BY ReadIs
<1>2. /\ L \in SUBSET Label /\ {"user", "consoleread", "consoleread_sleep"} \subseteq L
  BY DEF L, Common, InConsole, Label
<1> HIDE DEF L
<1>3. StateStep({"input"})
  BY <1>1, StateSame DEF ptable
<1>4. CASE Return(p) /\ (input' = input \/ \E m \in {k - 1, k} : input' = [input EXCEPT !.r = (@ + m) % UINT])
  <2>1. PcStep(L)
    BY <1>1, <1>2, <1>4, PcReturn
  <2>2. \A q \in Slot : pc'[q] \in InConsole => pc[q] = pc'[q] /\ loc'[q] = loc[q]
    BY <1>4 DEF Return, Goto, TableType, InConsole
  <2>3. input' \in [buf : [0..(INPUT_BUF - 1) -> Key], r : 0..(UINT - 1), w : 0..(UINT - 1), e : 0..(UINT - 1)]
    <3>1. CASE input' = input
      BY <3>1 DEF ConsType
    <3>2. CASE ReadTakes(p, k)
      <4>1. k \in Int
        BY <3>2, <1>1, AmountIs DEF ReadTakes
      <4>2. PICK r \in 0..(UINT - 1) : input' = [input EXCEPT !.r = r]
        BY <4>1, <3>2, UintMod DEF ReadTakes, ConsType
      <4> QED
        BY <4>2 DEF ConsType
    <3> QED
      BY <1>1, <3>1, <3>2 DEF ReadWaits
  <2> QED
    BY <1>1, <1>3, <2>1, <2>2, <2>3 DEF Foreign, ptable, TableType, ConsType, L
<1>5. CASE ReadWaits(p) /\ ~killed[p]
  <2>1. Goto(p, "consoleread_sleep") /\ loc' = loc /\ input' = input
    BY <1>5 DEF ReadWaits
  <2>2. PcStep(L)
    BY <1>1, <1>2, <2>1, PcJump
  <2>3. \A q \in Slot : pc'[q] \in InConsole => pc[q] \in InConsole /\ loc'[q] = loc[q]
    BY <1>1, <2>1 DEF Goto, TableType, InConsole
  <2> QED
    BY <1>1, <1>3, <2>1, <2>2, <2>3 DEF Foreign, ptable, TableType, ConsType, L
<1>6. CASE ReadTakes(p, k) /\ ~ (k \in Stops \/ k = loc[p].n \/ killed[p])
  <2>1. /\ loc' = [loc EXCEPT ![p] = [NoLoc EXCEPT !.i = 1, !.n = loc[p].n - k]]
        /\ Goto(p, "consoleread_sleep")
        /\ Dist(input.r, input.w) > 0
        /\ input' = [input EXCEPT !.r = (@ + k) % UINT]
    BY <1>6 DEF ReadTakes
  <2>2. k \in Nat /\ k <= loc[p].n /\ k # loc[p].n
    BY <1>1, <1>6, <2>1, AmountIs
  <2> HIDE DEF k
  <2> DEFINE x == [np |-> 0, i |-> 1, n |-> loc[p].n - k]
  <2>3. loc[p].n - k \in Nat /\ loc[p].n - k > 0
    BY <1>1, <2>2
  <2>4. loc' = [loc EXCEPT ![p] = x]
    <3> DEFINE n == loc[p].n - k
    <3>1. n \in Nat /\ 1 \in Nat
      BY <2>3
    <3>2. loc' = [loc EXCEPT ![p] = [NoLoc EXCEPT !.i = 1, !.n = n]]
      BY <2>1
    <3> HIDE DEF n
    <3>3. [NoLoc EXCEPT !.i = 1, !.n = n] = [np |-> 0, i |-> 1, n |-> n]
      BY <3>1, NoLocIs
    <3> QED
      BY <3>2, <3>3 DEF n
  <2>5. x \in Locals /\ x.n > 0
    BY <2>3, NoLocIs
  <2>6. PcStep(L)
    <3> HIDE DEF x
    <3> QED
      BY <1>1, <1>2, <2>1, <2>4, <2>5, PcGoto
  <2>7. /\ \A q \in Slot : q # p => pc'[q] = pc[q] /\ loc'[q] = loc[q]
        /\ loc'[p].n > 0
    <3> HIDE DEF x
    <3> QED
      BY <2>1, <2>4, <2>5 DEF Goto, TableType
  <2>8. (input.r + k) % UINT \in 0..(UINT - 1)
    <3> DEFINE a == input.r + k
    <3>1. a \in Int
      BY <2>2 DEF ConsType
    <3> HIDE DEF a
    <3>2. a % UINT \in 0..(UINT - 1)
      BY <3>1, UintMod
    <3> QED
      BY <3>2 DEF a
  <2> QED
    BY <1>1, <1>3, <2>1, <2>6, <2>7, <2>8 DEF Foreign, ptable, TableType, ConsType, L
<1> QED
  BY <1>1, <1>4, <1>5, <1>6 DEF ReadWaits, ReadTakes

\* Every step of a process on the console does.
LEMMA ConsoleFrame ==
  ASSUME TableType, ConsType, NEW p \in Slot, ConsoleStep(p)
  PROVE  Foreign(Common \cup InConsole, {"input"}) /\ ConsType'
<1> DEFINE L == Common \cup InConsole
<1>1. /\ IOSizes \subseteq Nat \ {0} /\ L \in SUBSET Label /\ {"input"} \in SUBSET Kind
      /\ {"user", "consoleread", "consoleread_sleep"} \subseteq L
  BY PipeAssumption DEF Label, Kind, Common, InConsole
<1>2. CASE \E n \in IOSizes : sys_read_console(p, n)
  <2>1. PICK n \in IOSizes : sys_read_console(p, n)
    BY <1>2
  <2> DEFINE x == [np |-> 0, i |-> 0, n |-> n]
  <2>2. /\ UNCHANGED <<ptable, ofile, consVars>> /\ pc[p] = "user" /\ Goto(p, "consoleread")
        /\ loc' = [loc EXCEPT ![p] = x]
    BY <1>1, <2>1, NoLocIs DEF sys_read_console, InUser
  <2>3. x \in Locals /\ x.n > 0
    <3>1. n \in Nat /\ n > 0
      BY <1>1
    <3> QED
      BY <3>1, NoLocIs
  <2> HIDE DEF x
  <2>4. PcStep(L)
    BY <2>2, <2>3, <1>1, PcGoto
  <2>5. StateStep({"input"})
    BY <2>2, StateSame DEF ptable
  <2>6. /\ \A q \in Slot : q # p => pc'[q] = pc[q] /\ loc'[q] = loc[q]
        /\ loc'[p].n > 0
    BY <2>2, <2>3 DEF Goto, TableType
  <2> QED
    BY <2>2, <2>4, <2>5, <2>6 DEF Foreign, ptable, consVars, ConsType, TableType
<1>3. CASE consoleread_sleep(p)
  <2>1. /\ UNCHANGED <<pid, parent, killed, nextpid, ofile, loc, consVars>>
        /\ pc[p] = "consoleread_sleep" /\ sleep(p, <<"input", 0>>) /\ Goto(p, "consoleread")
        /\ state[p] = "RUNNING"
    BY <1>3 DEF consoleread_sleep, Running
  <2>2. PcStep(L)
    BY <2>1, <1>1, PcJump
  <2>3. StateStep({"input"})
    BY <2>1, <1>1, StateSlept
  <2>4. \A q \in Slot : pc'[q] \in InConsole => pc[q] \in InConsole
    BY <2>1 DEF Goto, TableType, InConsole
  <2> QED
    BY <2>1, <2>2, <2>3, <2>4 DEF Foreign, consVars, ConsType, TableType
<1> QED
  BY <1>2, <1>3, ReadFrame DEF ConsoleStep

-----------------------------------------------------------------------------
(* The pipe                                                                *)

\* nwrite - nread, as unsigned, is the number of bytes in the ring whichever index has overflowed.
LEMMA CountIs ==
  ASSUME PipeType
  PROVE  /\ Count \in 0..(UINT - 1)
         /\ Count = IF pipe.nread <= pipe.nwrite THEN pipe.nwrite - pipe.nread
                                                 ELSE pipe.nwrite - pipe.nread + UINT
<1> DEFINE r == pipe.nread
           w == pipe.nwrite
<1>1. UINT \in Nat \ {0} /\ r \in 0..(UINT - 1) /\ w \in 0..(UINT - 1)
  BY SlotFacts DEF PipeType, PipeRec
<1>2. Count = (w - r) % UINT
  BY DEF Count
<1> HIDE DEF r, w
<1>3. w - r \in Int /\ -UINT <= w - r /\ w - r < 2 * UINT
  BY <1>1
<1>4. (w - r) % UINT = IF w - r < 0 THEN w - r + UINT ELSE IF w - r < UINT THEN w - r ELSE w - r - UINT
  BY <1>1, <1>3, ModNear
<1> QED
  BY <1>1, <1>2, <1>3, <1>4 DEF r, w

\* Moving the write index of a ring by k puts k more in.
LEMMA RingPut ==
  ASSUME NEW n \in Nat \ {0}, NEW r \in 0..(n - 1), NEW w \in 0..(n - 1), NEW k \in Nat,
         ((w - r) % n) + k < n
  PROVE  /\ (w + k) % n \in 0..(n - 1)
         /\ (((w + k) % n) - r) % n = ((w - r) % n) + k
<1>1. w - r \in Int /\ -n <= w - r /\ w - r < 2 * n
  OBVIOUS
<1>2. (w - r) % n = IF w - r < 0 THEN w - r + n ELSE IF w - r < n THEN w - r ELSE w - r - n
  BY <1>1, ModNear
<1>3. k < n /\ w + k \in Int /\ -n <= w + k /\ w + k < 2 * n
  BY <1>2
<1>4. (w + k) % n = IF w + k < n THEN w + k ELSE w + k - n
  <2> DEFINE x == w + k
  <2>1. x \in Int /\ -n <= x /\ x < 2 * n /\ ~ (x < 0)
    BY <1>3
  <2> HIDE DEF x
  <2>2. x % n = IF x < n THEN x ELSE x - n
    BY <2>1, ModNear
  <2> QED
    BY <2>2 DEF x
<1> DEFINE v == (w + k) % n
<1>5. v \in 0..(n - 1)
  BY <1>3, <1>4
<1> HIDE DEF v
<1>6. v - r \in Int /\ -n <= v - r /\ v - r < 2 * n
  BY <1>5
<1>7. (v - r) % n = IF v - r < 0 THEN v - r + n ELSE IF v - r < n THEN v - r ELSE v - r - n
  BY <1>6, ModNear
<1>8. v = IF w + k < n THEN w + k ELSE w + k - n
  BY <1>3, <1>4 DEF v
<1>9. (v - r) % n = ((w - r) % n) + k
  BY <1>2, <1>5, <1>7, <1>8
<1> QED
  BY <1>5, <1>9 DEF v

\* Moving the read index of a ring by k leaves k fewer.
LEMMA RingTake ==
  ASSUME NEW n \in Nat \ {0}, NEW r \in 0..(n - 1), NEW w \in 0..(n - 1), NEW k \in Nat,
         k <= (w - r) % n
  PROVE  /\ (r + k) % n \in 0..(n - 1)
         /\ (w - ((r + k) % n)) % n = ((w - r) % n) - k
<1>1. w - r \in Int /\ -n <= w - r /\ w - r < 2 * n
  OBVIOUS
<1>2. (w - r) % n = IF w - r < 0 THEN w - r + n ELSE IF w - r < n THEN w - r ELSE w - r - n
  BY <1>1, ModNear
<1>3. k < n /\ r + k \in Int /\ -n <= r + k /\ r + k < 2 * n
  BY <1>2
<1>4. (r + k) % n = IF r + k < n THEN r + k ELSE r + k - n
  <2> DEFINE x == r + k
  <2>1. x \in Int /\ -n <= x /\ x < 2 * n /\ ~ (x < 0)
    BY <1>3
  <2> HIDE DEF x
  <2>2. x % n = IF x < n THEN x ELSE x - n
    BY <2>1, ModNear
  <2> QED
    BY <2>2 DEF x
<1> DEFINE v == (r + k) % n
<1>5. v \in 0..(n - 1)
  BY <1>3, <1>4
<1> HIDE DEF v
<1>6. w - v \in Int /\ -n <= w - v /\ w - v < 2 * n
  BY <1>5
<1>7. (w - v) % n = IF w - v < 0 THEN w - v + n ELSE IF w - v < n THEN w - v ELSE w - v - n
  BY <1>6, ModNear
<1>8. v = IF r + k < n THEN r + k ELSE r + k - n
  BY <1>3, <1>4 DEF v
<1>9. (w - v) % n = ((w - r) % n) - k
  BY <1>2, <1>5, <1>7, <1>8
<1> QED
  BY <1>5, <1>9 DEF v

\* The bytes stored are numbers.
LEMMA FilledType ==
  ASSUME PipeType, NEW k \in Int
  PROVE  Filled(pipe.data, sent, k) \in [0..(PIPESIZE - 1) -> Nat]
<1> DEFINE D == 0..(PIPESIZE - 1)
           hits(j) == {i \in 0..(k - 1) : ((pipe.nwrite + i) % UINT) % PIPESIZE = j}
<1>1. Filled(pipe.data, sent, k) =
        [j \in D |-> IF hits(j) = {} THEN pipe.data[j] ELSE (sent + Max(hits(j))) % (2 * PIPESIZE)]
  BY DEF Filled, PipeType, PipeRec
<1>2. ASSUME NEW j \in D, hits(j) # {}
      PROVE  (sent + Max(hits(j))) % (2 * PIPESIZE) \in Nat
  <2> DEFINE h == hits(j)
             m == k - 1
  <2>1. m \in Nat /\ h \in SUBSET (0..m) /\ h # {}
    BY <1>2
  <2> HIDE DEF h, m
  <2>2. Max(h) \in 0..m
    BY <2>1, MaxIs
  <2> DEFINE a == sent + Max(h)
             n == 2 * PIPESIZE
  <2>3. a \in Int /\ n \in Nat \ {0}
    BY <2>1, <2>2, PipeAssumption DEF PipeType
  <2>4. a % n \in Nat
    <3> HIDE DEF a, n
    <3> QED
      BY <2>3, ModDiv
  <2> QED
    BY <2>4 DEF h
<1> HIDE DEF hits
<1>3. \A j \in D : pipe.data[j] \in Nat
  BY DEF PipeType, PipeRec
<1> QED
  BY <1>1, <1>2, <1>3

\* What pipewrite and piperead move.
Left(p) == loc[p].n - loc[p].i
Written(p) == IF Left(p) <= Room THEN Left(p) ELSE Room
Quits(p) == Left(p) > Room /\ (~pipe.readopen \/ killed[p])
Wrote(p) == [pipe EXCEPT !.data = Filled(pipe.data, sent, Written(p)),
                         !.nwrite = (pipe.nwrite + Written(p)) % UINT]

\* pipewrite() puts in what fits, then is done, gives up or goes to sleep.
LEMMA WriteIs ==
  ASSUME TableType, PipeType, NEW p \in Slot, pipewrite(p)
  PROVE  /\ state[p] = "RUNNING" /\ pc[p] = "pipewrite" /\ PipeFree
         /\ UNCHANGED <<pid, parent, killed, chan, nextpid, ofile, memVars>>
         /\ Left(p) \in Int /\ Room \in Int /\ Written(p) \in Int
         /\ pipe' = Wrote(p)
         /\ sent' = (sent + Written(p)) % (2 * PIPESIZE)
         /\ cut' = (Quits(p) /\ (cut \/ Written(p) > 0))
         /\ IF Quits(p) THEN UNCHANGED state ELSE wakeup(<<"nread", 0>>)
         /\ IF Left(p) <= Room \/ Quits(p) THEN Return(p)
            ELSE /\ loc' = [loc EXCEPT ![p].i = @ + Written(p)]
                 /\ Goto(p, "pipewrite_sleep")
<1>1. /\ state[p] = "RUNNING" /\ pc[p] = "pipewrite" /\ PipeFree
      /\ UNCHANGED <<pid, parent, killed, chan, nextpid, ofile, memVars>>
  BY DEF pipewrite, Running
<1>2. Left(p) \in Int /\ Room \in Int /\ Written(p) \in Int
  BY CountIs, PipeAssumption, SlotFacts DEF Left, Room, Written, TableType, Locals
<1>3. /\ pipe' = Wrote(p)
      /\ sent' = (sent + Written(p)) % (2 * PIPESIZE)
      /\ cut' = (Quits(p) /\ (cut \/ Written(p) > 0))
      /\ IF Quits(p) THEN UNCHANGED state ELSE wakeup(<<"nread", 0>>)
      /\ IF Left(p) <= Room \/ Quits(p) THEN Return(p)
         ELSE /\ loc' = [loc EXCEPT ![p].i = @ + Written(p)]
              /\ Goto(p, "pipewrite_sleep")
  BY DEF pipewrite, Wrote, Written, Quits, Left
<1> QED
  BY <1>1, <1>2, <1>3

\* pipewrite() never puts more than PIPESIZE bytes into the ring.
LEMMA WriteCount ==
  ASSUME TableType, PipeType, NEW p \in Slot, pipewrite(p)
  PROVE  /\ Written(p) \in Nat /\ Written(p) <= Left(p)
         /\ Count' = Count + Written(p) /\ Count' <= PIPESIZE
<1>1. /\ pc[p] = "pipewrite" /\ Left(p) \in Int /\ Room \in Int /\ Written(p) \in Int
      /\ pipe' = Wrote(p)
  BY WriteIs
<1>2. loc[p].i \in Nat /\ loc[p].n \in Nat /\ loc[p].i <= loc[p].n
  BY <1>1 DEF TableType, Locals, PipeType
<1>3. Count \in Nat /\ Count <= PIPESIZE /\ PIPESIZE \in Nat /\ PIPESIZE < UINT /\ UINT \in Nat \ {0}
  BY CountIs, PipeAssumption, SlotFacts DEF PipeType
<1>4. Written(p) \in Nat /\ Written(p) <= Left(p) /\ Count + Written(p) <= PIPESIZE
  BY <1>1, <1>2, <1>3 DEF Written, Left, Room
<1>5. pipe'.nwrite = (pipe.nwrite + Written(p)) % UINT /\ pipe'.nread = pipe.nread
  BY <1>1 DEF Wrote, PipeType, PipeRec
<1>6. pipe.nread \in 0..(UINT - 1) /\ pipe.nwrite \in 0..(UINT - 1)
  BY DEF PipeType, PipeRec
<1>7. ((pipe.nwrite - pipe.nread) % UINT) + Written(p) < UINT
  BY <1>3, <1>4 DEF Count
<1>8. (((pipe.nwrite + Written(p)) % UINT) - pipe.nread) % UINT = ((pipe.nwrite - pipe.nread) % UINT) + Written(p)
  BY <1>3, <1>4, <1>6, <1>7, RingPut
<1>9. Count' = Count + Written(p)
  BY <1>5, <1>8 DEF Count
<1> QED
  BY <1>4, <1>9, <1>3

\* pipewrite() keeps the types and stays within the pipe.
LEMMA WriteFrame ==
  ASSUME TableType, PipeType, NEW p \in Slot, pipewrite(p)
  PROVE  Foreign(Common \cup InPipe, {"nread", "nwrite"}) /\ PipeType'
<1> DEFINE L == Common \cup InPipe
           K == {"nread", "nwrite"}
<1>0. L \in SUBSET Label /\ {"user", "pipewrite", "pipewrite_sleep"} \subseteq L
  BY DEF Common, InPipe, Label
<1>1. /\ pc[p] = "pipewrite" /\ UNCHANGED <<pid, parent, killed, chan, nextpid, ofile>>
      /\ Written(p) \in Int /\ Left(p) \in Int /\ Room \in Int
      /\ UNCHANGED state \/ wakeup(<<"nread", 0>>)
      /\ \/ Return(p)
         \/ loc' = [loc EXCEPT ![p].i = @ + Written(p)] /\ Goto(p, "pipewrite_sleep")
  BY WriteIs
<1>2. StateStep(K)
  BY <1>1, StateSame, StateWoken
<1>3. Written(p) \in Nat
  BY WriteCount
<1>4. PcStep(L)
  <2>1. CASE Return(p)
    BY <1>0, <1>1, <2>1, PcReturn
  <2>2. CASE loc' = [loc EXCEPT ![p].i = @ + Written(p)] /\ Goto(p, "pipewrite_sleep")
    <3> DEFINE x == [np |-> loc[p].np, i |-> loc[p].i + Written(p), n |-> loc[p].n]
    <3>1. loc[p].i + Written(p) \in Nat
      BY <1>3 DEF TableType, Locals
    <3>2. loc' = [loc EXCEPT ![p] = x] /\ x \in Locals
      BY <2>2, <3>1, LocExcept
    <3> HIDE DEF x
    <3> QED
      BY <1>0, <1>1, <2>2, <3>2, PcGoto
  <2> QED
    BY <1>1, <2>1, <2>2
<1>5. pipe' \in PipeRec
  <2> DEFINE w == (pipe.nwrite + Written(p)) % UINT
             d == Filled(pipe.data, sent, Written(p))
  <2>1. w \in 0..(UINT - 1)
    <3>1. pipe.nwrite + Written(p) \in Int
      BY <1>3, SlotFacts DEF PipeType, PipeRec
    <3> QED
      BY <3>1, UintMod
  <2>2. d \in [0..(PIPESIZE - 1) -> Nat]
    BY <1>1, FilledType
  <2>3. pipe' = [pipe EXCEPT !.data = d, !.nwrite = w]
    BY WriteIs DEF Wrote
  <2> HIDE DEF w, d
  <2> QED
    BY <2>1, <2>2, <2>3 DEF PipeType, PipeRec
<1>6. sent' \in 0..(2 * PIPESIZE - 1)
  <2>1. sent + Written(p) \in Int /\ 2 * PIPESIZE \in Nat \ {0}
    BY <1>3, PipeAssumption DEF PipeType
  <2>2. (sent + Written(p)) % (2 * PIPESIZE) \in 0..(2 * PIPESIZE - 1)
    BY <2>1, ModDiv
  <2> QED
    BY <2>2, WriteIs
<1>7. cut' \in BOOLEAN
  BY WriteIs
<1>8. \A q \in Slot : pc'[q] \in {"pipewrite", "pipewrite_sleep"} => loc'[q].i <= loc'[q].n
  <2>1. CASE Return(p)
    BY <2>1 DEF Return, Goto, TableType, PipeType
  <2>2. CASE loc' = [loc EXCEPT ![p].i = @ + Written(p)] /\ Goto(p, "pipewrite_sleep")
    <3>1. /\ \A q \in Slot : q # p => pc'[q] = pc[q] /\ loc'[q] = loc[q]
          /\ loc'[p].i = loc[p].i + Written(p) /\ loc'[p].n = loc[p].n
      BY <2>2 DEF TableType, Locals, Goto
    <3>2. loc[p].i \in Nat /\ loc[p].n \in Nat
      BY DEF TableType, Locals
    <3>3. loc'[p].i <= loc'[p].n
      BY <3>1, <3>2, WriteCount DEF Left
    <3> QED
      BY <3>1, <3>3 DEF PipeType
  <2> QED
    BY <1>1, <2>1, <2>2
<1>9. Count' <= PIPESIZE
  BY WriteCount
<1> QED
  BY <1>1, <1>2, <1>4, <1>5, <1>6, <1>7, <1>8, <1>9 DEF Foreign, PipeType, TableType

\* The other steps of the pipe.
LEMMA ReadPipeIs ==
  ASSUME TableType, PipeType, NEW p \in Slot, piperead(p)
  PROVE  /\ state[p] = "RUNNING" /\ pc[p] = "piperead" /\ PipeFree
         /\ UNCHANGED <<pid, parent, killed, chan, nextpid, ofile, memVars>>
         /\ \/ /\ Count = 0 /\ pipe.writeopen
               /\ IF killed[p] THEN Return(p) ELSE Goto(p, "piperead_sleep") /\ UNCHANGED loc
               /\ UNCHANGED <<state, pipeVars>>
            \/ /\ Count > 0 \/ ~pipe.writeopen
               /\ \E k \in Nat : /\ k = (IF loc[p].n <= Count THEN loc[p].n ELSE Count) /\ k <= Count
                                 /\ pipe' = [pipe EXCEPT !.nread = (@ + k) % UINT]
                                 /\ pipe' \in PipeRec /\ Count' = Count - k
               /\ cut' = (cut /\ Count > loc[p].n)
               /\ wakeup(<<"nwrite", 0>>)
               /\ Return(p) /\ sent' = sent
<1>1. /\ state[p] = "RUNNING" /\ pc[p] = "piperead" /\ PipeFree
      /\ UNCHANGED <<pid, parent, killed, chan, nextpid, ofile, memVars>>
  BY DEF piperead, Running
<1>2. CASE /\ Count = 0 /\ pipe.writeopen
           /\ IF killed[p] THEN Return(p) ELSE Goto(p, "piperead_sleep") /\ UNCHANGED loc
           /\ UNCHANGED <<state, pipeVars>>
  BY <1>1, <1>2
<1>3. CASE /\ Count > 0 \/ ~pipe.writeopen
           /\ LET k == IF loc[p].n <= Count THEN loc[p].n ELSE Count
              IN  pipe' = [pipe EXCEPT !.nread = (@ + k) % UINT]
           /\ cut' = (cut /\ Count > loc[p].n)
           /\ wakeup(<<"nwrite", 0>>)
           /\ Return(p)
           /\ UNCHANGED sent
  <2> DEFINE k == IF loc[p].n <= Count THEN loc[p].n ELSE Count
  <2>1. pipe' = [pipe EXCEPT !.nread = (@ + k) % UINT]
    BY <1>3
  <2>2. UINT \in Nat \ {0} /\ Count \in Nat
    BY CountIs, SlotFacts
  <2>3. k \in Nat /\ k <= Count
    BY <2>2 DEF TableType, Locals
  <2>4. k = IF loc[p].n <= Count THEN loc[p].n ELSE Count
    OBVIOUS
  <2> HIDE DEF k
  <2>5. pipe.nread \in 0..(UINT - 1) /\ pipe.nwrite \in 0..(UINT - 1)
    BY DEF PipeType, PipeRec
  <2>6. k <= (pipe.nwrite - pipe.nread) % UINT
    BY <2>3 DEF Count
  <2>7. /\ (pipe.nread + k) % UINT \in 0..(UINT - 1)
        /\ (pipe.nwrite - ((pipe.nread + k) % UINT)) % UINT = ((pipe.nwrite - pipe.nread) % UINT) - k
    BY <2>2, <2>3, <2>5, <2>6, RingTake
  <2>8. /\ pipe'.nread = (pipe.nread + k) % UINT /\ pipe'.nwrite = pipe.nwrite
        /\ pipe' \in PipeRec
    BY <2>1, <2>7 DEF PipeType, PipeRec
  <2>9. Count' = Count - k
    BY <2>7, <2>8 DEF Count
  <2> QED
    BY <1>1, <1>3, <2>1, <2>3, <2>4, <2>8, <2>9
<1> QED
  BY <1>2, <1>3 DEF piperead

\* What pipealloc() and the two halves of pipeclose() make of the pipe.
NewPipe == [pipe EXCEPT !.used = TRUE, !.readopen = TRUE, !.writeopen = TRUE, !.nread = 0, !.nwrite = 0]
Closing(p) == IF loc[p].i = 1 THEN [pipe EXCEPT !.writeopen = FALSE] ELSE [pipe EXCEPT !.readopen = FALSE]
Closed(p) == IF ~Closing(p).readopen /\ ~Closing(p).writeopen THEN NoPipe ELSE Closing(p)

\* These are pipes, and closing an end leaves the bytes alone.
LEMMA PipeRecs ==
  ASSUME PipeType, NEW p \in Slot
  PROVE  /\ NewPipe \in PipeRec /\ NoPipe \in PipeRec /\ Closing(p) \in PipeRec /\ Closed(p) \in PipeRec
         /\ NewPipe.nread = 0 /\ NewPipe.nwrite = 0 /\ NewPipe.used /\ NewPipe.readopen /\ NewPipe.writeopen
         /\ NoPipe.nread = 0 /\ NoPipe.nwrite = 0 /\ ~NoPipe.used /\ ~NoPipe.readopen /\ ~NoPipe.writeopen
         /\ Closing(p).nread = pipe.nread /\ Closing(p).nwrite = pipe.nwrite /\ Closing(p).data = pipe.data
         /\ Closing(p).used = pipe.used
         /\ Closing(p).readopen = (pipe.readopen /\ loc[p].i = 1)
         /\ Closing(p).writeopen = (pipe.writeopen /\ loc[p].i # 1)
<1>1. 0 \in 0..(UINT - 1) /\ pipe \in PipeRec
  BY SlotFacts DEF PipeType
<1>2. /\ NewPipe \in PipeRec /\ NewPipe.nread = 0 /\ NewPipe.nwrite = 0
      /\ NewPipe.used /\ NewPipe.readopen /\ NewPipe.writeopen
  BY <1>1 DEF NewPipe, PipeRec
<1>3. /\ NoPipe \in PipeRec /\ NoPipe.nread = 0 /\ NoPipe.nwrite = 0
      /\ ~NoPipe.used /\ ~NoPipe.readopen /\ ~NoPipe.writeopen
  BY <1>1 DEF NoPipe, PipeRec
<1>4. CASE loc[p].i = 1
  <2>1. Closing(p) = [pipe EXCEPT !.writeopen = FALSE]
    BY <1>4 DEF Closing
  <2>2. /\ Closing(p) \in PipeRec
        /\ Closing(p).nread = pipe.nread /\ Closing(p).nwrite = pipe.nwrite /\ Closing(p).data = pipe.data
        /\ Closing(p).used = pipe.used /\ Closing(p).readopen = pipe.readopen /\ Closing(p).writeopen = FALSE
    BY <1>1, <2>1 DEF PipeRec
  <2> QED
    BY <1>1, <1>2, <1>3, <1>4, <2>2 DEF Closed, PipeRec
<1>5. CASE loc[p].i # 1
  <2>1. Closing(p) = [pipe EXCEPT !.readopen = FALSE]
    BY <1>5 DEF Closing
  <2>2. /\ Closing(p) \in PipeRec
        /\ Closing(p).nread = pipe.nread /\ Closing(p).nwrite = pipe.nwrite /\ Closing(p).data = pipe.data
        /\ Closing(p).used = pipe.used /\ Closing(p).writeopen = pipe.writeopen /\ Closing(p).readopen = FALSE
    BY <1>1, <2>1 DEF PipeRec
  <2> QED
    BY <1>1, <1>2, <1>3, <1>5, <2>2 DEF Closed, PipeRec
<1> QED
  BY <1>4, <1>5

\* pipeclose() closes one end, wakes the other and frees the pipe after the second.
LEMMA CloseIs ==
  ASSUME NEW p \in Slot, pipeclose(p)
  PROVE  /\ state[p] = "RUNNING" /\ pc[p] = "pipeclose" /\ PipeFree
         /\ UNCHANGED <<pid, parent, killed, chan, nextpid, ofile, kstack, vm, sz, spare>>
         /\ pipe' = Closed(p)
         /\ wakeup(IF loc[p].i = 1 THEN <<"nread", 0>> ELSE <<"nwrite", 0>>)
         /\ IF ~Closing(p).readopen /\ ~Closing(p).writeopen
            THEN sent' = 0 /\ cut' = FALSE /\ nfree' = nfree + 1
            ELSE sent' = sent /\ cut' = (cut /\ loc[p].i # 1) /\ nfree' = nfree
         /\ Goto(p, IF loc[p].n = 1 THEN "exit" ELSE "user")
         /\ loc' = [loc EXCEPT ![p] = NoLoc]
<1>1. /\ state[p] = "RUNNING" /\ pc[p] = "pipeclose" /\ PipeFree
      /\ UNCHANGED <<pid, parent, killed, chan, nextpid, ofile, kstack, vm, sz, spare>>
      /\ Goto(p, IF loc[p].n = 1 THEN "exit" ELSE "user")
      /\ loc' = [loc EXCEPT ![p] = NoLoc]
  BY DEF pipeclose, Running
<1>2. /\ pipe' = Closed(p)
      /\ wakeup(IF loc[p].i = 1 THEN <<"nread", 0>> ELSE <<"nwrite", 0>>)
      /\ IF ~Closing(p).readopen /\ ~Closing(p).writeopen
         THEN sent' = 0 /\ cut' = FALSE /\ nfree' = nfree + 1
         ELSE sent' = sent /\ cut' = (cut /\ loc[p].i # 1) /\ nfree' = nfree
  BY DEF pipeclose, Closed, Closing
<1> QED
  BY <1>1, <1>2

\* Every step of a process on the pipe keeps the types and stays within the pipe.
LEMMA PipeFrame ==
  ASSUME TableType, PipeType, NEW p \in Slot, PipeStep(p)
  PROVE  /\ Foreign(Common \cup InPipe, {"nread", "nwrite"}) /\ PipeType'
         /\ UNCHANGED <<kstack, vm, sz, spare>>
<1> DEFINE L == Common \cup InPipe
           K == {"nread", "nwrite"}
           W == {"pipewrite", "pipewrite_sleep"}
<1>1. /\ IOSizes \subseteq Nat \ {0} /\ L \in SUBSET Label /\ K \in SUBSET Kind
      /\ {"user", "exit"} \cup W \cup {"piperead", "piperead_sleep", "pipeclose"} \subseteq L
      /\ PIPESIZE \in Nat /\ 0 \in 0..(2 * PIPESIZE - 1) /\ 0 % UINT = 0
  BY PipeAssumption, ModNear, SlotFacts DEF Label, Kind, Common, InPipe
<1> SUFFICES Foreign(L, K) /\ PipeType' /\ UNCHANGED <<kstack, vm, sz, spare>>
  OBVIOUS
<1> HIDE DEF L, K
<1>2. CASE sys_pipe(p)
  <2>1. /\ UNCHANGED <<ptable, pc, loc, kstack, vm, sz, spare>>
        /\ pipe' = NewPipe /\ ofile' = [ofile EXCEPT ![p] = {"r", "w"}]
        /\ sent' = 0 /\ cut' = FALSE
    BY <1>2 DEF sys_pipe, NewPipe
  <2>2. PcStep(L) /\ StateStep(K)
    BY <2>1, PcSame, StateSame DEF ptable
  <2>3. pipe' \in PipeRec /\ Count' <= PIPESIZE
    BY <1>1, <2>1, PipeRecs DEF Count
  <2> QED
    BY <1>1, <2>1, <2>2, <2>3 DEF Foreign, ptable, PipeType, TableType, L, K
<1>3. ASSUME NEW n \in IOSizes, NEW l \in {"pipewrite", "piperead"},
             InUser(p), Goto(p, l), loc' = [loc EXCEPT ![p] = [NoLoc EXCEPT !.n = n]],
             UNCHANGED <<ptable, ofile, memVars, pipeVars>>
      PROVE  Foreign(L, K) /\ PipeType' /\ UNCHANGED <<kstack, vm, sz, spare>>
  <2> DEFINE x == [np |-> 0, i |-> 0, n |-> n]
  <2>1. n \in Nat
    BY <1>1
  <2>2. x \in Locals /\ loc' = [loc EXCEPT ![p] = x] /\ x.i <= x.n
    <3>1. [NoLoc EXCEPT !.n = n] = x /\ x \in Locals
      BY <2>1, NoLocIs
    <3>2. 0 <= n
      BY <2>1
    <3> QED
      BY <1>3, <3>1, <3>2
  <2> HIDE DEF x
  <2>3. PcStep(L)
    BY <1>1, <1>3, <2>2, PcGoto DEF InUser
  <2>4. StateStep(K)
    BY <1>3, StateSame DEF ptable
  <2>5. /\ \A q \in Slot : q # p => pc'[q] = pc[q] /\ loc'[q] = loc[q]
        /\ loc'[p].i <= loc'[p].n
    BY <1>3, <2>2 DEF Goto, TableType
  <2> QED
    BY <1>3, <2>3, <2>4, <2>5 DEF Foreign, ptable, pipeVars, memVars, PipeType, TableType, Count
<1>4. CASE \E n \in IOSizes : sys_write(p, n) \/ sys_read(p, n)
  <2>1. PICK n \in IOSizes : sys_write(p, n) \/ sys_read(p, n)
    BY <1>4
  <2>2. /\ InUser(p) /\ (Goto(p, "pipewrite") \/ Goto(p, "piperead"))
        /\ loc' = [loc EXCEPT ![p] = [NoLoc EXCEPT !.n = n]]
        /\ UNCHANGED <<ptable, ofile, memVars, pipeVars>>
    BY <2>1 DEF sys_write, sys_read
  <2> QED
    BY <2>2, <1>3
<1>5. ASSUME NEW l \in {"pipewrite", "piperead"}, NEW k \in K, state[p] = "RUNNING",
             pc[p] \in {"pipewrite_sleep", "piperead_sleep"}, l = "pipewrite" => pc[p] \in W,
             sleep(p, <<k, 0>>), Goto(p, l),
             UNCHANGED <<pid, parent, killed, nextpid, ofile, loc, panicked, memVars, pipeVars>>
      PROVE  Foreign(L, K) /\ PipeType' /\ UNCHANGED <<kstack, vm, sz, spare>>
  <2>1. PcStep(L)
    BY <1>1, <1>5, PcJump
  <2>2. StateStep(K)
    BY <1>1, <1>5, StateSlept
  <2>3. \A q \in Slot : pc'[q] \in W => pc[q] \in W
    BY <1>5 DEF Goto, TableType
  <2> QED
    BY <1>5, <2>1, <2>2, <2>3 DEF Foreign, pipeVars, memVars, PipeType, TableType, Count
<1>6. CASE pipewrite_sleep(p)
  <2>1. /\ state[p] = "RUNNING" /\ pc[p] = "pipewrite_sleep" /\ "nwrite" \in K
        /\ sleep(p, <<"nwrite", 0>>) /\ Goto(p, "pipewrite")
        /\ UNCHANGED <<pid, parent, killed, nextpid, ofile, loc, panicked, memVars, pipeVars>>
    BY <1>6 DEF pipewrite_sleep, Running, K
  <2> QED
    BY <2>1, <1>5
<1>7. CASE piperead_sleep(p)
  <2>1. /\ state[p] = "RUNNING" /\ pc[p] = "piperead_sleep" /\ "nread" \in K
        /\ sleep(p, <<"nread", 0>>) /\ Goto(p, "piperead")
        /\ UNCHANGED <<pid, parent, killed, nextpid, ofile, loc, panicked, memVars, pipeVars>>
    BY <1>7 DEF piperead_sleep, Running, K
  <2> QED
    BY <2>1, <1>5
<1>8. CASE piperead(p)
  <2>1. /\ pc[p] = "piperead" /\ UNCHANGED <<pid, parent, killed, chan, nextpid, ofile, memVars>>
        /\ Return(p) \/ (Goto(p, "piperead_sleep") /\ UNCHANGED loc)
        /\ UNCHANGED state \/ wakeup(<<"nwrite", 0>>)
        /\ pipe' \in PipeRec /\ Count' <= PIPESIZE /\ sent' = sent /\ cut' \in BOOLEAN
    <3>1. UNCHANGED pipeVars => pipe' \in PipeRec /\ Count' <= PIPESIZE /\ sent' = sent /\ cut' \in BOOLEAN
      BY DEF pipeVars, PipeType, Count
    <3>2. ASSUME NEW k \in Nat, Count' = Count - k
          PROVE  Count' <= PIPESIZE
      BY <3>2, CountIs, <1>1, SlotFacts DEF PipeType
    <3> QED
      BY <1>8, <3>1, <3>2, ReadPipeIs DEF PipeType
  <2>2. PcStep(L)
    BY <1>1, <2>1, PcJump, PcReturn
  <2>3. StateStep(K)
    BY <2>1, StateSame, StateWoken
  <2>4. \A q \in Slot : pc'[q] \in W => pc[q] = pc'[q] /\ loc'[q] = loc[q]
    BY <2>1 DEF Goto, Return, TableType
  <2> QED
    <3>1. Foreign(L, K)
      BY <2>1, <2>2, <2>3 DEF Foreign, TableType
    <3>2. PipeType'
      BY <2>1, <2>4 DEF PipeType
    <3> QED
      BY <2>1, <3>1, <3>2 DEF memVars
<1>9. CASE pipewrite(p)
  <2>1. UNCHANGED <<kstack, vm, sz, spare>>
    BY <1>9, WriteIs DEF memVars
  <2> QED
    BY <1>9, <2>1, WriteFrame DEF L, K
<1>10. CASE \E e \in {"r", "w"} : fileclose(p, e)
  <2>1. PICK e \in {"r", "w"} : fileclose(p, e)
    BY <1>10
  <2> DEFINE x == [np |-> 0, i |-> IF e = "w" THEN 1 ELSE 0, n |-> IF pc[p] = "exit" THEN 1 ELSE 0]
  <2>2. /\ UNCHANGED <<ptable, memVars, pipeVars>> /\ ofile' = [ofile EXCEPT ![p] = @ \ {e}]
        /\ UNCHANGED <<pc, loc>> \/ (Goto(p, "pipeclose") /\ loc' = [loc EXCEPT ![p] = x])
        /\ pc[p] \in {"user", "exit"}
    BY <2>1 DEF fileclose, InUser
  <2>3. x \in Locals
    BY NoLocIs
  <2> HIDE DEF x
  <2>4. PcStep(L)
    BY <1>1, <2>2, <2>3, PcSame, PcGoto
  <2>5. StateStep(K)
    BY <2>2, StateSame DEF ptable
  <2>6. \A q \in Slot : pc'[q] \in W => pc[q] = pc'[q] /\ loc'[q] = loc[q]
    BY <2>2 DEF Goto, TableType
  <2> QED
    <3>1. Foreign(L, K)
      BY <2>2, <2>4, <2>5 DEF Foreign, ptable, TableType
    <3>2. PipeType'
      BY <2>2, <2>6 DEF PipeType, pipeVars, Count
    <3> QED
      BY <2>2, <3>1, <3>2 DEF memVars
<1>11. CASE pipeclose(p)
  <2>1. /\ pc[p] = "pipeclose"
        /\ UNCHANGED <<pid, parent, killed, chan, nextpid, ofile, kstack, vm, sz, spare>>
        /\ pipe' = Closed(p)
        /\ wakeup(IF loc[p].i = 1 THEN <<"nread", 0>> ELSE <<"nwrite", 0>>)
        /\ sent' = 0 \/ sent' = sent
        /\ cut' \in BOOLEAN
        /\ Goto(p, IF loc[p].n = 1 THEN "exit" ELSE "user")
        /\ loc' = [loc EXCEPT ![p] = NoLoc]
    BY <1>11, CloseIs DEF PipeType
  <2>2. PcStep(L)
    BY <1>1, <2>1, NoLocIs, PcGoto
  <2>3. StateStep(K)
    BY <2>1, StateWoken
  <2>4. \A q \in Slot : pc'[q] \in W => pc[q] = pc'[q] /\ loc'[q] = loc[q]
    BY <2>1 DEF Goto, TableType
  <2>5. Count' <= PIPESIZE
    BY <1>1, <2>1, PipeRecs DEF Closed, Count, PipeType
  <2>6. pipe' \in PipeRec
    BY <2>1, PipeRecs
  <2> QED
    <3>1. Foreign(L, K)
      BY <2>1, <2>2, <2>3 DEF Foreign, TableType
    <3>2. PipeType'
      BY <1>1, <2>1, <2>4, <2>5, <2>6 DEF PipeType
    <3> QED
      BY <2>1, <3>1, <3>2
<1> QED
  BY <1>2, <1>4, <1>6, <1>7, <1>8, <1>9, <1>10, <1>11 DEF PipeStep

-----------------------------------------------------------------------------
(* The buffer cache and the disk                                           *)

\* All buffers but b are as they were; b is r.
BufSet(b, r) ==
    /\ buf' \in [Buffer -> BufRec] /\ buf'[b] = r
    /\ \A c \in Buffer : c # b => buf'[c] = buf[c]

\* A buffer is its fields.
LEMMA BufIs ==
  ASSUME NEW r \in BufRec
  PROVE  r = [blockno |-> r.blockno, refcnt |-> r.refcnt, valid |-> r.valid,
              dirty |-> r.dirty, data |-> r.data, owner |-> r.owner]
  BY DEF BufRec

\* A buffer with one field replaced is a buffer.
LEMMA BufPut ==
  ASSUME NEW r \in BufRec
  PROVE  /\ \A n \in Block \cup {0} :
              LET s == [r EXCEPT !.blockno = n]
              IN  /\ s \in BufRec /\ s.blockno = n /\ s.refcnt = r.refcnt /\ s.valid = r.valid
                  /\ s.dirty = r.dirty /\ s.data = r.data /\ s.owner = r.owner
         /\ \A n \in Int :
              LET s == [r EXCEPT !.refcnt = n]
              IN  /\ s \in BufRec /\ s.blockno = r.blockno /\ s.refcnt = n /\ s.valid = r.valid
                  /\ s.dirty = r.dirty /\ s.data = r.data /\ s.owner = r.owner
         /\ \A n \in BOOLEAN :
              LET s == [r EXCEPT !.valid = n]
              IN  /\ s \in BufRec /\ s.blockno = r.blockno /\ s.refcnt = r.refcnt /\ s.valid = n
                  /\ s.dirty = r.dirty /\ s.data = r.data /\ s.owner = r.owner
         /\ \A n \in BOOLEAN :
              LET s == [r EXCEPT !.dirty = n]
              IN  /\ s \in BufRec /\ s.blockno = r.blockno /\ s.refcnt = r.refcnt /\ s.valid = r.valid
                  /\ s.dirty = n /\ s.data = r.data /\ s.owner = r.owner
         /\ \A n \in Value :
              LET s == [r EXCEPT !.data = n]
              IN  /\ s \in BufRec /\ s.blockno = r.blockno /\ s.refcnt = r.refcnt /\ s.valid = r.valid
                  /\ s.dirty = r.dirty /\ s.data = n /\ s.owner = r.owner
         /\ \A n \in 0..NPROC :
              LET s == [r EXCEPT !.owner = n]
              IN  /\ s \in BufRec /\ s.blockno = r.blockno /\ s.refcnt = r.refcnt /\ s.valid = r.valid
                  /\ s.dirty = r.dirty /\ s.data = r.data /\ s.owner = n
  BY DEF BufRec

\* An assignment to a buffer leaves the others alone.
LEMMA BufExcept ==
  ASSUME DiskType, NEW b \in Buffer, NEW r \in BufRec, buf' = [buf EXCEPT ![b] = r]
  PROVE  BufSet(b, r)
  BY DEF DiskType, BufSet

\* The fields of a buffer.
LEMMA BufFields ==
  ASSUME DiskType, NEW b \in Buffer
  PROVE  /\ buf[b] \in BufRec
         /\ buf[b].blockno \in Block \cup {0} /\ buf[b].refcnt \in Int /\ buf[b].valid \in BOOLEAN
         /\ buf[b].dirty \in BOOLEAN /\ buf[b].data \in Value /\ buf[b].owner \in 0..NPROC
<1>1. buf[b] \in BufRec
  BY DEF DiskType
<1> QED
  BY <1>1 DEF BufRec

\* bget() recycles a buffer that nobody refers to and that is not dirty.
LEMMA VictimIs ==
  ASSUME DiskType, \E c \in Buffer : Recyclable(c)
  PROVE  Victim \in Buffer /\ Recyclable(Victim)
<1> DEFINE S == {j \in DOMAIN lru : Recyclable(lru[j])}
<1>1. PICK c \in Buffer : Recyclable(c)
  OBVIOUS
<1>2. PICK i \in Buffer : lru[i] = c
  BY DEF DiskType
<1>3. DOMAIN lru = Buffer /\ Buffer \subseteq 0..NBUF /\ NBUF \in Nat
  BY DiskAssumption DEF DiskType, Buffer
<1>4. S # {} /\ S \in SUBSET (0..NBUF)
  BY <1>1, <1>2, <1>3
<1>5. Max(S) \in S
  <2> HIDE DEF S
  <2> QED
    BY <1>3, <1>4, MaxIs
<1>6. Max(S) \in Buffer /\ Recyclable(lru[Max(S)])
  BY <1>3, <1>5
<1>7. Victim = lru[Max(S)]
  BY DEF Victim
<1> QED
  BY <1>6, <1>7 DEF DiskType

\* bget takes a reference to the buffer of the block, or makes one its buffer.
Taken(b) == [blockno |-> buf[b].blockno, refcnt |-> buf[b].refcnt + 1, valid |-> buf[b].valid,
             dirty |-> buf[b].dirty, data |-> buf[b].data, owner |-> buf[b].owner]
Recycled(b, n) == [blockno |-> n, refcnt |-> 1, valid |-> FALSE, dirty |-> FALSE,
                   data |-> buf[b].data, owner |-> buf[b].owner]

\* bget() takes the buffer that caches the block, else recycles one.
LEMMA BgetIs ==
  ASSUME TableType, DiskType, NEW p \in Slot, NEW n \in Block, bget(p, n)
  PROVE  /\ state[p] = "RUNNING" /\ pc[p] = "user"
         /\ UNCHANGED <<ptable, ofile, lru, idequeue, disk, stored>>
         /\ Goto(p, "acquiresleep")
         /\ \E b \in Buffer :
              /\ loc' = [loc EXCEPT ![p] = [np |-> 0, i |-> b, n |-> 0]]
              /\ \/ buf[b].blockno = n /\ BufSet(b, Taken(b))
                 \/ /\ \A c \in Buffer : buf[c].blockno # n
                    /\ Recyclable(b) /\ BufSet(b, Recycled(b, n))
<1>1. /\ state[p] = "RUNNING" /\ pc[p] = "user"
      /\ UNCHANGED <<ptable, ofile, lru, idequeue, disk, stored>>
      /\ Goto(p, "acquiresleep")
  BY DEF bget, InUser, Running
<1> DEFINE b == IF Cached(n) # {} THEN CHOOSE c \in Cached(n) : TRUE ELSE Victim
<1>2. /\ Cached(n) # {} \/ \E c \in Buffer : Recyclable(c)
      /\ buf' = IF Cached(n) # {} THEN [buf EXCEPT ![b].refcnt = @ + 1]
                ELSE [buf EXCEPT ![b] = [@ EXCEPT !.blockno = n, !.valid = FALSE, !.dirty = FALSE, !.refcnt = 1]]
      /\ loc' = [loc EXCEPT ![p] = [NoLoc EXCEPT !.i = b]]
  BY DEF bget
<1>3. /\ b \in Buffer
      /\ Cached(n) # {} => buf[b].blockno = n
      /\ Cached(n) = {} => Recyclable(b) /\ \A c \in Buffer : buf[c].blockno # n
  <2>1. CASE Cached(n) # {}
    <3>1. b \in Cached(n)
      BY <2>1
    <3> QED
      BY <2>1, <3>1 DEF Cached
  <2>2. CASE Cached(n) = {}
    <3>1. b = Victim
      BY <2>2
    <3> QED
      BY <2>2, <3>1, <1>2, VictimIs DEF Cached
  <2> QED
    BY <2>1, <2>2
<1> HIDE DEF b
<1>4. loc' = [loc EXCEPT ![p] = [np |-> 0, i |-> b, n |-> 0]]
  <2>1. b \in Nat
    BY <1>3 DEF Buffer
  <2> QED
    BY <2>1, <1>2, NoLocIs
<1>5. CASE Cached(n) # {}
  <2>1. Taken(b) \in BufRec
    BY <1>3, BufFields DEF Taken, BufRec
  <2>2. \A r \in BufRec : [r EXCEPT !.refcnt = r.refcnt + 1] =
             [blockno |-> r.blockno, refcnt |-> r.refcnt + 1, valid |-> r.valid,
              dirty |-> r.dirty, data |-> r.data, owner |-> r.owner]
    BY DEF BufRec
  <2>3. buf' = [buf EXCEPT ![b] = [buf[b] EXCEPT !.refcnt = buf[b].refcnt + 1]]
    BY <1>2, <1>3, <1>5 DEF DiskType
  <2>4. buf' = [buf EXCEPT ![b] = Taken(b)]
    BY <1>3, <2>2, <2>3, BufFields DEF Taken
  <2> QED
    BY <1>1, <1>3, <1>4, <1>5, <2>1, <2>4, BufExcept
<1>6. CASE Cached(n) = {}
  <2>1. Recycled(b, n) \in BufRec
    BY <1>3, BufFields DEF Recycled, BufRec
  <2>2. \A r \in BufRec : [r EXCEPT !.blockno = n, !.valid = FALSE, !.dirty = FALSE, !.refcnt = 1] =
             [blockno |-> n, refcnt |-> 1, valid |-> FALSE,
              dirty |-> FALSE, data |-> r.data, owner |-> r.owner]
    <3> TAKE r \in BufRec
    <3> DEFINE r1 == [r EXCEPT !.blockno = n]
               r2 == [r1 EXCEPT !.valid = FALSE]
               r3 == [r2 EXCEPT !.dirty = FALSE]
               r4 == [r3 EXCEPT !.refcnt = 1]
    <3>1. r1 \in BufRec /\ r1.blockno = n /\ r1.data = r.data /\ r1.owner = r.owner
      BY BufPut
    <3> HIDE DEF r1
    <3>2. /\ r2 \in BufRec /\ r2.blockno = n /\ r2.data = r.data /\ r2.owner = r.owner
          /\ r2.valid = FALSE
      BY <3>1, BufPut
    <3> HIDE DEF r2
    <3>3. /\ r3 \in BufRec /\ r3.blockno = n /\ r3.data = r.data /\ r3.owner = r.owner
          /\ r3.valid = FALSE /\ r3.dirty = FALSE
      BY <3>2, BufPut
    <3> HIDE DEF r3
    <3>4. /\ r4 \in BufRec /\ r4.blockno = n /\ r4.data = r.data /\ r4.owner = r.owner
          /\ r4.valid = FALSE /\ r4.dirty = FALSE /\ r4.refcnt = 1
      BY <3>3, BufPut
    <3> HIDE DEF r4
    <3>5. r4 = [blockno |-> n, refcnt |-> 1, valid |-> FALSE,
                dirty |-> FALSE, data |-> r.data, owner |-> r.owner]
      BY <3>4, BufIs
    <3> QED
      BY <3>5 DEF r1, r2, r3, r4
  <2>3. buf' = [buf EXCEPT ![b] = [buf[b] EXCEPT !.blockno = n, !.valid = FALSE, !.dirty = FALSE, !.refcnt = 1]]
    BY <1>2, <1>3, <1>6 DEF DiskType
  <2>4. buf' = [buf EXCEPT ![b] = Recycled(b, n)]
    BY <1>3, <2>2, <2>3, BufFields DEF Recycled
  <2> QED
    BY <1>1, <1>3, <1>4, <1>6, <2>1, <2>4, BufExcept
<1> QED
  BY <1>5, <1>6

\* What the other steps make of a buffer.
Seized(b, p) == [blockno |-> buf[b].blockno, refcnt |-> buf[b].refcnt, valid |-> buf[b].valid,
                  dirty |-> buf[b].dirty, data |-> buf[b].data, owner |-> p]
Kept(b, v) == [blockno |-> buf[b].blockno, refcnt |-> buf[b].refcnt, valid |-> buf[b].valid,
               dirty |-> TRUE, data |-> v, owner |-> buf[b].owner]
Dirtied(b) == [blockno |-> buf[b].blockno, refcnt |-> buf[b].refcnt, valid |-> buf[b].valid,
               dirty |-> TRUE, data |-> buf[b].data, owner |-> buf[b].owner]
Unlocked(b) == [blockno |-> buf[b].blockno, refcnt |-> buf[b].refcnt, valid |-> buf[b].valid,
                dirty |-> buf[b].dirty, data |-> buf[b].data, owner |-> 0]
Dropped(b) == [blockno |-> buf[b].blockno, refcnt |-> buf[b].refcnt - 1, valid |-> buf[b].valid,
               dirty |-> buf[b].dirty, data |-> buf[b].data, owner |-> buf[b].owner]
Served(b, v) == [blockno |-> buf[b].blockno, refcnt |-> buf[b].refcnt, valid |-> TRUE,
                 dirty |-> FALSE, data |-> v, owner |-> buf[b].owner]

\* Each assignment of bio.c and ide.c in terms of the records above.
LEMMA BufSteps ==
  ASSUME DiskType, NEW b \in Buffer, NEW p \in 0..NPROC, NEW v \in Value
  PROVE  /\ buf' = [buf EXCEPT ![b].owner = p] => BufSet(b, Seized(b, p))
         /\ buf' = [buf EXCEPT ![b] = [@ EXCEPT !.data = v, !.dirty = TRUE]] => BufSet(b, Kept(b, v))
         /\ buf' = [buf EXCEPT ![b].dirty = TRUE] => BufSet(b, Dirtied(b))
         /\ buf' = [buf EXCEPT ![b].owner = 0] => BufSet(b, Unlocked(b))
         /\ buf' = [buf EXCEPT ![b].refcnt = @ - 1] => BufSet(b, Dropped(b))
         /\ buf' = [buf EXCEPT ![b] = [@ EXCEPT !.data = v, !.valid = TRUE, !.dirty = FALSE]]
              => BufSet(b, Served(b, v))
<1>1. buf[b] \in BufRec /\ 0 \in 0..NPROC /\ buf[b].refcnt - 1 \in Int
  BY BufFields, SlotFacts
<1>2. ASSUME buf' = [buf EXCEPT ![b].owner = p]
      PROVE  BufSet(b, Seized(b, p))
  <2> DEFINE r == [buf[b] EXCEPT !.owner = p]
  <2>1. buf' = [buf EXCEPT ![b] = r]
    BY <1>2 DEF DiskType
  <2>2. r \in BufRec /\ r = Seized(b, p)
    BY <1>1, BufPut, BufIs DEF Seized
  <2> QED
    BY <2>1, <2>2, BufExcept
<1>3. ASSUME buf' = [buf EXCEPT ![b] = [@ EXCEPT !.data = v, !.dirty = TRUE]]
      PROVE  BufSet(b, Kept(b, v))
  <2> DEFINE r1 == [buf[b] EXCEPT !.data = v]
             r2 == [r1 EXCEPT !.dirty = TRUE]
  <2>1. buf' = [buf EXCEPT ![b] = r2]
    BY <1>3 DEF DiskType
  <2>2. /\ r1 \in BufRec /\ r1.blockno = buf[b].blockno /\ r1.refcnt = buf[b].refcnt
        /\ r1.valid = buf[b].valid /\ r1.data = v /\ r1.owner = buf[b].owner
    BY <1>1, BufPut
  <2> HIDE DEF r1
  <2>3. /\ r2 \in BufRec /\ r2.blockno = buf[b].blockno /\ r2.refcnt = buf[b].refcnt
        /\ r2.valid = buf[b].valid /\ r2.data = v /\ r2.owner = buf[b].owner /\ r2.dirty = TRUE
    BY <2>2, BufPut
  <2> HIDE DEF r2
  <2>4. r2 = Kept(b, v)
    BY <2>3, BufIs DEF Kept
  <2> QED
    BY <2>1, <2>3, <2>4, BufExcept
<1>4. ASSUME buf' = [buf EXCEPT ![b].dirty = TRUE]
      PROVE  BufSet(b, Dirtied(b))
  <2> DEFINE r == [buf[b] EXCEPT !.dirty = TRUE]
  <2>1. buf' = [buf EXCEPT ![b] = r]
    BY <1>4 DEF DiskType
  <2>2. /\ r \in BufRec /\ r.blockno = buf[b].blockno /\ r.refcnt = buf[b].refcnt
        /\ r.valid = buf[b].valid /\ r.data = buf[b].data /\ r.owner = buf[b].owner /\ r.dirty = TRUE
    BY <1>1, BufPut
  <2> HIDE DEF r
  <2>3. r = Dirtied(b)
    BY <2>2, BufIs DEF Dirtied
  <2> QED
    BY <2>1, <2>2, <2>3, BufExcept
<1>5. ASSUME buf' = [buf EXCEPT ![b].owner = 0]
      PROVE  BufSet(b, Unlocked(b))
  <2> DEFINE r == [buf[b] EXCEPT !.owner = 0]
  <2>1. buf' = [buf EXCEPT ![b] = r]
    BY <1>5 DEF DiskType
  <2>2. r \in BufRec /\ r = Unlocked(b)
    BY <1>1, BufPut, BufIs DEF Unlocked
  <2> QED
    BY <2>1, <2>2, BufExcept
<1>6. ASSUME buf' = [buf EXCEPT ![b].refcnt = @ - 1]
      PROVE  BufSet(b, Dropped(b))
  <2> DEFINE r == [buf[b] EXCEPT !.refcnt = buf[b].refcnt - 1]
  <2>1. buf' = [buf EXCEPT ![b] = r]
    BY <1>6 DEF DiskType
  <2>2. r \in BufRec /\ r = Dropped(b)
    BY <1>1, BufPut, BufIs DEF Dropped
  <2> QED
    BY <2>1, <2>2, BufExcept
<1>7. ASSUME buf' = [buf EXCEPT ![b] = [@ EXCEPT !.data = v, !.valid = TRUE, !.dirty = FALSE]]
      PROVE  BufSet(b, Served(b, v))
  <2> DEFINE r1 == [buf[b] EXCEPT !.data = v]
             r2 == [r1 EXCEPT !.valid = TRUE]
             r3 == [r2 EXCEPT !.dirty = FALSE]
  <2>1. buf' = [buf EXCEPT ![b] = r3]
    BY <1>7 DEF DiskType
  <2>2. /\ r1 \in BufRec /\ r1.blockno = buf[b].blockno /\ r1.refcnt = buf[b].refcnt
        /\ r1.data = v /\ r1.owner = buf[b].owner
    BY <1>1, BufPut
  <2> HIDE DEF r1
  <2>3. /\ r2 \in BufRec /\ r2.blockno = buf[b].blockno /\ r2.refcnt = buf[b].refcnt
        /\ r2.data = v /\ r2.owner = buf[b].owner /\ r2.valid = TRUE
    BY <2>2, BufPut
  <2> HIDE DEF r2
  <2>4. /\ r3 \in BufRec /\ r3.blockno = buf[b].blockno /\ r3.refcnt = buf[b].refcnt
        /\ r3.data = v /\ r3.owner = buf[b].owner /\ r3.valid = TRUE /\ r3.dirty = FALSE
    BY <2>3, BufPut
  <2> HIDE DEF r3
  <2>5. r3 = Served(b, v)
    BY <2>4, BufIs DEF Served
  <2> QED
    BY <2>1, <2>4, <2>5, BufExcept
<1> QED
  BY <1>2, <1>3, <1>4, <1>5, <1>6, <1>7

\* A buffer that moves to the front of the list leaves no other out.
LEMMA ToFrontIs ==
  ASSUME DiskType, NEW b \in Buffer
  PROVE  ToFront(b) \in [Buffer -> Buffer] /\ \A c \in Buffer : \E i \in Buffer : ToFront(b)[i] = c
<1> DEFINE i == CHOOSE j \in Buffer : lru[j] = b
<1>1. i \in Buffer /\ lru[i] = b
  BY DEF DiskType
<1>2. ToFront(b) = [j \in Buffer |-> IF j = 1 THEN b ELSE IF j <= i THEN lru[j - 1] ELSE lru[j]]
  BY DEF ToFront
<1> HIDE DEF i
<1>3. Buffer = 1..NBUF /\ NBUF \in Nat \ {0} /\ lru \in [Buffer -> Buffer]
  BY DiskAssumption DEF Buffer, DiskType
<1>4. ToFront(b) \in [Buffer -> Buffer]
  <2>1. \A j \in Buffer : (IF j = 1 THEN b ELSE IF j <= i THEN lru[j - 1] ELSE lru[j]) \in Buffer
    <3> TAKE j \in Buffer
    <3>1. j # 1 => j - 1 \in Buffer
      BY <1>3
    <3> QED
      BY <1>3, <3>1
  <2> QED
    BY <1>2, <2>1
<1>5. ASSUME NEW c \in Buffer
      PROVE  \E j \in Buffer : ToFront(b)[j] = c
  <2>1. PICK j \in Buffer : lru[j] = c
    BY DEF DiskType
  <2>2. CASE c = b
    <3>1. 1 \in Buffer
      BY <1>3
    <3> QED
      BY <1>2, <2>2, <3>1
  <2>3. CASE c # b /\ j < i
    <3>1. j + 1 \in Buffer /\ j + 1 # 1 /\ j + 1 <= i /\ (j + 1) - 1 = j
      BY <1>1, <1>3, <2>3
    <3>2. ToFront(b)[j + 1] = lru[(j + 1) - 1]
      BY <1>2, <3>1
    <3> QED
      BY <2>1, <3>1, <3>2
  <2>4. CASE c # b /\ j > i
    <3>1. j # 1 /\ ~ (j <= i)
      BY <1>1, <1>3, <2>4
    <3> QED
      BY <1>2, <2>1, <3>1
  <2>5. c # b => j # i
    BY <1>1, <2>1
  <2>6. i \in Nat /\ j \in Nat
    BY <1>1, <1>3
  <2> QED
    BY <2>2, <2>3, <2>4, <2>5, <2>6
<1> QED
  BY <1>4, <1>5

\* iderw() queues the buffer at its end and goes to wait.
LEMMA IderwFrame ==
  ASSUME TableType, DiskType, NEW p \in Slot, NEW b \in Buffer, iderw(p, b), state[p] = "RUNNING",
         pc[p] \in {"acquiresleep", "held"}, UNCHANGED loc
  PROVE  /\ StateStep({"buf", "lock"}) /\ PcStep(Common \cup InDisk)
         /\ idequeue' \in Seq(Buffer)
<1>1. /\ Common \cup InDisk \in SUBSET Label
      /\ {"acquiresleep", "held", "iderw"} \subseteq Common \cup InDisk
      /\ {"buf", "lock"} \in SUBSET Kind /\ b \in Nat /\ "buf" \in {"buf", "lock"}
  BY DEF Common, InDisk, Label, Kind, Buffer
<1>2. idequeue' = Append(idequeue, b) /\ sleep(p, <<"buf", b>>) /\ Goto(p, "iderw")
  BY DEF iderw
<1>3. StateStep({"buf", "lock"})
  BY <1>1, <1>2, StateSlept
<1>4. PcStep(Common \cup InDisk)
  BY <1>1, <1>2, PcJump
<1> QED
  BY <1>2, <1>3, <1>4 DEF DiskType

\* Every step of a process in bio.c and ide.c keeps the types and stays within the cache.
LEMMA DiskFrame ==
  ASSUME TableType, DiskType, NEW p \in Slot, DiskStep(p)
  PROVE  Foreign(Common \cup InDisk, {"buf", "lock"}) /\ DiskType'
<1> DEFINE L == Common \cup InDisk
           K == {"buf", "lock"}
           b == loc[p].i
           Rest == \A q \in Slot : pc'[q] \in InDisk => pc[q] \in InDisk /\ loc'[q] = loc[q]
<1>1. /\ L \in SUBSET Label /\ K \in SUBSET Kind /\ "lock" \in K
      /\ {"user"} \cup InDisk \subseteq L
      /\ \A c \in Buffer : c \in Nat
      /\ pc[p] \in InDisk => b \in Buffer
  BY DEF Label, Kind, Common, InDisk, Buffer, DiskType
<1> SUFFICES Foreign(L, K) /\ DiskType'
  OBVIOUS
<1>3. CASE \E n \in Block : bget(p, n)
  <2>1. PICK n \in Block : bget(p, n)
    BY <1>3
  <2>2. PICK c \in Buffer :
           /\ loc' = [loc EXCEPT ![p] = [np |-> 0, i |-> c, n |-> 0]]
           /\ buf' \in [Buffer -> BufRec]
    BY <2>1, BgetIs DEF BufSet
  <2>3. /\ pc[p] = "user" /\ UNCHANGED <<ptable, ofile, lru, idequeue, disk, stored>>
        /\ Goto(p, "acquiresleep")
    BY <2>1, BgetIs
  <2> DEFINE x == [np |-> 0, i |-> c, n |-> 0]
  <2>4. x \in Locals /\ x.i \in Buffer
    BY <1>1, NoLocIs
  <2> HIDE DEF x
  <2>5. PcStep(L)
    <3>1. "acquiresleep" \in L /\ "user" \in L
      BY DEF InDisk, Common
    <3> HIDE DEF L
    <3> QED
      BY <1>1, <2>2, <2>3, <2>4, <3>1, PcGoto DEF x
  <2>6. StateStep(K)
    BY <2>3, StateSame DEF ptable
  <2>7. \A q \in Slot : pc'[q] \in InDisk => loc'[q].i \in Buffer
    BY <2>2, <2>3, <2>4 DEF Goto, TableType, DiskType, x
  <2>8. DiskType'
    BY <2>2, <2>3, <2>7 DEF DiskType
  <2>9. Foreign(L, K)
    BY <2>3, <2>5, <2>6 DEF Foreign, ptable, TableType
  <2> QED
    BY <2>8, <2>9
<1>4. CASE \E n \in Block : bget_none(p, n)
  <2>1. UNCHANGED <<ptable, ofile, pc, loc, diskVars>>
    BY <1>4 DEF bget_none
  <2>2. StateStep(K) /\ PcStep(L)
    BY <2>1, StateSame, PcSame DEF ptable
  <2> QED
    BY <2>1, <2>2 DEF Foreign, ptable, diskVars, DiskType, TableType
<1>5. CASE acquiresleep(p)
  <2>1. /\ state[p] = "RUNNING" /\ pc[p] = "acquiresleep" /\ sleep(p, <<"lock", b>>)
        /\ UNCHANGED <<pid, parent, killed, nextpid, ofile, pc, loc, diskVars>>
    BY <1>5 DEF acquiresleep, Running
  <2>2. b \in Nat
    BY <1>1, <2>1 DEF InDisk
  <2>3. StateStep(K)
    BY <1>1, <2>1, <2>2, StateSlept
  <2>4. PcStep(L)
    BY <2>1, PcSame
  <2> QED
    BY <2>1, <2>3, <2>4 DEF Foreign, diskVars, DiskType, TableType
<1>6. CASE bread(p)
  <2>1. /\ state[p] = "RUNNING" /\ pc[p] = "acquiresleep"
        /\ buf' = [buf EXCEPT ![b].owner = p]
        /\ \/ Goto(p, "held") /\ UNCHANGED <<idequeue, state, chan>>
           \/ iderw(p, b)
        /\ UNCHANGED <<pid, parent, killed, nextpid, ofile, loc, lru, disk, stored>>
    BY <1>6 DEF bread, Running
  <2>2. b \in Buffer /\ p \in 0..NPROC
    BY <1>1, <2>1, SlotFacts DEF InDisk
  <2>3. buf' \in [Buffer -> BufRec]
    <3>1. PICK v \in Value : TRUE
      BY DiskAssumption
    <3> QED
      BY <2>1, <2>2, BufSteps DEF BufSet
  <2>4. StateStep(K) /\ PcStep(L) /\ idequeue' \in Seq(Buffer)
    <3>1. CASE Goto(p, "held") /\ UNCHANGED <<idequeue, state, chan>>
      <4>1. StateStep(K)
        BY <3>1, StateSame
      <4>2. PcStep(L)
        BY <1>1, <2>1, <3>1, PcJump DEF InDisk
      <4> QED
        BY <3>1, <4>1, <4>2 DEF DiskType
    <3>2. CASE iderw(p, b)
      BY <2>1, <2>2, <3>2, IderwFrame
    <3> QED
      BY <2>1, <3>1, <3>2
  <2>5. Rest
    BY <2>1 DEF iderw, Goto, TableType, InDisk
  <2>6. DiskType'
    BY <2>1, <2>3, <2>4, <2>5 DEF DiskType
  <2>7. Foreign(L, K)
    BY <2>1, <2>4 DEF Foreign, TableType
  <2> QED
    BY <2>6, <2>7
<1>7. CASE \E v \in Value \ {AnyValue} : log_write(p, v)
  <2>1. PICK v \in Value : log_write(p, v)
    BY <1>7
  <2>2. /\ pc[p] = "held" /\ buf' = [buf EXCEPT ![b] = [@ EXCEPT !.data = v, !.dirty = TRUE]]
        /\ stored' = [stored EXCEPT ![buf[b].blockno] = v]
        /\ UNCHANGED <<procVars, lru, idequeue, disk>>
    BY <2>1 DEF log_write
  <2>3. b \in Buffer
    BY <1>1, <2>2 DEF InDisk
  <2>4. buf' \in [Buffer -> BufRec]
    <3>1. 0 \in 0..NPROC
      BY SlotFacts
    <3> QED
      BY <2>2, <2>3, <3>1, BufSteps DEF BufSet
  <2>5. StateStep(K) /\ PcStep(L)
    BY <2>2, StateSame, PcSame DEF procVars, ptable
  <2>6. DiskType'
    BY <2>2, <2>4 DEF DiskType, procVars
  <2>7. Foreign(L, K)
    BY <2>2, <2>5 DEF Foreign, TableType, procVars, ptable
  <2> QED
    BY <2>6, <2>7
<1>8. CASE bwrite(p)
  <2>1. /\ state[p] = "RUNNING" /\ pc[p] = "held" /\ buf' = [buf EXCEPT ![b].dirty = TRUE]
        /\ iderw(p, b)
        /\ UNCHANGED <<pid, parent, killed, nextpid, ofile, loc, lru, disk, stored>>
    BY <1>8 DEF bwrite, Running
  <2>2. b \in Buffer
    BY <1>1, <2>1 DEF InDisk
  <2>3. buf' \in [Buffer -> BufRec]
    <3>1. PICK v \in Value : TRUE
      BY DiskAssumption
    <3>2. 0 \in 0..NPROC
      BY SlotFacts
    <3> QED
      BY <2>1, <2>2, <3>2, BufSteps DEF BufSet
  <2>4. StateStep(K) /\ PcStep(L) /\ idequeue' \in Seq(Buffer)
    BY <2>1, <2>2, IderwFrame
  <2>5. Rest
    BY <2>1 DEF iderw, Goto, TableType, InDisk
  <2>6. DiskType'
    BY <2>1, <2>3, <2>4, <2>5 DEF DiskType
  <2>7. Foreign(L, K)
    BY <2>1, <2>4 DEF Foreign, TableType
  <2> QED
    BY <2>6, <2>7
<1>9. CASE iderw_wait(p)
  <2>1. /\ state[p] = "RUNNING" /\ pc[p] = "iderw"
        /\ \/ Goto(p, "held") /\ UNCHANGED <<state, chan>>
           \/ sleep(p, <<"buf", b>>) /\ UNCHANGED pc
        /\ UNCHANGED <<pid, parent, killed, nextpid, ofile, loc, diskVars>>
    BY <1>9 DEF iderw_wait, Running
  <2>2. b \in Nat /\ "buf" \in K
    BY <1>1, <2>1 DEF InDisk
  <2>3. StateStep(K)
    BY <1>1, <2>1, <2>2, StateSame, StateSlept
  <2>4. PcStep(L)
    BY <1>1, <2>1, PcSame, PcJump DEF InDisk
  <2>5. Rest
    BY <2>1 DEF Goto, TableType, InDisk
  <2>6. DiskType'
    BY <2>1, <2>5 DEF DiskType, diskVars
  <2>7. Foreign(L, K)
    BY <2>1, <2>3, <2>4 DEF Foreign, TableType
  <2> QED
    BY <2>6, <2>7
<1>10. CASE releasesleep(p)
  <2>1. /\ pc[p] = "held" /\ buf' = [buf EXCEPT ![b].owner = 0] /\ wakeup(<<"lock", b>>)
        /\ Goto(p, "brelse")
        /\ UNCHANGED <<pid, parent, killed, chan, nextpid, ofile, loc, lru, idequeue, disk, stored>>
    BY <1>10 DEF releasesleep
  <2>2. b \in Buffer /\ 0 \in 0..NPROC
    BY <1>1, <2>1, SlotFacts DEF InDisk
  <2>3. buf' \in [Buffer -> BufRec]
    <3>1. PICK v \in Value : TRUE
      BY DiskAssumption
    <3> QED
      BY <2>1, <2>2, BufSteps DEF BufSet
  <2>4. StateStep(K)
    BY <2>1, StateWoken
  <2>5. PcStep(L)
    BY <1>1, <2>1, PcJump DEF InDisk
  <2>6. Rest
    BY <2>1 DEF Goto, TableType, InDisk
  <2>7. DiskType'
    BY <2>1, <2>3, <2>6 DEF DiskType
  <2>8. Foreign(L, K)
    BY <2>1, <2>4, <2>5 DEF Foreign, TableType
  <2> QED
    BY <2>7, <2>8
<1>11. CASE brelse(p)
  <2>1. /\ pc[p] = "brelse" /\ buf' = [buf EXCEPT ![b].refcnt = @ - 1]
        /\ lru' = lru \/ lru' = ToFront(b)
        /\ Return(p)
        /\ UNCHANGED <<ptable, ofile, idequeue, disk, stored>>
    BY <1>11 DEF brelse
  <2>2. b \in Buffer /\ 0 \in 0..NPROC
    BY <1>1, <2>1, SlotFacts DEF InDisk
  <2>3. buf' \in [Buffer -> BufRec]
    <3>1. PICK v \in Value : TRUE
      BY DiskAssumption
    <3> QED
      BY <2>1, <2>2, BufSteps DEF BufSet
  <2>4. StateStep(K)
    BY <2>1, StateSame DEF ptable
  <2>5. PcStep(L)
    BY <1>1, <2>1, PcReturn DEF InDisk
  <2>6. Rest
    BY <2>1 DEF Goto, Return, TableType, InDisk
  <2>7. lru' \in [Buffer -> Buffer] /\ \A c \in Buffer : \E i \in Buffer : lru'[i] = c
    <3>1. CASE lru' = lru
      BY <3>1 DEF DiskType
    <3>2. CASE lru' = ToFront(b)
      BY <2>2, <3>2, ToFrontIs
    <3> QED
      BY <2>1, <3>1, <3>2
  <2>8. DiskType'
    BY <2>1, <2>3, <2>6, <2>7 DEF DiskType
  <2>9. Foreign(L, K)
    BY <2>1, <2>4, <2>5 DEF Foreign, TableType, ptable
  <2> QED
    BY <2>8, <2>9
<1> QED
  BY <1>3, <1>4, <1>5, <1>6, <1>7, <1>8, <1>9, <1>10, <1>11 DEF DiskStep

\* A buffer stays that of a block.
LEMMA NamedStep ==
  ASSUME TableType, DiskType, DiskNamed, NEW p \in Slot, DiskStep(p)
  PROVE  DiskNamed'
<1> DEFINE b == loc[p].i
<1>1. PICK v0 \in Value : TRUE
  BY DiskAssumption
<1>2. 0 \in 0..NPROC /\ p \in 0..NPROC /\ idequeue \in Seq(Buffer)
  BY SlotFacts DEF DiskType
<1>3. pc[p] \in InDisk => b \in Buffer /\ buf[b].blockno \in Block
  BY DEF DiskType, DiskNamed
<1>4. CASE \E n \in Block : bget(p, n)
  <2>1. PICK n \in Block : bget(p, n)
    BY <1>4
  <2>2. PICK c \in Buffer :
           /\ loc' = [loc EXCEPT ![p] = [np |-> 0, i |-> c, n |-> 0]]
           /\ \/ buf[c].blockno = n /\ BufSet(c, Taken(c))
              \/ BufSet(c, Recycled(c, n))
    BY <2>1, BgetIs
  <2>3. Goto(p, "acquiresleep") /\ idequeue' = idequeue
    BY <2>1, BgetIs
  <2>4. buf'[c].blockno = n /\ \A d \in Buffer : d # c => buf'[d].blockno = buf[d].blockno
    BY <2>2 DEF BufSet, Taken, Recycled
  <2>5. /\ \A q \in Slot : q # p => pc'[q] = pc[q] /\ loc'[q] = loc[q]
        /\ loc'[p].i = c
    BY <2>2, <2>3 DEF Goto, TableType
  <2>6. \A d \in Buffer : buf[d].blockno \in Block => buf'[d].blockno \in Block
    BY <2>4
  <2>7. \A q \in Slot : pc[q] \in InDisk => loc[q].i \in Buffer
    BY DEF DiskType
  <2>8. \A i \in 1..Len(idequeue) : idequeue[i] \in Buffer
    BY <1>2
  <2> QED
    BY <2>3, <2>4, <2>5, <2>6, <2>7, <2>8 DEF DiskNamed
<1>5. ASSUME \A d \in Buffer : buf'[d].blockno = buf[d].blockno,
             \A q \in Slot : pc'[q] \in InDisk => pc[q] \in InDisk /\ loc'[q] = loc[q],
             idequeue' = idequeue \/ (pc[p] \in InDisk /\ idequeue' = Append(idequeue, b))
      PROVE  DiskNamed'
  <2>1. \A q \in Slot : pc[q] \in InDisk => loc[q].i \in Buffer
    BY DEF DiskType
  <2>2. \A i \in 1..Len(idequeue) : idequeue[i] \in Buffer
    BY <1>2
  <2>3. \A i \in 1..Len(idequeue') : idequeue'[i] \in Buffer /\ buf[idequeue'[i]].blockno \in Block
    <3>1. CASE idequeue' = idequeue
      BY <2>2, <3>1 DEF DiskNamed
    <3>2. CASE pc[p] \in InDisk /\ idequeue' = Append(idequeue, b)
      <4> TAKE i \in 1..Len(idequeue')
      <4>1. idequeue'[i] = b \/ (i \in 1..Len(idequeue) /\ idequeue'[i] = idequeue[i])
        BY <1>2, <1>3, <3>2
      <4> QED
        BY <1>3, <2>2, <3>2, <4>1 DEF DiskNamed
    <3> QED
      BY <1>5, <3>1, <3>2
  <2> QED
    BY <1>5, <2>1, <2>3 DEF DiskNamed
<1>6. CASE \/ \E n \in Block : bget_none(p, n)
           \/ acquiresleep(p) \/ iderw_wait(p)
  <2>1. /\ UNCHANGED <<buf, idequeue>>
        /\ UNCHANGED <<pc, loc>> \/ (pc[p] = "iderw" /\ Goto(p, "held") /\ UNCHANGED loc)
    BY <1>6 DEF bget_none, acquiresleep, iderw_wait, diskVars
  <2>2. \A q \in Slot : pc'[q] \in InDisk => pc[q] \in InDisk /\ loc'[q] = loc[q]
    BY <2>1 DEF Goto, TableType, InDisk
  <2> QED
    BY <2>1, <2>2, <1>5
<1>7. CASE bread(p)
  <2>1. /\ pc[p] = "acquiresleep" /\ buf' = [buf EXCEPT ![b].owner = p] /\ UNCHANGED loc
        /\ Goto(p, "held") \/ Goto(p, "iderw")
        /\ idequeue' = idequeue \/ idequeue' = Append(idequeue, b)
    BY <1>7 DEF bread, iderw
  <2>2. pc[p] \in InDisk
    BY <2>1 DEF InDisk
  <2>3. BufSet(b, Seized(b, p))
    BY <1>1, <1>2, <1>3, <2>1, <2>2, BufSteps
  <2>4. \A d \in Buffer : buf'[d].blockno = buf[d].blockno
    BY <2>3 DEF BufSet, Seized
  <2>5. \A q \in Slot : pc'[q] \in InDisk => pc[q] \in InDisk /\ loc'[q] = loc[q]
    BY <2>1, <2>2 DEF Goto, TableType
  <2> QED
    BY <2>1, <2>2, <2>4, <2>5, <1>5
<1>8. CASE \E v \in Value \ {AnyValue} : log_write(p, v)
  <2>1. PICK v \in Value : log_write(p, v)
    BY <1>8
  <2>2. /\ pc[p] = "held" /\ buf' = [buf EXCEPT ![b] = [@ EXCEPT !.data = v, !.dirty = TRUE]]
        /\ UNCHANGED <<pc, loc, idequeue>>
    BY <2>1 DEF log_write, procVars
  <2>3. BufSet(b, Kept(b, v))
    BY <1>2, <1>3, <2>2, BufSteps DEF InDisk
  <2>4. \A d \in Buffer : buf'[d].blockno = buf[d].blockno
    BY <2>3 DEF BufSet, Kept
  <2> QED
    BY <2>2, <2>4, <1>5
<1>9. CASE bwrite(p)
  <2>1. /\ pc[p] = "held" /\ buf' = [buf EXCEPT ![b].dirty = TRUE] /\ UNCHANGED loc
        /\ Goto(p, "iderw") /\ idequeue' = Append(idequeue, b)
    BY <1>9 DEF bwrite, iderw
  <2>2. pc[p] \in InDisk
    BY <2>1 DEF InDisk
  <2>3. BufSet(b, Dirtied(b))
    BY <1>1, <1>2, <1>3, <2>1, <2>2, BufSteps
  <2>4. \A d \in Buffer : buf'[d].blockno = buf[d].blockno
    BY <2>3 DEF BufSet, Dirtied
  <2>5. \A q \in Slot : pc'[q] \in InDisk => pc[q] \in InDisk /\ loc'[q] = loc[q]
    BY <2>1, <2>2 DEF Goto, TableType
  <2> QED
    BY <2>1, <2>2, <2>4, <2>5, <1>5
<1>10. CASE releasesleep(p)
  <2>1. /\ pc[p] = "held" /\ buf' = [buf EXCEPT ![b].owner = 0] /\ UNCHANGED <<loc, idequeue>>
        /\ Goto(p, "brelse")
    BY <1>10 DEF releasesleep
  <2>2. pc[p] \in InDisk
    BY <2>1 DEF InDisk
  <2>3. BufSet(b, Unlocked(b))
    BY <1>1, <1>2, <1>3, <2>1, <2>2, BufSteps
  <2>4. \A d \in Buffer : buf'[d].blockno = buf[d].blockno
    BY <2>3 DEF BufSet, Unlocked
  <2>5. \A q \in Slot : pc'[q] \in InDisk => pc[q] \in InDisk /\ loc'[q] = loc[q]
    BY <2>1, <2>2 DEF Goto, TableType
  <2> QED
    BY <2>1, <2>4, <2>5, <1>5
<1>11. CASE brelse(p)
  <2>1. /\ pc[p] = "brelse" /\ buf' = [buf EXCEPT ![b].refcnt = @ - 1] /\ UNCHANGED idequeue
        /\ Return(p)
    BY <1>11 DEF brelse
  <2>2. pc[p] \in InDisk
    BY <2>1 DEF InDisk
  <2>3. BufSet(b, Dropped(b))
    BY <1>1, <1>2, <1>3, <2>1, <2>2, BufSteps
  <2>4. \A d \in Buffer : buf'[d].blockno = buf[d].blockno
    BY <2>3 DEF BufSet, Dropped
  <2>5. \A q \in Slot : pc'[q] \in InDisk => pc[q] \in InDisk /\ loc'[q] = loc[q]
    BY <2>1 DEF Goto, Return, TableType, InDisk
  <2> QED
    BY <2>1, <2>4, <2>5, <1>5
<1> QED
  BY <1>4, <1>6, <1>7, <1>8, <1>9, <1>10, <1>11 DEF DiskStep

\* The disk serves the first buffer of its queue.
LEMMA IdeintrIs ==
  ASSUME DiskType, DiskNamed, ideintr
  PROVE  /\ UNCHANGED <<pid, parent, killed, chan, nextpid, ofile, pc, loc, lru, stored>>
         /\ idequeue # <<>> /\ idequeue' = Tail(idequeue)
         /\ \E b \in Buffer :
              /\ b = Head(idequeue) /\ buf[b].blockno \in Block
              /\ wakeup(<<"buf", b>>)
              /\ \E v \in Value :
                    /\ BufSet(b, Served(b, v))
                    /\ buf[b].dirty => v = buf[b].data
                    /\ ~buf[b].dirty /\ ~ReadErrors => v = disk[buf[b].blockno]
              /\ disk' = IF buf[b].dirty THEN [disk EXCEPT ![buf[b].blockno] = buf[b].data] ELSE disk
<1> DEFINE b == Head(idequeue)
<1>1. /\ UNCHANGED <<pid, parent, killed, chan, nextpid, ofile, pc, loc, lru, stored>>
      /\ idequeue # <<>> /\ idequeue' = Tail(idequeue)
      /\ wakeup(<<"buf", b>>)
      /\ disk' = IF buf[b].dirty THEN [disk EXCEPT ![buf[b].blockno] = buf[b].data] ELSE disk
  BY DEF ideintr
<1>2. PICK ok \in {TRUE, ~ReadErrors} :
        buf' = [buf EXCEPT ![b] = [@ EXCEPT !.data = IF buf[b].dirty \/ ~ok THEN buf[b].data
                                                    ELSE disk[buf[b].blockno],
                                            !.valid = TRUE, !.dirty = FALSE]]
  BY DEF ideintr
<1>3. idequeue \in Seq(Buffer)
  BY DEF DiskType
<1>4. b = idequeue[1] /\ b \in Buffer /\ 1 \in 1..Len(idequeue)
  BY <1>1, <1>3
<1>5. buf[b].blockno \in Block
  BY <1>4 DEF DiskNamed
<1> HIDE DEF b
<1> DEFINE v == IF buf[b].dirty \/ ~ok THEN buf[b].data ELSE disk[buf[b].blockno]
<1>6. v \in Value
  BY <1>4, <1>5, BufFields DEF DiskType
<1>7. /\ buf[b].dirty => v = buf[b].data
      /\ ~buf[b].dirty /\ ~ReadErrors => v = disk[buf[b].blockno]
  BY <1>2
<1>8. buf' = [buf EXCEPT ![b] = [@ EXCEPT !.data = v, !.valid = TRUE, !.dirty = FALSE]]
  BY <1>2
<1> HIDE DEF v
<1>9. BufSet(b, Served(b, v))
  <2>1. 0 \in 0..NPROC
    BY SlotFacts
  <2> QED
    BY <1>4, <1>6, <1>8, <2>1, BufSteps
<1> QED
  BY <1>1, <1>4, <1>5, <1>6, <1>7, <1>9 DEF b

\* ideintr(), with a read error or without, does too.
LEMMA IdeintrFrame ==
  ASSUME TableType, DiskType, DiskNamed, ideintr
  PROVE  Foreign(Common \cup InDisk, {"buf", "lock"}) /\ DiskType' /\ DiskNamed'
<1>1. /\ UNCHANGED <<pid, parent, killed, chan, nextpid, ofile, pc, loc, lru, stored>>
      /\ idequeue # <<>> /\ idequeue' = Tail(idequeue)
  BY IdeintrIs
<1>2. PICK b \in Buffer :
        /\ buf[b].blockno \in Block /\ wakeup(<<"buf", b>>)
        /\ \E v \in Value : BufSet(b, Served(b, v))
        /\ disk' = IF buf[b].dirty THEN [disk EXCEPT ![buf[b].blockno] = buf[b].data] ELSE disk
  BY IdeintrIs
<1>3. PICK v \in Value : BufSet(b, Served(b, v))
  BY <1>2
<1>4. buf' \in [Buffer -> BufRec] /\ \A d \in Buffer : buf'[d].blockno = buf[d].blockno
  BY <1>3 DEF BufSet, Served
<1>5. disk' \in [Block -> Value]
  BY <1>2, BufFields DEF DiskType
<1>6. idequeue \in Seq(Buffer)
  BY DEF DiskType
<1>7. /\ idequeue' \in Seq(Buffer)
      /\ \A i \in 1..Len(idequeue') : i + 1 \in 1..Len(idequeue) /\ idequeue'[i] = idequeue[i + 1]
      /\ \A i \in 1..Len(idequeue) : idequeue[i] \in Buffer
  BY <1>1, <1>6
<1>8. StateStep({"buf", "lock"}) /\ PcStep(Common \cup InDisk)
  BY <1>1, <1>2, StateWoken, PcSame
<1>9. DiskType'
  BY <1>1, <1>4, <1>5, <1>7 DEF DiskType
<1>10. DiskNamed'
  <2>1. \A q \in Slot : pc[q] \in InDisk => loc[q].i \in Buffer
    BY DEF DiskType
  <2> QED
    BY <1>1, <1>4, <1>7, <2>1 DEF DiskNamed
<1> QED
  BY <1>1, <1>8, <1>9, <1>10 DEF Foreign, TableType

-----------------------------------------------------------------------------
(* The process table's own steps                                           *)

\* exit() gives its children to init, wakes init when one of them is a zombie, and its parent.
LEMMA ExitTable ==
  ASSUME TableInv, NEW p \in Slot, exit(p)
  PROVE  TableInv' /\ Moves(Common) /\ Sleeps({})
<1> DEFINE orphans == Orphans(p)
           woken == wakeup1(state, <<"wait", parent[p]>>)
           told == IF \E q \in orphans : state[q] = "ZOMBIE"
                   THEN wakeup1(woken, <<"wait", initproc>>) ELSE woken
<1>1. /\ state[p] = "RUNNING" /\ p # initproc /\ pc[p] = "exit" /\ ofile[p] = {}
      /\ state' = [told EXCEPT ![p] = "ZOMBIE"]
      /\ parent' = [q \in Slot |-> IF q \in orphans THEN initproc ELSE parent[q]]
      /\ pc' = [pc EXCEPT ![p] = "none"]
      /\ UNCHANGED <<pid, killed, chan, nextpid, ofile, loc>>
  BY DEF exit, Running, Goto
<1>2. woken \in [Slot -> ProcState] /\ told \in [Slot -> ProcState]
  BY DEF wakeup1, TableInv, TableType, ProcState
<1>3. /\ \A q \in Slot : woken[q] = state[q] \/ (state[q] = "SLEEPING" /\ woken[q] = "RUNNABLE")
      /\ \A q \in Slot : woken[q] = "SLEEPING" => chan[q] # <<"wait", parent[p]>>
  BY DEF wakeup1
<1>4. /\ \A q \in Slot : told[q] = woken[q] \/ (woken[q] = "SLEEPING" /\ told[q] = "RUNNABLE")
      /\ \A q \in Slot : told[q] = "SLEEPING" /\ (\E r \in orphans : state[r] = "ZOMBIE")
                            => chan[q] # <<"wait", initproc>>
  BY DEF wakeup1
<1> HIDE DEF woken, told
<1>5. /\ \A q \in Slot \ {p} : state'[q] = told[q] /\ pc'[q] = pc[q]
      /\ state'[p] = "ZOMBIE" /\ pc'[p] = "none"
  BY <1>1, <1>2 DEF TableInv, TableType
<1>6. \A q \in Slot \ {p} : state'[q] = state[q] \/ (state[q] = "SLEEPING" /\ state'[q] = "RUNNABLE")
  BY <1>3, <1>4, <1>5
<1>7. TableType'
  <2>1. state' \in [Slot -> ProcState]
    BY <1>1, <1>2 DEF ProcState
  <2>2. parent' \in [Slot -> 0..NPROC]
    BY <1>1, SlotFacts DEF TableInv, TableType
  <2>3. pc' \in [Slot -> Label]
    BY <1>1 DEF TableInv, TableType, Label, Common
  <2> QED
    BY <1>1, <2>1, <2>2, <2>3 DEF TableInv, TableType
<1>8. PcInv'
  BY <1>5, <1>6 DEF TableInv, PcInv, Alive
<1>9. ForkInv'
  <2>1. \A q \in Slot : pc'[q] \in Forking => pc[q] \in Forking /\ q # p
    BY <1>5 DEF Forking
  <2>2. \A q \in Slot : state[q] = "EMBRYO" => state'[q] = "EMBRYO"
    BY <1>1, <1>5, <1>6
  <2> QED
    BY <2>1, <2>2, <1>1 DEF ForkInv, TableInv
<1>10. PidInv'
  <2>1. \A q \in Slot : state'[q] # "UNUSED" => state[q] # "UNUSED"
    BY <1>1, <1>5, <1>6
  <2> QED
    BY <2>1, <1>1 DEF PidInv, TableInv
<1>11. ParentInv'
  <2>1. state[initproc] \in Alive /\ parent[initproc] = 0 /\ initproc \in Slot /\ 0 \notin Slot
    BY SlotFacts DEF TableInv, ParentInv
  <2>2. \A q \in Slot \ {p} : state[q] \in Alive => state'[q] \in Alive
    BY <1>6 DEF Alive
  <2>3. \A q \in Slot : q \in orphans <=> parent[q] = p
    BY DEF Orphans
  <2>4. \A q \in Slot : parent'[q] = IF parent[q] = p THEN initproc ELSE parent[q]
    BY <1>1, <2>3
  <2>5. state'[initproc] \in Alive /\ parent'[initproc] = 0
    BY <2>1, <2>2, <2>4, <1>1
  <2>6. \A q \in Slot : state'[q] \in {"UNUSED", "EMBRYO"} => parent'[q] = 0
    <3>1. \A q \in Slot : state'[q] \in {"UNUSED", "EMBRYO"} => state[q] \in {"UNUSED", "EMBRYO"}
      BY <1>5, <1>6
    <3> QED
      BY <3>1, <2>4, SlotFacts DEF TableInv, ParentInv
  <2>7. \A q \in Slot : Live(q)' => Live(q)
    BY <1>1, <1>5, <1>6 DEF Live
  <2>8. \A q \in Slot \ {initproc} : Live(q)' => parent'[q] \in Slot /\ state'[parent'[q]] \in Alive
    <3> SUFFICES ASSUME NEW q \in Slot \ {initproc}, Live(q)'
                 PROVE  parent'[q] \in Slot /\ state'[parent'[q]] \in Alive
      OBVIOUS
    <3>1. parent[q] \in Slot /\ state[parent[q]] \in Alive
      BY <2>7 DEF TableInv, ParentInv
    <3>2. CASE parent[q] = p
      BY <3>2, <2>4, <2>5, <2>1
    <3>3. CASE parent[q] # p
      BY <3>1, <3>3, <2>4, <2>2
    <3> QED
      BY <3>2, <3>3
  <2>9. \A q \in Slot : parent'[q] # q
    BY <2>1, <2>4, <1>1 DEF TableInv, ParentInv
  <2> QED
    BY <2>5, <2>6, <2>8, <2>9 DEF ParentInv
<1>12. WaitInv'
  <2> SUFFICES ASSUME NEW q \in Slot, state'[q] = "SLEEPING"
               PROVE  /\ chan'[q][1] \in Kind
                      /\ chan'[q][1] = "wait" =>
                           /\ chan'[q][2] = q
                           /\ \E r \in Slot : parent'[r] = q
                           /\ \A r \in Slot : parent'[r] = q => state'[r] # "ZOMBIE"
    BY DEF WaitInv
  <2>1. q # p /\ state[q] = "SLEEPING" /\ told[q] = "SLEEPING" /\ woken[q] = "SLEEPING"
    BY <1>3, <1>4, <1>5
  <2>2. chan'[q] = chan[q] /\ chan[q][1] \in Kind
    BY <1>1, <2>1 DEF TableInv, WaitInv
  <2>3. CASE chan[q][1] # "wait"
    BY <2>2, <2>3
  <2>4. CASE chan[q][1] = "wait"
    <3>1. /\ chan[q][2] = q
          /\ \E r \in Slot : parent[r] = q
          /\ \A r \in Slot : parent[r] = q => state[r] # "ZOMBIE"
      BY <2>1, <2>4 DEF TableInv, WaitInv
    <3>2. chan[q] \in (Kind \cup {"none"}) \X Nat
      BY DEF TableInv, TableType
    <3>3. chan[q] = <<"wait", q>>
      BY <3>1, <3>2, <2>4
    <3>4. parent[p] # q
      BY <3>3, <2>1, <1>3
    <3>5. \A r \in Slot : parent'[r] = IF parent[r] = p THEN initproc ELSE parent[r]
      BY <1>1 DEF Orphans
    <3>6. PICK r \in Slot : parent[r] = q
      BY <3>1
    <3>7. parent'[r] = q
      BY <3>6, <3>5, <2>1
    <3>8. ASSUME NEW s \in Slot, parent'[s] = q
          PROVE  state'[s] # "ZOMBIE"
      <4>1. CASE parent[s] = p
        <5>1. q = initproc
          BY <3>8, <4>1, <3>5
        <5>2. state[s] # "ZOMBIE"
          <6>1. s \in orphans
            BY <4>1 DEF Orphans
          <6>2. ~ \E t \in orphans : state[t] = "ZOMBIE"
            BY <1>4, <2>1, <3>3, <5>1
          <6> QED
            BY <6>1, <6>2
        <5>3. s # p
          BY <4>1 DEF TableInv, ParentInv
        <5> QED
          BY <5>2, <5>3, <1>6
      <4>2. CASE parent[s] # p
        <5>1. parent[s] = q
          BY <3>8, <4>2, <3>5
        <5>2. s # p
          BY <5>1, <3>4
        <5> QED
          BY <5>1, <5>2, <3>1, <1>6
      <4> QED
        BY <4>1, <4>2
    <3> QED
      BY <2>2, <3>1, <3>7, <3>8
  <2> QED
    BY <2>3, <2>4
<1>13. Moves(Common)
  BY <1>1, <1>5 DEF Moves, Common
<1>14. Sleeps({})
  BY <1>1, <1>5, <1>6 DEF Sleeps
<1> QED
  BY <1>7, <1>8, <1>9, <1>10, <1>11, <1>12, <1>13, <1>14 DEF TableInv

\* The scheduler, yield(), kill() and exit() keep the process table's invariant.
LEMMA ProcFrame ==
  ASSUME TableInv, NEW p \in Slot, ProcStep(p)
  PROVE  TableInv' /\ Moves(Common) /\ Sleeps({})
<1> DEFINE L == Common
<1>1. L \in SUBSET Label /\ {"none", "user", "exit"} \subseteq L /\ L \cap Forking = {}
  BY DEF Label, Common, Forking
<1>2. TableType
  BY DEF TableInv
<1>3. ASSUME Foreign(L, {}) PROVE TableInv' /\ Moves(Common) /\ Sleeps({})
  BY <1>3, <1>1, ForeignKeeps DEF Foreign, StateStep, PcStep
<1>4. CASE yield(p)
  <2>1. /\ state[p] = "RUNNING" /\ state' = [state EXCEPT ![p] = "RUNNABLE"]
        /\ UNCHANGED <<pid, parent, killed, chan, nextpid, ofile, pc, loc>>
    BY <1>4 DEF yield, Running
  <2>2. StateStep({})
    BY <2>1, <1>2 DEF StateStep, Sleeps, TableType, ProcState, Alive
  <2>3. PcStep(L)
    BY <2>1, <1>2, PcSame
  <2> QED
    BY <1>2, <1>3, <2>1, <2>2, <2>3 DEF Foreign, TableType
<1>5. CASE scheduler(p)
  <2>1. /\ state[p] = "RUNNABLE" /\ state' = [state EXCEPT ![p] = "RUNNING"]
        /\ chan' = [chan EXCEPT ![p] = NoChan]
        /\ UNCHANGED <<pid, parent, killed, nextpid, ofile, pc, loc>>
    BY <1>5 DEF scheduler
  <2>2. NoChan \in (Kind \cup {"none"}) \X Nat
    BY DEF NoChan
  <2>3. StateStep({})
    <3>1. state' \in [Slot -> ProcState] /\ chan' \in [Slot -> (Kind \cup {"none"}) \X Nat]
      BY <2>1, <2>2, <1>2 DEF TableType, ProcState
    <3>2. /\ state'[p] = "RUNNING"
          /\ \A q \in Slot : q # p => state'[q] = state[q] /\ chan'[q] = chan[q]
      BY <2>1, <1>2 DEF TableType
    <3> QED
      BY <2>1, <3>1, <3>2 DEF StateStep, Sleeps, Alive
  <2>4. PcStep(L)
    BY <2>1, <1>2, PcSame
  <2> QED
    BY <1>2, <1>3, <2>1, <2>3, <2>4 DEF Foreign, TableType
<1>6. CASE trap_killed(p) \/ sys_exit(p)
  <2>1. /\ pc[p] = "user" /\ Goto(p, "exit")
        /\ UNCHANGED <<state, pid, parent, killed, chan, nextpid, ofile, loc>>
    BY <1>6 DEF trap_killed, sys_exit, InUser, ptable
  <2>2. StateStep({})
    BY <2>1, <1>2, StateSame
  <2>3. PcStep(L)
    BY <2>1, <1>1, <1>2, PcJump
  <2> QED
    BY <1>2, <1>3, <2>1, <2>2, <2>3 DEF Foreign, TableType
<1>7. CASE exit(p)
  BY <1>7, ExitTable
<1>8. CASE exit_init(p)
  <2>1. UNCHANGED <<state, pid, parent, killed, chan, nextpid, ofile, pc, loc>>
    BY <1>8 DEF exit_init, ptable
  <2>2. StateStep({}) /\ PcStep(L)
    BY <2>1, <1>2, StateSame, PcSame
  <2> QED
    BY <1>2, <1>3, <2>1, <2>2 DEF Foreign, TableType
<1>9. CASE \E n \in Targets : kill(p, n)
  <2>1. PICK n \in Targets : kill(p, n)
    BY <1>9
  <2> DEFINE hits == {q \in Slot : pid[q] = n}
             q == Min(hits)
  <2>2. UNCHANGED <<pid, parent, chan, nextpid, ofile, pc, loc>>
    BY <2>1 DEF kill
  <2>3. PcStep(L)
    BY <2>2, <1>2, PcSame
  <2>4. CASE hits = {}
    <3>1. UNCHANGED <<killed, state>>
      BY <2>1, <2>4 DEF kill
    <3>2. StateStep({})
      BY <3>1, <2>2, <1>2, StateSame
    <3> QED
      BY <3>1, <3>2, <1>2, <1>3, <2>2, <2>3 DEF Foreign, TableType
  <2>5. CASE hits # {}
    <3>1. q \in Slot
      BY <2>5, SlotFacts, MinIs
    <3>2. /\ killed' = [killed EXCEPT ![q] = TRUE]
          /\ state' = [state EXCEPT ![q] = IF @ = "SLEEPING" THEN "RUNNABLE" ELSE @]
      BY <2>1, <2>5 DEF kill
    <3> HIDE DEF q
    <3>3. StateStep({})
      <4>1. state' \in [Slot -> ProcState]
        BY <3>1, <3>2, <1>2 DEF TableType, ProcState
      <4>2. \A r \in Slot : state'[r] = state[r] \/ (state[r] = "SLEEPING" /\ state'[r] = "RUNNABLE")
        BY <3>1, <3>2, <1>2 DEF TableType
      <4> QED
        BY <4>1, <4>2, <2>2, <1>2 DEF StateStep, Sleeps, TableType, Alive
    <3>4. killed' \in [Slot -> BOOLEAN]
      BY <3>2, <1>2 DEF TableType
    <3> QED
      BY <3>3, <3>4, <1>2, <1>3, <2>2, <2>3 DEF Foreign, TableType
  <2> QED
    BY <2>4, <2>5
<1> QED
  BY <1>4, <1>5, <1>6, <1>7, <1>8, <1>9 DEF ProcStep

-----------------------------------------------------------------------------
(* Address spaces                                                          *)

\* What the assumptions on the constants say about pages.
LEMMA MemFacts ==
  /\ PGSIZE \in Nat \ {0} /\ MAXPG \in Nat \ {0} /\ KVM \in Nat /\ ExecPages \in Nat
  /\ KERNBASE \in Nat /\ Page \subseteq Nat /\ IsFiniteSet(Page)
  /\ \A g \in Nat : g \in Page <=> g < MAXPG
  /\ \A g \in Nat : g * PGSIZE < KERNBASE => g \in Page
  /\ (ExecPages + 2) * PGSIZE \in 0..KERNBASE
  /\ \A g \in 0..(ExecPages + 1) : g \in Page
<1>1. /\ PGSIZE \in Nat \ {0} /\ MAXPG \in Nat \ {0} /\ KVM \in Nat /\ ExecPages \in Nat
      /\ ExecPages + 2 <= MAXPG
  BY MemoryAssumption
<1>2. \A a, b \in Nat : a <= b => a * PGSIZE <= b * PGSIZE /\ a * PGSIZE \in Nat
  BY <1>1, SMTT(30)
<1>3. KERNBASE = MAXPG * PGSIZE /\ KERNBASE \in Nat
  BY <1>1, <1>2 DEF KERNBASE
<1>4. Page = 0..(MAXPG - 1) /\ IsFiniteSet(Page)
  BY <1>1, FS_Interval DEF Page
<1>5. \A g \in Nat : g * PGSIZE < KERNBASE => g \in Page
  <2> SUFFICES ASSUME NEW g \in Nat, g >= MAXPG PROVE g * PGSIZE >= MAXPG * PGSIZE /\ g * PGSIZE \in Nat
    BY <1>1, <1>3, <1>4
  <2> QED
    BY <1>1, <1>2
<1>6. (ExecPages + 2) * PGSIZE \in 0..KERNBASE
  BY <1>1, <1>2, <1>3
<1> QED
  BY <1>1, <1>3, <1>4, <1>5, <1>6

\* mappages() of one page.
LEMMA MapIs ==
  ASSUME NEW s \in Space, NEW g \in Page, NEW v
  PROVE  Map(s, g, v) = [dir |-> s.dir, pt |-> s.pt \cup {Region(g)}, pte |-> [s.pte EXCEPT ![g] = v]]
<1> DEFINE x == s.pt \cup {Region(g)}
           f == [s.pte EXCEPT ![g] = v]
           t == [s EXCEPT !.pt = x]
<1>1. t = [dir |-> s.dir, pt |-> x, pte |-> s.pte]
  BY DEF Space
<1>2. Map(s, g, v) = [t EXCEPT !.pte[g] = v]
  BY DEF Map
<1>3. [t EXCEPT !.pte[g] = v] = [t EXCEPT !.pte = [t.pte EXCEPT ![g] = v]]
  BY <1>1
<1>4. t.pte = s.pte
  BY <1>1
<1> HIDE DEF x, t
<1>5. [t EXCEPT !.pte = f] = [dir |-> s.dir, pt |-> x, pte |-> f]
  BY <1>1
<1> QED
  BY <1>2, <1>3, <1>4, <1>5 DEF x

\* Address spaces stay address spaces when pages are mapped and unmapped.
LEMMA SpaceFacts ==
  /\ NoSpace \in Space /\ setupkvm \in Space
  /\ \A s \in Space, g \in Page, v \in {"none", "ssu", "present", "guard"} : Map(s, g, v) \in Space
  /\ \A s \in Space, a, b \in Nat : deallocuvm(s, a, b) \in Space
<1>1. NoSpace \in Space
  BY DEF NoSpace, Space
<1>2. setupkvm \in Space
  BY <1>1 DEF setupkvm, Space
<1>3. ASSUME NEW s \in Space, NEW g \in Page, NEW v \in {"none", "ssu", "present", "guard"}
      PROVE  Map(s, g, v) \in Space
  <2>1. /\ s.dir \in BOOLEAN /\ s.pt \in SUBSET {Region(h) : h \in Page}
        /\ s.pte \in [Page -> {"none", "ssu", "present", "guard"}]
    BY DEF Space
  <2>2. s.pt \cup {Region(g)} \in SUBSET {Region(h) : h \in Page}
    BY <2>1
  <2>3. [s.pte EXCEPT ![g] = v] \in [Page -> {"none", "ssu", "present", "guard"}]
    BY <2>1
  <2> QED
    BY <2>1, <2>2, <2>3, MapIs DEF Space
<1>4. ASSUME NEW s \in Space, NEW a \in Nat, NEW b \in Nat
      PROVE  deallocuvm(s, a, b) \in Space
  <2> DEFINE f == [g \in Page |-> IF g >= FirstPage(b) /\ g * PGSIZE < a THEN "none" ELSE s.pte[g]]
  <2>1. f \in [Page -> {"none", "ssu", "present", "guard"}]
    BY DEF Space
  <2>2. deallocuvm(s, a, b) = [s EXCEPT !.pte = f]
    BY DEF deallocuvm
  <2> HIDE DEF f
  <2> QED
    BY <2>1, <2>2 DEF Space
<1> QED
  BY <1>1, <1>2, <1>3, <1>4

-----------------------------------------------------------------------------
(* fork, wait and the steps on address spaces                              *)

\* What a step of fork(), wait(), exec() and the page fault has to keep.
MemKeeps == TableInv' /\ MemType' /\ Moves(Common \cup InMemory) /\ Sleeps({"wait"})

\* fork() takes an unused slot as an EMBRYO with a fresh pid.
LEMMA ForkTable ==
  ASSUME TableInv, MemType, NEW p \in Slot, fork(p)
  PROVE  MemKeeps
<1> DEFINE unused == {q \in Slot : state[q] = "UNUSED"}
           np == Min(unused)
           x == [np |-> np, i |-> 0, n |-> 0]
<1>1. np \in Slot /\ state[np] = "UNUSED"
  <2>1. unused # {}
    BY DEF fork
  <2> QED
    BY <2>1, SlotFacts, MinIs
<1>2. /\ state[p] = "RUNNING" /\ pc[p] = "user" /\ nextpid <= MaxPid
      /\ state' = [state EXCEPT ![np] = "EMBRYO"]
      /\ pid' = [pid EXCEPT ![np] = nextpid]
      /\ nextpid' = nextpid + 1
      /\ pc' = [pc EXCEPT ![p] = "fork_kstack"]
      /\ UNCHANGED <<parent, killed, chan, ofile, nfree, kstack, vm, sz, spare>>
  BY DEF fork, InUser, Running, Goto, memVars
<1>3. loc' = [loc EXCEPT ![p] = x] /\ x \in Locals /\ x.np = np
  <2>1. loc' = [loc EXCEPT ![p] = [NoLoc EXCEPT !.np = np]]
    BY DEF fork
  <2>2. x \in Locals
    BY <1>1, SlotFacts DEF Locals
  <2> QED
    BY <2>1, <2>2, <1>1, SlotFacts, NoLocIs
<1> HIDE DEF np, x
<1>4. /\ state'[np] = "EMBRYO" /\ \A q \in Slot \ {np} : state'[q] = state[q] /\ pid'[q] = pid[q]
      /\ pid'[np] = nextpid
      /\ pc'[p] = "fork_kstack" /\ loc'[p] = x
      /\ \A q \in Slot \ {p} : pc'[q] = pc[q] /\ loc'[q] = loc[q]
      /\ p # np
  BY <1>1, <1>2, <1>3 DEF TableInv, TableType
<1>5. TableType'
  <2>1. state' \in [Slot -> ProcState] /\ pc' \in [Slot -> Label] /\ loc' \in [Slot -> Locals]
    BY <1>2, <1>3 DEF TableInv, TableType, ProcState, Label, InMemory, Forking
  <2>2. pid' \in [Slot -> Nat] /\ nextpid' \in 0..(MaxPid + NPROC + 1)
    <3>1. nextpid \in Nat /\ MaxPid \in Nat /\ NPROC \in Nat /\ pid \in [Slot -> Nat]
      BY ProcAssumption DEF TableInv, TableType
    <3> QED
      BY <1>1, <1>2, <3>1
  <2> QED
    BY <1>2, <2>1, <2>2 DEF TableInv, TableType
<1>6. PcInv'
  BY <1>1, <1>2, <1>4 DEF TableInv, PcInv, Alive
<1>7. ForkInv'
  <2>1. \A q \in Slot \ {p} : pc'[q] \in Forking => loc'[q].np # np /\ loc'[q].np \in Slot /\ state'[loc'[q].np] = "EMBRYO"
    BY <1>1, <1>4 DEF TableInv, ForkInv
  <2>2. loc'[p].np = np
    BY <1>3, <1>4
  <2>3. ASSUME NEW q \in Slot, NEW r \in Slot \ {q}, pc'[q] \in Forking, pc'[r] \in Forking
        PROVE  loc'[r].np # loc'[q].np
    <3>1. CASE q # p /\ r # p
      BY <3>1, <2>3, <1>4 DEF TableInv, ForkInv
    <3> QED
      BY <3>1, <2>1, <2>2, <2>3
  <2> QED
    BY <1>1, <1>4, <2>1, <2>2, <2>3 DEF ForkInv
<1>8. PidInv'
  <2>1. nextpid \in Nat /\ pid \in [Slot -> Nat]
    BY DEF TableInv, TableType
  <2>2. \A q \in Slot : pid'[q] < nextpid'
    BY <1>2, <1>4, <2>1 DEF TableInv, PidInv
  <2>3. \A q \in Slot : pid[q] # nextpid
    BY <2>1 DEF TableInv, PidInv
  <2> QED
    BY <1>4, <2>2, <2>3 DEF TableInv, PidInv
<1>9. ParentInv'
  <2>1. \A q \in Slot : Live(q)' => Live(q) /\ q # np
    BY <1>4 DEF Live
  <2>2. \A q \in Slot : state[q] \in Alive => state'[q] \in Alive
    BY <1>1, <1>4 DEF Alive
  <2>3. \A q \in Slot : state'[q] \in {"UNUSED", "EMBRYO"} => state[q] \in {"UNUSED", "EMBRYO"}
    BY <1>1, <1>4
  <2> QED
    BY <1>2, <2>1, <2>2, <2>3, SlotFacts DEF TableInv, ParentInv
<1>10. WaitInv'
  <2>1. \A q \in Slot : state'[q] = "SLEEPING" => state[q] = "SLEEPING"
    BY <1>4
  <2>2. \A q \in Slot : state'[q] = "ZOMBIE" => state[q] = "ZOMBIE"
    BY <1>4
  <2> QED
    BY <1>2, <2>1, <2>2 DEF TableInv, WaitInv
<1>11. MemType'
  BY <1>2, <1>4 DEF MemType
<1>12. Moves(Common \cup InMemory)
  BY <1>2, <1>4 DEF Moves, Common, InMemory, Forking
<1>13. Sleeps({"wait"})
  BY <1>1, <1>2, <1>4 DEF Sleeps
<1> QED
  BY <1>5, <1>6, <1>7, <1>8, <1>9, <1>10, <1>11, <1>12, <1>13 DEF TableInv, MemKeeps

\* fork() that runs out of pages gives the slot back.
LEMMA AbandonTable ==
  ASSUME TableInv, MemType, NEW p \in Slot, state[p] = "RUNNING", pc[p] \in Forking, Abandon(p)
  PROVE  MemKeeps
<1> DEFINE np == loc[p].np
<1>1. /\ np \in Slot /\ state[np] = "EMBRYO" /\ p # np /\ parent[np] = 0
      /\ \A q \in Slot \ {p} : pc[q] \in Forking => loc[q].np # np
  BY DEF TableInv, ForkInv, ParentInv
<1>2. /\ state' = [state EXCEPT ![np] = "UNUSED"]
      /\ kstack' = kstack \ {np}
      /\ vm' = [vm EXCEPT ![np] = NoSpace]
      /\ pc' = [pc EXCEPT ![p] = "user"] /\ loc' = [loc EXCEPT ![p] = NoLoc]
      /\ UNCHANGED <<pid, parent, killed, chan, nextpid, ofile, sz, spare>>
  BY DEF Abandon, Return, Goto
<1> HIDE DEF np
<1>4. /\ state'[np] = "UNUSED" /\ \A q \in Slot \ {np} : state'[q] = state[q]
      /\ pc'[p] = "user" /\ loc'[p] = NoLoc
      /\ \A q \in Slot \ {p} : pc'[q] = pc[q] /\ loc'[q] = loc[q]
  BY <1>1, <1>2 DEF TableInv, TableType
<1>5. TableType'
  <2>1. state' \in [Slot -> ProcState] /\ pc' \in [Slot -> Label] /\ loc' \in [Slot -> Locals]
    BY <1>2, NoLocIs DEF TableInv, TableType, ProcState, Label, Common
  <2> QED
    BY <1>2, <2>1 DEF TableInv, TableType
<1>6. PcInv'
  BY <1>1, <1>4 DEF TableInv, PcInv, Alive
<1>7. ForkInv'
  <2>1. \A q \in Slot : pc'[q] \in Forking => q # p /\ loc'[q] = loc[q] /\ loc[q].np # np /\ pc[q] \in Forking
    BY <1>1, <1>4 DEF Forking
  <2> QED
    BY <2>1, <1>4 DEF TableInv, ForkInv
<1>8. PidInv'
  BY <1>2, <1>4 DEF TableInv, PidInv
<1>9. ParentInv'
  <2>1. \A q \in Slot : Live(q)' => Live(q) /\ q # np
    BY <1>4 DEF Live
  <2>2. \A q \in Slot : state[q] \in Alive => state'[q] \in Alive
    BY <1>1, <1>4 DEF Alive
  <2>3. \A q \in Slot : state'[q] \in {"UNUSED", "EMBRYO"} => state[q] \in {"UNUSED", "EMBRYO"}
    BY <1>1, <1>4
  <2> QED
    BY <1>2, <2>1, <2>2, <2>3, SlotFacts DEF TableInv, ParentInv
<1>10. WaitInv'
  <2>1. \A q \in Slot : state'[q] = "SLEEPING" => state[q] = "SLEEPING"
    BY <1>4
  <2>2. \A q \in Slot : state'[q] = "ZOMBIE" => state[q] = "ZOMBIE"
    BY <1>4
  <2> QED
    BY <1>2, <2>1, <2>2 DEF TableInv, WaitInv
<1>11. MemType'
  <2>1. vm' \in [Slot -> Space]
    BY <1>2, SpaceFacts DEF MemType
  <2>2. \A q \in Slot : pc'[q] = "allocuvm" => pc[q] = "allocuvm" /\ loc'[q] = loc[q]
    BY <1>4
  <2> QED
    BY <1>2, <2>1, <2>2 DEF MemType
<1>12. Moves(Common \cup InMemory)
  BY <1>4 DEF Moves, Common, InMemory, Forking
<1>13. Sleeps({"wait"})
  BY <1>1, <1>2, <1>4 DEF Sleeps
<1> QED
  BY <1>5, <1>6, <1>7, <1>8, <1>9, <1>10, <1>11, <1>12, <1>13 DEF TableInv, MemKeeps

\* fork() makes the child runnable, its parent the caller.
LEMMA ForkReturnTable ==
  ASSUME TableInv, MemType, NEW p \in Slot, fork_return(p)
  PROVE  MemKeeps
<1> DEFINE np == loc[p].np
<1>1. state[p] = "RUNNING" /\ pc[p] = "copyuvm"
  BY DEF fork_return, Running
<1>2. /\ np \in Slot /\ state[np] = "EMBRYO" /\ p # np /\ pc[np] = "none" /\ parent[np] = 0
      /\ \A q \in Slot \ {p} : pc[q] \in Forking => loc[q].np # np
  BY <1>1 DEF TableInv, ForkInv, ParentInv, PcInv, Alive, Forking
<1>3. /\ sz' = [sz EXCEPT ![np] = sz[p]]
      /\ parent' = [parent EXCEPT ![np] = p]
      /\ ofile' = [ofile EXCEPT ![np] = ofile[p]]
      /\ state' = [state EXCEPT ![np] = "RUNNABLE"]
      /\ pc' = [pc EXCEPT ![p] = "user", ![np] = "user"]
      /\ loc' = [loc EXCEPT ![p] = NoLoc, ![np] = NoLoc]
      /\ UNCHANGED <<pid, killed, chan, nextpid, nfree, kstack, vm, spare>>
  BY DEF fork_return
<1> HIDE DEF np
<1>4. /\ state'[np] = "RUNNABLE" /\ parent'[np] = p
      /\ \A q \in Slot \ {np} : state'[q] = state[q] /\ parent'[q] = parent[q]
      /\ pc'[p] = "user" /\ pc'[np] = "user" /\ loc'[p] = NoLoc /\ loc'[np] = NoLoc
      /\ \A q \in Slot \ {p, np} : pc'[q] = pc[q] /\ loc'[q] = loc[q]
  BY <1>2, <1>3 DEF TableInv, TableType
<1>5. TableType'
  <2>1. state' \in [Slot -> ProcState] /\ pc' \in [Slot -> Label] /\ loc' \in [Slot -> Locals]
    BY <1>2, <1>3, NoLocIs DEF TableInv, TableType, ProcState, Label, Common
  <2>2. parent' \in [Slot -> 0..NPROC] /\ ofile' \in [Slot -> SUBSET {"r", "w"}]
    BY <1>2, <1>3, SlotFacts DEF TableInv, TableType
  <2> QED
    BY <1>3, <2>1, <2>2 DEF TableInv, TableType
<1>6. PcInv'
  BY <1>1, <1>2, <1>4 DEF TableInv, PcInv, Alive
<1>7. ForkInv'
  <2>1. \A q \in Slot : pc'[q] \in Forking =>
            q # p /\ q # np /\ loc'[q] = loc[q] /\ loc[q].np # np /\ pc[q] \in Forking
    BY <1>2, <1>4 DEF Forking
  <2> QED
    BY <2>1, <1>4 DEF TableInv, ForkInv
<1>8. PidInv'
  BY <1>2, <1>3, <1>4 DEF TableInv, PidInv
<1>9. ParentInv'
  <2>1. \A q \in Slot \ {np} : Live(q)' => Live(q)
    BY <1>4 DEF Live
  <2>2. \A q \in Slot : state[q] \in Alive => state'[q] \in Alive
    BY <1>2, <1>4 DEF Alive
  <2>3. \A q \in Slot : state'[q] \in {"UNUSED", "EMBRYO"} => state[q] \in {"UNUSED", "EMBRYO"} /\ q # np
    BY <1>2, <1>4
  <2>4. np # initproc /\ state'[p] \in Alive
    BY <1>1, <1>2, <1>4 DEF TableInv, ParentInv, Alive
  <2>5. \A q \in Slot \ {initproc} : Live(q)' => parent'[q] \in Slot /\ state'[parent'[q]] \in Alive
    BY <1>2, <1>4, <2>1, <2>2, <2>4 DEF TableInv, ParentInv
  <2>6. \A q \in Slot : parent'[q] # q
    BY <1>2, <1>4 DEF TableInv, ParentInv
  <2>7. state'[initproc] \in Alive /\ parent'[initproc] = 0
    BY <1>4, <2>2, <2>4, SlotFacts DEF TableInv, ParentInv
  <2>8. \A q \in Slot : state'[q] \in {"UNUSED", "EMBRYO"} => parent'[q] = 0
    BY <1>4, <2>3 DEF TableInv, ParentInv
  <2> QED
    BY <2>5, <2>6, <2>7, <2>8 DEF ParentInv
<1>10. WaitInv'
  <2> SUFFICES ASSUME NEW q \in Slot, state'[q] = "SLEEPING"
               PROVE  /\ chan'[q][1] \in Kind
                      /\ chan'[q][1] = "wait" =>
                           /\ chan'[q][2] = q
                           /\ \E r \in Slot : parent'[r] = q
                           /\ \A r \in Slot : parent'[r] = q => state'[r] # "ZOMBIE"
    BY DEF WaitInv
  <2>1. q # np /\ q # p /\ state[q] = "SLEEPING" /\ chan'[q] = chan[q]
    BY <1>1, <1>2, <1>3, <1>4
  <2>2. \A r \in Slot : parent'[r] = q <=> parent[r] = q
    BY <1>2, <1>4, <2>1, SlotFacts
  <2>3. \A r \in Slot : state'[r] = "ZOMBIE" => state[r] = "ZOMBIE"
    BY <1>4
  <2> QED
    BY <2>1, <2>2, <2>3 DEF TableInv, WaitInv
<1>11. MemType'
  <2>1. sz' \in [Slot -> 0..KERNBASE]
    BY <1>2, <1>3 DEF MemType
  <2>2. \A q \in Slot : pc'[q] = "allocuvm" => pc[q] = "allocuvm" /\ loc'[q] = loc[q]
    BY <1>4
  <2> QED
    BY <1>3, <2>1, <2>2 DEF MemType
<1>12. Moves(Common \cup InMemory)
  BY <1>1, <1>2, <1>4 DEF Moves, Common, InMemory, Forking
<1>13. Sleeps({"wait"})
  BY <1>2, <1>3, <1>4 DEF Sleeps
<1> QED
  BY <1>5, <1>6, <1>7, <1>8, <1>9, <1>10, <1>11, <1>12, <1>13 DEF TableInv, MemKeeps

\* wait() frees one zombie, returns without children, or sleeps until one exits.
LEMMA WaitTable ==
  ASSUME TableInv, MemType, NEW p \in Slot, wait(p)
  PROVE  MemKeeps
<1> DEFINE L == Common
<1>1. L \in SUBSET Label /\ {"user", "wait"} \subseteq L /\ L \cap Forking = {}
  BY DEF Label, Common, Forking
<1>2. TableType
  BY DEF TableInv
<1>3. state[p] = "RUNNING" /\ pc[p] \in {"user", "wait"}
  BY DEF wait, InUser, Running
<1>4. ASSUME MemType', TableInv', Moves(Common), Sleeps({"wait"}) PROVE MemKeeps
  BY <1>4 DEF MemKeeps, Moves
<1>5. ASSUME Zombies(p) # {}, Return(p), UNCHANGED <<chan, nextpid, ofile, panicked, spare>>,
             LET q == Min(Zombies(p))
             IN  /\ nfree' = nfree + Owned(q)
                 /\ kstack' = kstack \ {q}
                 /\ vm' = [vm EXCEPT ![q] = NoSpace]
                 /\ sz' = [sz EXCEPT ![q] = 0]
                 /\ pid' = [pid EXCEPT ![q] = 0]
                 /\ parent' = [parent EXCEPT ![q] = 0]
                 /\ killed' = [killed EXCEPT ![q] = FALSE]
                 /\ state' = [state EXCEPT ![q] = "UNUSED"]
      PROVE  MemKeeps
  <2> DEFINE q == Min(Zombies(p))
  <2>1. q \in Slot /\ parent[q] = p /\ state[q] = "ZOMBIE"
    <3>1. Zombies(p) \subseteq Slot
      BY DEF Zombies, Children
    <3>2. q \in Zombies(p)
      BY <3>1, <1>5, SlotFacts, MinIs
    <3> QED
      BY <3>2 DEF Zombies, Children
  <2>2. /\ kstack' = kstack \ {q}
        /\ vm' = [vm EXCEPT ![q] = NoSpace]
        /\ sz' = [sz EXCEPT ![q] = 0]
        /\ pid' = [pid EXCEPT ![q] = 0]
        /\ parent' = [parent EXCEPT ![q] = 0]
        /\ killed' = [killed EXCEPT ![q] = FALSE]
        /\ state' = [state EXCEPT ![q] = "UNUSED"]
        /\ pc' = [pc EXCEPT ![p] = "user"] /\ loc' = [loc EXCEPT ![p] = NoLoc]
        /\ UNCHANGED <<chan, nextpid, ofile, panicked, spare>>
    BY <1>5 DEF Return, Goto
  <2> HIDE DEF q
  <2>3. /\ state'[q] = "UNUSED" /\ pid'[q] = 0 /\ parent'[q] = 0
        /\ \A r \in Slot \ {q} : state'[r] = state[r] /\ pid'[r] = pid[r] /\ parent'[r] = parent[r]
        /\ pc'[p] = "user" /\ loc'[p] = NoLoc
        /\ \A r \in Slot \ {p} : pc'[r] = pc[r] /\ loc'[r] = loc[r]
        /\ p # q
    BY <2>1, <2>2, <1>2, <1>3 DEF TableType
  <2>4. TableType'
    <3>1. state' \in [Slot -> ProcState] /\ pc' \in [Slot -> Label] /\ loc' \in [Slot -> Locals]
      BY <2>1, <2>2, <1>2, NoLocIs DEF TableType, ProcState, Label, Common
    <3>2. parent' \in [Slot -> 0..NPROC] /\ pid' \in [Slot -> Nat]
      BY <2>1, <2>2, <1>2, SlotFacts DEF TableType
    <3>3. killed' \in [Slot -> BOOLEAN]
      BY <2>2, <1>2 DEF TableType
    <3> QED
      BY <2>2, <3>1, <3>2, <3>3, <1>2 DEF TableType
  <2>5. PcInv'
    BY <1>3, <2>1, <2>3 DEF TableInv, PcInv, Alive
  <2>6. ForkInv'
    <3>1. \A r \in Slot : pc'[r] \in Forking => r # p /\ loc'[r] = loc[r] /\ pc[r] \in Forking
      BY <2>3 DEF Forking
    <3>2. \A r \in Slot : state[r] = "EMBRYO" => state'[r] = "EMBRYO"
      BY <2>1, <2>3
    <3> QED
      BY <3>1, <3>2 DEF TableInv, ForkInv
  <2>7. PidInv'
    <3>1. 0 < nextpid
      BY <1>2 DEF TableInv, PidInv, TableType
    <3>2. \A r \in Slot : state'[r] # "UNUSED" => r # q /\ state[r] # "UNUSED"
      BY <2>3
    <3>3. \A r \in Slot : pid'[r] < nextpid'
      BY <2>2, <2>3, <3>1 DEF TableInv, PidInv
    <3> QED
      BY <2>3, <3>2, <3>3 DEF TableInv, PidInv
  <2>8. ParentInv'
    <3>1. \A r \in Slot : Live(r)' => Live(r) /\ r # q
      BY <2>3 DEF Live
    <3>2. \A r \in Slot : state[r] \in Alive => state'[r] \in Alive /\ r # q
      BY <2>1, <2>3 DEF Alive
    <3>3. \A r \in Slot : state'[r] \in {"UNUSED", "EMBRYO"} => r = q \/ state[r] \in {"UNUSED", "EMBRYO"}
      BY <2>1, <2>3
    <3>4. \A r \in Slot : parent'[r] # r
      BY <2>3, SlotFacts DEF TableInv, ParentInv
    <3>5. \A r \in Slot \ {initproc} : Live(r)' => parent'[r] \in Slot /\ state'[parent'[r]] \in Alive
      BY <2>3, <3>1, <3>2 DEF TableInv, ParentInv
    <3>6. \A r \in Slot : state'[r] \in {"UNUSED", "EMBRYO"} => parent'[r] = 0
      BY <2>3, <3>3 DEF TableInv, ParentInv
    <3>7. state'[initproc] \in Alive /\ parent'[initproc] = 0
      BY <2>3, <3>2, SlotFacts DEF TableInv, ParentInv
    <3> QED
      BY <3>4, <3>5, <3>6, <3>7 DEF ParentInv
  <2>9. WaitInv'
    <3> SUFFICES ASSUME NEW r \in Slot, state'[r] = "SLEEPING"
                 PROVE  /\ chan'[r][1] \in Kind
                        /\ chan'[r][1] = "wait" =>
                             /\ chan'[r][2] = r
                             /\ \E s \in Slot : parent'[s] = r
                             /\ \A s \in Slot : parent'[s] = r => state'[s] # "ZOMBIE"
      BY DEF WaitInv
    <3>1. r # q /\ r # p /\ state[r] = "SLEEPING" /\ chan'[r] = chan[r]
      BY <1>3, <2>2, <2>3
    <3>2. \A s \in Slot : parent'[s] = r <=> parent[s] = r
      BY <2>1, <2>3, <3>1, SlotFacts
    <3>3. \A s \in Slot : state'[s] = "ZOMBIE" => state[s] = "ZOMBIE"
      BY <2>3
    <3> QED
      BY <3>1, <3>2, <3>3 DEF TableInv, WaitInv
  <2>10. MemType'
    <3>1. vm' \in [Slot -> Space] /\ sz' \in [Slot -> 0..KERNBASE]
      <4>1. 0 \in 0..KERNBASE
        BY MemFacts
      <4>2. NoSpace \in Space
        BY SpaceFacts
      <4> QED
        BY <2>1, <2>2, <4>1, <4>2 DEF MemType
    <3>2. \A r \in Slot : pc'[r] = "allocuvm" => pc[r] = "allocuvm" /\ loc'[r] = loc[r]
      BY <2>3
    <3> QED
      BY <2>2, <3>1, <3>2 DEF MemType
  <2>11. Moves(Common)
    BY <1>3, <2>3 DEF Moves, Common
  <2>12. Sleeps({"wait"})
    BY <2>2, <2>3 DEF Sleeps
  <2> QED
    BY <1>4, <2>4, <2>5, <2>6, <2>7, <2>8, <2>9, <2>10, <2>11, <2>12 DEF TableInv
<1>6. ASSUME Return(p), UNCHANGED <<ptable, ofile, panicked, memVars>>
      PROVE  MemKeeps
  <2>1. StateStep({}) /\ PcStep(L)
    BY <1>1, <1>2, <1>3, <1>6, StateSame, PcReturn DEF ptable
  <2>2. Foreign(L, {})
    BY <1>2, <1>6, <2>1 DEF Foreign, ptable, TableType
  <2>3. TableInv'
    BY <2>2, <1>1, ForeignKeeps
  <2>4. \A r \in Slot : pc'[r] = "allocuvm" => pc[r] = "allocuvm" /\ loc'[r] = loc[r]
    BY <2>1 DEF PcStep, Moves, Common
  <2>5. MemType'
    BY <1>6, <2>4 DEF MemType, memVars
  <2> QED
    BY <1>4, <2>1, <2>3, <2>5 DEF StateStep, PcStep, Sleeps
<1>7. ASSUME Zombies(p) = {}, Children(p) # {}, sleep(p, <<"wait", p>>), Goto(p, "wait"),
             UNCHANGED <<pid, parent, killed, nextpid, ofile, loc, panicked, memVars>>
      PROVE  MemKeeps
  <2>1. p \in Nat /\ {"wait"} \in SUBSET Kind
    BY SlotFacts DEF Kind
  <2>2. StateStep({"wait"})
    BY <1>2, <1>3, <1>7, <2>1, StateSlept
  <2>3. PcStep(L)
    BY <1>1, <1>2, <1>3, <1>7, PcJump
  <2>4. Foreign(L, {"wait"})
    BY <1>2, <1>7, <2>2, <2>3 DEF Foreign, TableType
  <2>5. \A r \in Slot : pc'[r] = "allocuvm" => pc[r] = "allocuvm" /\ loc'[r] = loc[r]
    BY <2>3 DEF PcStep, Moves, Common
  <2>6. MemType'
    BY <1>7, <2>5 DEF MemType, memVars
  <2>7. /\ \A r \in Slot \ {p} : state'[r] = state[r] /\ chan'[r] = chan[r]
        /\ state'[p] = "SLEEPING" /\ chan'[p] = <<"wait", p>>
    BY <1>2, <1>7 DEF sleep, TableType
  <2>8. TableType' /\ PcInv'
    BY <2>4 DEF Foreign, StateStep, PcStep, PcInv, TableType, TableInv
  <2>9. ForkInv'
    <3>1. \A r \in Slot : pc'[r] \in Forking => pc[r] \in Forking /\ loc'[r] = loc[r]
      BY <2>3 DEF PcStep, Moves, Common, Forking
    <3>2. \A r \in Slot : state[r] = "EMBRYO" => state'[r] = "EMBRYO"
      BY <1>3, <2>7
    <3> QED
      BY <3>1, <3>2 DEF TableInv, ForkInv
  <2>10. PidInv'
    BY <1>3, <1>7, <2>7 DEF TableInv, PidInv
  <2>11. ParentInv'
    <3>1. \A r \in Slot : Live(r)' => Live(r)
      BY <1>3, <2>7 DEF Live
    <3>2. \A r \in Slot : state[r] \in Alive => state'[r] \in Alive
      BY <2>7 DEF Alive
    <3>3. \A r \in Slot : state'[r] \in {"UNUSED", "EMBRYO"} => state[r] \in {"UNUSED", "EMBRYO"}
      BY <2>7
    <3> QED
      BY <1>7, <3>1, <3>2, <3>3, SlotFacts DEF TableInv, ParentInv
  <2>12. WaitInv'
    <3>1. \A r \in Slot \ {p} : state'[r] = "SLEEPING" =>
            /\ chan'[r][1] \in Kind
            /\ chan'[r][1] = "wait" =>
                 /\ chan'[r][2] = r
                 /\ \E s \in Slot : parent'[s] = r
                 /\ \A s \in Slot : parent'[s] = r => state'[s] # "ZOMBIE"
      BY <1>7, <2>7 DEF TableInv, WaitInv
    <3>2. chan'[p][1] = "wait" /\ chan'[p][2] = p
      BY <2>7
    <3>3. \E s \in Slot : parent'[s] = p
      BY <1>7 DEF Children
    <3>4. \A s \in Slot : parent'[s] = p => state'[s] # "ZOMBIE"
      BY <1>7, <2>7 DEF Zombies, Children
    <3> QED
      BY <3>1, <3>2, <3>3, <3>4 DEF WaitInv, Kind
  <2> QED
    BY <1>4, <2>2, <2>3, <2>6, <2>8, <2>9, <2>10, <2>11, <2>12 DEF StateStep, PcStep, TableInv
<1> QED
  BY <1>5, <1>6, <1>7 DEF wait

\* Steps of sbrk, exec and the page fault, and those of fork that succeed.
LEMMA SpaceStep ==
  ASSUME TableInv, NEW L \in SUBSET Label, L \subseteq Common \cup InMemory, StateStep({}), PcStep(L),
         UNCHANGED <<pid, parent, nextpid, ofile>>, killed' \in [Slot -> BOOLEAN],
         \A q \in Slot : pc'[q] \in Forking => pc[q] \in Forking /\ loc'[q].np = loc[q].np,
         MemType'
  PROVE  MemKeeps
<1>1. Foreign(L, {})
  BY DEF Foreign, TableInv, TableType
<1>2. TableInv'
  BY <1>1, ForkKeeps
<1> QED
  BY <1>2 DEF MemKeeps, PcStep, StateStep, Moves, Sleeps

\* PGROUNDUP is a size, and its first page a page number.
LEMMA RoundUp ==
  ASSUME NEW x \in Nat
  PROVE  PGROUNDUP(x) \in Nat /\ FirstPage(x) \in Nat
<1> DEFINE d == (x + PGSIZE - 1) \div PGSIZE
           y == d * PGSIZE
<1>1. PGSIZE \in Nat \ {0} /\ x + PGSIZE - 1 \in Nat
  BY MemFacts
<1>2. d \in Nat
  BY <1>1, SMTT(30)
<1>3. y \in Nat
  BY <1>1, <1>2, SMTT(30)
<1>4. PGROUNDUP(x) = y /\ FirstPage(x) = y \div PGSIZE
  BY DEF PGROUNDUP, FirstPage
<1> HIDE DEF y
<1>5. y \div PGSIZE \in Nat
  BY <1>1, <1>3, SMTT(30)
<1> QED
  BY <1>3, <1>4, <1>5

\* The allocations of fork(), each of which may fail, keep the table and the types.
LEMMA ForkSteps ==
  ASSUME TableInv, MemType, NEW p \in Slot, fork_kstack(p) \/ fork_setupkvm(p) \/ copyuvm(p)
  PROVE  MemKeeps
<1> DEFINE L == Forking
           np == loc[p].np
<1>1. L \in SUBSET Label /\ L \subseteq Common \cup InMemory /\ "none" \notin L
  BY DEF Forking, Label, InMemory
<1>2. state[p] = "RUNNING" /\ pc[p] \in Forking
  BY DEF fork_kstack, fork_setupkvm, copyuvm, Running, Forking
<1>3. np \in Slot
  BY <1>2 DEF TableInv, ForkInv
<1>4. TableType
  BY DEF TableInv
<1>5. CASE Abandon(p)
  BY <1>2, <1>5, AbandonTable
<1>6. ASSUME UNCHANGED <<ptable, ofile, loc, sz, spare>>, NEW l \in Forking, Goto(p, l),
             kstack' \subseteq Slot, vm' \in [Slot -> Space]
      PROVE  MemKeeps
  <2>1. StateStep({}) /\ UNCHANGED <<pid, parent, nextpid, killed>>
    BY <1>4, <1>6, StateSame DEF ptable
  <2>2. PcStep(L)
    BY <1>1, <1>2, <1>4, <1>6, PcJump
  <2>3. \A q \in Slot : pc'[q] = pc[q] \/ (q = p /\ pc'[q] = l)
    BY <1>6, <1>4 DEF Goto, TableType
  <2>4. MemType'
    BY <1>6, <2>3 DEF MemType, Forking
  <2>5. killed' \in [Slot -> BOOLEAN]
    BY <2>1, <1>4 DEF TableType
  <2>6. \A q \in Slot : pc'[q] \in Forking => pc[q] \in Forking /\ loc'[q].np = loc[q].np
    BY <2>3, <1>2, <1>6
  <2> QED
    BY <1>1, <1>6, <2>1, <2>2, <2>4, <2>5, <2>6, SpaceStep
<1>7. ASSUME fork_kstack(p), ~ Abandon(p) PROVE MemKeeps
  <2>1. /\ kstack' = kstack \cup {np} /\ Goto(p, "fork_setupkvm")
        /\ UNCHANGED <<ptable, ofile, loc, vm, sz, spare>>
    BY <1>7 DEF fork_kstack
  <2>2. kstack' \subseteq Slot /\ vm' \in [Slot -> Space] /\ "fork_setupkvm" \in Forking
    BY <2>1, <1>3 DEF MemType, Forking
  <2> HIDE DEF np
  <2> QED
    BY <2>1, <2>2, <1>6
<1>8. ASSUME fork_setupkvm(p), ~ Abandon(p) PROVE MemKeeps
  <2>1. /\ vm' = [vm EXCEPT ![np] = setupkvm] /\ Goto(p, "copyuvm")
        /\ UNCHANGED <<ptable, ofile, loc, kstack, sz, spare>>
    BY <1>8 DEF fork_setupkvm
  <2>2. setupkvm \in Space
    BY SpaceFacts
  <2>3. kstack' \subseteq Slot /\ vm' \in [Slot -> Space] /\ "copyuvm" \in Forking
    BY <2>1, <2>2, <1>3 DEF MemType, Forking
  <2> HIDE DEF np
  <2> QED
    BY <2>1, <2>3, <1>6
<1>9. ASSUME copyuvm(p), ~ Abandon(p) PROVE MemKeeps
  <2> DEFINE g == loc[p].i
             v == vm[p].pte[g]
             x == [np |-> loc[p].np, i |-> g + 1, n |-> loc[p].n]
  <2>1. /\ pc[p] = "copyuvm" /\ g * PGSIZE < sz[p]
        /\ vm' = IF v = "none" THEN vm ELSE [vm EXCEPT ![np] = Map(@, g, v)]
        /\ loc' = [loc EXCEPT ![p].i = @ + 1]
        /\ UNCHANGED <<ptable, ofile, pc, kstack, sz, spare>>
    BY <1>9 DEF copyuvm
  <2>2. g \in Nat /\ loc[p] \in Locals
    BY <1>4 DEF TableType, Locals
  <2>3. g \in Page
    <3>1. sz[p] \in 0..KERNBASE /\ KERNBASE \in Nat /\ PGSIZE \in Nat
      BY MemFacts DEF MemType
    <3>2. g * PGSIZE \in Nat
      BY <2>2, <3>1, SMTT(30)
    <3>3. g * PGSIZE < KERNBASE
      BY <2>1, <3>1, <3>2
    <3> QED
      BY <2>2, <3>3, MemFacts
  <2>4. v \in {"none", "ssu", "present", "guard"} /\ vm[np] \in Space
    BY <2>3, <1>3 DEF MemType, Space
  <2>5. loc' = [loc EXCEPT ![p].i = g + 1]
    BY <2>1, <1>4 DEF TableType
  <2>6. loc' = [loc EXCEPT ![p] = x] /\ x \in Locals
    <3> DEFINE y == g + 1
    <3>1. y \in Nat
      BY <2>2
    <3>2. loc' = [loc EXCEPT ![p].i = y]
      BY <2>5
    <3>3. x = [np |-> loc[p].np, i |-> y, n |-> loc[p].n]
      OBVIOUS
    <3> HIDE DEF y, x
    <3> QED
      BY <3>1, <3>2, <3>3, <1>4, LocExcept
  <2>7. vm' \in [Slot -> Space]
    <3>1. Map(vm[np], g, v) \in Space
      BY <2>3, <2>4, SpaceFacts
    <3>2. vm' = vm \/ vm' = [vm EXCEPT ![np] = Map(vm[np], g, v)]
      BY <2>1, <1>3
    <3> HIDE DEF v, g
    <3> QED
      BY <3>1, <3>2, <1>3 DEF MemType
  <2>8. x.np = loc[p].np
    OBVIOUS
  <2> HIDE DEF v, g, x
  <2>9. /\ \A q \in Slot \ {p} : loc'[q] = loc[q]
        /\ loc'[p] = x /\ loc' \in [Slot -> Locals] /\ pc' = pc
    BY <2>1, <2>6, <1>4 DEF TableType
  <2>10. PcStep(L)
    BY <2>9, <1>2, <1>4 DEF PcStep, Moves, TableType
  <2>11. MemType'
    BY <2>1, <2>7, <2>9 DEF MemType
  <2>12. StateStep({}) /\ UNCHANGED <<pid, parent, nextpid, ofile, killed>>
    BY <1>4, <2>1, StateSame DEF ptable
  <2>13. killed' \in [Slot -> BOOLEAN]
    BY <2>12, <1>4 DEF TableType
  <2>14. \A q \in Slot : pc'[q] \in Forking => pc[q] \in Forking /\ loc'[q].np = loc[q].np
    BY <2>8, <2>9
  <2> QED
    BY <1>1, <2>10, <2>11, <2>12, <2>13, <2>14, SpaceStep
<1> QED
  BY <1>5, <1>7, <1>8, <1>9

\* sbrk() and the loop of allocuvm(), which may run out of pages, keep the table and the types.
LEMMA AllocFrame ==
  ASSUME TableInv, MemType, NEW p \in Slot,
         (\E n \in IOSizes : sbrk_grow(p, n) \/ sbrk_shrink(p, n)) \/ allocuvm(p)
  PROVE  MemKeeps
<1> DEFINE L == {"user", "allocuvm"}
<1>1. /\ L \in SUBSET Label /\ L \subseteq Common \cup InMemory /\ L \cap Forking = {} /\ "none" \notin L
      /\ "user" \in L /\ "allocuvm" \in L
  BY DEF Forking, Label, InMemory, Common
<1>2. TableType
  BY DEF TableInv
<1>3. /\ sz[p] \in 0..KERNBASE /\ KERNBASE \in Nat /\ IOSizes \subseteq Nat /\ PGSIZE \in Nat
      /\ vm \in [Slot -> Space] /\ sz \in [Slot -> 0..KERNBASE] /\ vm[p] \in Space
      /\ spare \in [Slot -> Space] /\ kstack \subseteq Slot
  BY MemFacts, PipeAssumption DEF MemType
<1>4. ASSUME UNCHANGED <<ptable, ofile>>, PcStep(L), MemType'
      PROVE  MemKeeps
  <2>1. StateStep({}) /\ UNCHANGED <<pid, parent, nextpid, killed>>
    BY <1>2, <1>4, StateSame DEF ptable
  <2>2. killed' \in [Slot -> BOOLEAN]
    BY <2>1, <1>2 DEF TableType
  <2>3. \A q \in Slot : pc'[q] \in Forking => pc[q] \in Forking /\ loc'[q].np = loc[q].np
    BY <1>1, <1>4 DEF PcStep, Moves
  <2> QED
    BY <1>1, <1>4, <2>1, <2>2, <2>3, SpaceStep
<1>5. CASE \E n \in IOSizes : sbrk_grow(p, n)
  <2>1. PICK n \in IOSizes : sbrk_grow(p, n)
    BY <1>5
  <2> DEFINE a == FirstPage(sz[p])
             m == sz[p] + n
             x == [np |-> 0, i |-> a, n |-> m]
  <2>2. a \in Nat /\ m \in Nat /\ sz[p] \in Nat
    BY <1>3, RoundUp
  <2>3. /\ pc[p] = "user" /\ m < KERNBASE
        /\ loc' = [loc EXCEPT ![p] = [NoLoc EXCEPT !.i = a, !.n = m]]
        /\ Goto(p, "allocuvm")
        /\ UNCHANGED <<ptable, ofile, memVars>>
    BY <2>1 DEF sbrk_grow, InUser
  <2> HIDE DEF a, m
  <2>4. loc' = [loc EXCEPT ![p] = x] /\ x \in Locals /\ x.n = m
    BY <2>2, <2>3, NoLocIs
  <2> HIDE DEF x
  <2>5. PcStep(L)
    BY <2>3, <2>4, <1>1, <1>2, PcGoto
  <2>6. loc'[p] = x /\ \A q \in Slot \ {p} : loc'[q] = loc[q] /\ pc'[q] = pc[q]
    BY <2>3, <2>4, <1>2 DEF TableType, Goto
  <2>7. MemType'
    <3>1. \A q \in Slot : pc'[q] = "allocuvm" => loc'[q].n < KERNBASE
      BY <2>3, <2>4, <2>6 DEF MemType
    <3> QED
      BY <2>3, <3>1 DEF MemType, memVars
  <2> QED
    BY <1>4, <2>3, <2>5, <2>7
<1>6. CASE \E n \in IOSizes : sbrk_shrink(p, n)
  <2>1. PICK n \in IOSizes : sbrk_shrink(p, n)
    BY <1>6
  <2> DEFINE newsz == sz[p] - n
             freed == deallocuvm(vm[p], sz[p], newsz)
  <2>2. /\ n <= sz[p]
        /\ vm' = [vm EXCEPT ![p] = freed]
        /\ sz' = IF newsz = 0 THEN sz ELSE [sz EXCEPT ![p] = newsz]
        /\ UNCHANGED <<procVars, kstack, spare>>
    BY <2>1 DEF sbrk_shrink
  <2>3. n \in Nat /\ newsz \in Nat /\ newsz \in 0..KERNBASE /\ sz[p] \in Nat
    BY <2>1, <2>2, <1>3
  <2> HIDE DEF newsz
  <2>4. freed \in Space
    BY <2>3, <1>3, SpaceFacts
  <2> HIDE DEF freed
  <2>5. vm' \in [Slot -> Space] /\ sz' \in [Slot -> 0..KERNBASE]
    BY <2>2, <2>3, <2>4, <1>3
  <2>6. UNCHANGED <<ptable, ofile, pc, loc>>
    BY <2>2 DEF procVars
  <2>7. MemType' /\ PcStep(L)
    BY <2>2, <2>5, <2>6, <1>2, PcSame DEF MemType
  <2> QED
    BY <1>4, <2>6, <2>7
<1>7. CASE allocuvm(p)
  <2> DEFINE g == loc[p].i
             newsz == loc[p].n
             undone == deallocuvm(vm[p], newsz, sz[p])
             x == [np |-> loc[p].np, i |-> g + 1, n |-> loc[p].n]
  <2>1. pc[p] = "allocuvm" /\ UNCHANGED <<ptable, ofile, kstack, spare>>
    BY <1>7 DEF allocuvm
  <2>2. g \in Nat /\ newsz \in Nat /\ newsz < KERNBASE /\ sz[p] \in Nat
    BY <2>1, <1>2, <1>3 DEF MemType, TableType, Locals
  <2>3. ASSUME Return(p), vm' \in [Slot -> Space], sz' \in [Slot -> 0..KERNBASE] PROVE MemKeeps
    <3>1. PcStep(L)
      BY <2>1, <2>3, <1>1, <1>2, PcReturn
    <3>2. \A q \in Slot : pc'[q] = "allocuvm" => pc[q] = "allocuvm" /\ loc'[q] = loc[q]
      BY <2>3, <1>2 DEF Return, Goto, TableType
    <3>3. MemType'
      BY <2>1, <2>3, <3>2 DEF MemType
    <3> QED
      BY <1>4, <2>1, <3>1, <3>3
  <2>4. CASE sz' = [sz EXCEPT ![p] = newsz] /\ Return(p) /\ UNCHANGED <<nfree, vm>>
    <3>1. newsz \in 0..KERNBASE
      BY <2>2, <1>3
    <3>2. vm' \in [Slot -> Space] /\ sz' \in [Slot -> 0..KERNBASE]
      BY <2>4, <3>1, <1>3
    <3> QED
      BY <2>3, <2>4, <3>2
  <2>5. CASE vm' = [vm EXCEPT ![p] = undone] /\ Return(p) /\ UNCHANGED sz
    <3>1. undone \in Space
      BY <2>2, <1>3, SpaceFacts
    <3>2. vm' \in [Slot -> Space] /\ sz' \in [Slot -> 0..KERNBASE]
      BY <2>5, <3>1, <1>3
    <3> QED
      BY <2>3, <2>5, <3>2
  <2>6. CASE /\ g * PGSIZE < newsz /\ vm' = [vm EXCEPT ![p] = Map(@, g, "present")]
             /\ loc' = [loc EXCEPT ![p].i = @ + 1] /\ UNCHANGED <<pc, sz>>
    <3>1. g * PGSIZE \in Nat
      BY <2>2, <1>3, SMTT(30)
    <3>2. g \in Page
      BY <2>2, <2>6, <3>1, <1>3, MemFacts
    <3>3. Map(vm[p], g, "present") \in Space
      BY <3>2, <1>3, SpaceFacts
    <3>4. vm' = [vm EXCEPT ![p] = Map(vm[p], g, "present")]
      BY <2>6, <1>3
    <3>5. vm' \in [Slot -> Space]
      BY <3>3, <3>4, <1>3
    <3>6. loc' = [loc EXCEPT ![p] = x] /\ x \in Locals
      <4> DEFINE y == g + 1
      <4>1. y \in Nat
        BY <2>2
      <4>2. loc' = [loc EXCEPT ![p].i = y]
        BY <2>6, <1>2 DEF TableType
      <4>3. x = [np |-> loc[p].np, i |-> y, n |-> loc[p].n]
        OBVIOUS
      <4> HIDE DEF y, x
      <4> QED
        BY <4>1, <4>2, <4>3, <1>2, LocExcept
    <3>7. x.n = loc[p].n
      OBVIOUS
    <3> HIDE DEF x
    <3>8. /\ \A q \in Slot \ {p} : loc'[q] = loc[q]
          /\ loc'[p] = x /\ loc' \in [Slot -> Locals] /\ pc' = pc
      <4>1. pc' = pc
        BY <2>6
      <4> QED
        BY <4>1, <3>6, <1>2 DEF TableType
    <3>9. PcStep(L)
      BY <3>8, <2>1, <1>2 DEF PcStep, Moves, TableType
    <3>10. MemType'
      BY <2>1, <2>6, <3>5, <3>7, <3>8 DEF MemType
    <3> QED
      BY <1>4, <2>1, <3>9, <3>10
  <2> QED
    BY <2>4, <2>5, <2>6, <1>7 DEF allocuvm
<1> QED
  BY <1>5, <1>6, <1>7

\* ssualloc() and the page faults of program and kernel keep the table and the types.
LEMMA FaultFrame ==
  ASSUME TableInv, MemType, NEW p \in Slot,
         \/ \E n \in 1..(MAXPG - 1) : sys_ssualloc(p, n)
         \/ \E g \in Page : trap_user(p, g) \/ trap_kernel(p, g)
  PROVE  MemKeeps
<1> DEFINE L == Common
           E == {"none", "ssu", "present", "guard"}
<1>1. L \in SUBSET Label /\ L \subseteq Common \cup InMemory
  BY DEF Label
<1>2. TableType
  BY DEF TableInv
<1>3. /\ sz[p] \in Nat /\ KERNBASE \in Nat /\ PGSIZE \in Nat /\ MAXPG \in Nat
      /\ vm \in [Slot -> Space] /\ sz \in [Slot -> 0..KERNBASE] /\ vm[p] \in Space
  BY MemFacts DEF MemType
<1>4. ASSUME UNCHANGED <<state, pid, parent, chan, nextpid, ofile, pc, loc, kstack, spare>>,
             killed' \in [Slot -> BOOLEAN], vm' \in [Slot -> Space], sz' \in [Slot -> 0..KERNBASE]
      PROVE  MemKeeps
  <2>1. StateStep({}) /\ PcStep(L)
    BY <1>2, <1>4, StateSame, PcSame
  <2>2. MemType'
    BY <1>4 DEF MemType
  <2> QED
    BY <1>1, <1>4, <2>1, <2>2, SpaceStep
<1>5. CASE \E n \in 1..(MAXPG - 1) : sys_ssualloc(p, n)
  <2>1. PICK n \in 1..(MAXPG - 1) : sys_ssualloc(p, n)
    BY <1>5
  <2> DEFINE base == PGROUNDUP(sz[p])
             newsz == base + n * PGSIZE
             pages == {g \in Page : base <= g * PGSIZE /\ g * PGSIZE < newsz}
             tables == {Region(g) : g \in pages} \ vm[p].pt
             got == {r \in tables : Cardinality({t \in tables : t < r}) < nfree}
             ok == tables = got /\ \A g \in pages : vm[p].pte[g] = "none"
             pt == vm[p].pt \cup got
             f == [g \in Page |-> IF ok /\ g \in pages THEN "ssu" ELSE vm[p].pte[g]]
             s == [vm[p] EXCEPT !.pt = pt, !.pte = f]
  <2>2. /\ newsz < KERNBASE
        /\ vm' = [vm EXCEPT ![p] = [@ EXCEPT !.pt = pt, !.pte = f]]
        /\ sz' = IF ok THEN [sz EXCEPT ![p] = newsz] ELSE sz
        /\ UNCHANGED <<procVars, kstack, spare>>
    BY <2>1 DEF sys_ssualloc
  <2>3. newsz \in Nat
    <3>1. n \in Nat /\ base \in Nat
      BY <2>1, <1>3, RoundUp
    <3>2. n * PGSIZE \in Nat
      BY <3>1, <1>3, SMTT(30)
    <3> QED
      BY <3>1, <3>2
  <2>4. f \in [Page -> E]
    BY <1>3 DEF Space
  <2>5. pt \in SUBSET {Region(h) : h \in Page}
    <3>1. got \subseteq tables /\ tables \subseteq {Region(g) : g \in pages} /\ pages \subseteq Page
      OBVIOUS
    <3>2. vm[p].pt \subseteq {Region(h) : h \in Page}
      BY <1>3 DEF Space
    <3> HIDE DEF got, tables, pages
    <3> QED
      BY <3>1, <3>2
  <2>6. vm' = [vm EXCEPT ![p] = s]
    BY <2>2, <1>3
  <2> HIDE DEF f, pt, newsz, ok
  <2>7. s \in Space
    <3>1. [vm[p] EXCEPT !.pt = pt] \in Space
      BY <2>5, <1>3 DEF Space
    <3>2. \A t \in Space : [t EXCEPT !.pte = f] \in Space
      BY <2>4 DEF Space
    <3>3. s = [[vm[p] EXCEPT !.pt = pt] EXCEPT !.pte = f]
      BY <1>3
    <3> QED
      BY <3>1, <3>2, <3>3
  <2> HIDE DEF s
  <2>8. vm' \in [Slot -> Space] /\ sz' \in [Slot -> 0..KERNBASE]
    BY <2>2, <2>3, <2>6, <2>7, <1>3
  <2>9. UNCHANGED <<state, pid, parent, killed, chan, nextpid, ofile, pc, loc, kstack, spare>>
    BY <2>2 DEF procVars, ptable
  <2> QED
    BY <1>2, <1>4, <2>8, <2>9 DEF TableType
<1>6. CASE \E g \in Page : trap_user(p, g) \/ trap_kernel(p, g)
  <2>1. PICK g \in Page : trap_user(p, g) \/ trap_kernel(p, g)
    BY <1>6
  <2>2. UNCHANGED <<state, pid, parent, chan, nextpid, ofile, pc, loc, kstack, sz, spare>>
    BY <2>1 DEF trap_user, trap_kernel, ptable
  <2>3. killed' = killed \/ killed' = [killed EXCEPT ![p] = TRUE]
    BY <2>1 DEF trap_user, trap_kernel, ptable
  <2>4. vm' = vm \/ vm' = [vm EXCEPT ![p].pte[g] = "present"]
    BY <2>1 DEF trap_user, trap_kernel, allocssupage
  <2> DEFINE f == [vm[p].pte EXCEPT ![g] = "present"]
             s == [vm[p] EXCEPT !.pte = f]
  <2>5. f \in [Page -> E]
    BY <1>3 DEF Space
  <2>6. [vm EXCEPT ![p].pte[g] = "present"] = [vm EXCEPT ![p] = s]
    BY <1>3
  <2> HIDE DEF f
  <2>7. s \in Space
    BY <2>5, <1>3 DEF Space
  <2> HIDE DEF s
  <2>8. vm' \in [Slot -> Space]
    BY <2>4, <2>6, <2>7, <1>3
  <2>9. killed' \in [Slot -> BOOLEAN]
    BY <2>3, <1>2 DEF TableType
  <2> QED
    BY <1>3, <1>4, <2>2, <2>8, <2>9
<1> QED
  BY <1>5, <1>6

\* exec(), which builds a second address space and may fail half way, keeps the table and the types.
LEMMA ExecFrame ==
  ASSUME TableInv, MemType, NEW p \in Slot,
         exec(p) \/ exec_page(p) \/ exec_bad(p) \/ exec_commit(p)
  PROVE  MemKeeps
<1> DEFINE L == {"user", "exec"}
<1>1. /\ L \in SUBSET Label /\ L \subseteq Common \cup InMemory /\ L \cap Forking = {} /\ "none" \notin L
      /\ "user" \in L /\ "exec" \in L
  BY DEF Forking, Label, InMemory, Common
<1>2. TableType
  BY DEF TableInv
<1>3. /\ vm \in [Slot -> Space] /\ sz \in [Slot -> 0..KERNBASE] /\ spare \in [Slot -> Space]
      /\ spare[p] \in Space /\ NoSpace \in Space /\ setupkvm \in Space
  BY SpaceFacts DEF MemType
<1>4. ASSUME UNCHANGED <<ptable, ofile, kstack>>, PcStep(L),
             vm' \in [Slot -> Space], sz' \in [Slot -> 0..KERNBASE], spare' \in [Slot -> Space]
      PROVE  MemKeeps
  <2>1. StateStep({}) /\ UNCHANGED <<pid, parent, nextpid, killed>>
    BY <1>2, <1>4, StateSame DEF ptable
  <2>2. killed' \in [Slot -> BOOLEAN]
    BY <2>1, <1>2 DEF TableType
  <2>3. \A q \in Slot : pc'[q] \in Forking => pc[q] \in Forking /\ loc'[q].np = loc[q].np
    BY <1>1, <1>4 DEF PcStep, Moves
  <2>4. \A q \in Slot : pc'[q] = "allocuvm" => pc[q] = "allocuvm" /\ loc'[q] = loc[q]
    BY <1>4 DEF PcStep, Moves
  <2>5. MemType'
    BY <1>4, <2>4 DEF MemType
  <2> QED
    BY <1>1, <1>4, <2>1, <2>2, <2>3, <2>5, SpaceStep
<1>5. CASE exec(p)
  <2>1. /\ pc[p] = "user" /\ Goto(p, "exec") /\ spare' = [spare EXCEPT ![p] = setupkvm]
        /\ UNCHANGED <<ptable, ofile, loc, kstack, vm, sz>>
    BY <1>5 DEF exec, InUser
  <2>2. PcStep(L)
    BY <2>1, <1>1, <1>2, PcJump
  <2>3. spare' \in [Slot -> Space] /\ vm' \in [Slot -> Space] /\ sz' \in [Slot -> 0..KERNBASE]
    BY <2>1, <1>3
  <2> QED
    BY <1>4, <2>1, <2>2, <2>3
<1>6. CASE exec_page(p)
  <2> DEFINE g == loc[p].i
             v == IF g = ExecPages THEN "guard" ELSE "present"
             x == [np |-> loc[p].np, i |-> g + 1, n |-> loc[p].n]
  <2>1. /\ pc[p] = "exec" /\ g < ExecPages + 2
        /\ spare' = [spare EXCEPT ![p] = Map(@, g, v)]
        /\ loc' = [loc EXCEPT ![p].i = @ + 1]
        /\ UNCHANGED <<ptable, ofile, pc, kstack, vm, sz>>
    BY <1>6 DEF exec_page
  <2>2. g \in Nat
    BY <1>2 DEF TableType, Locals
  <2>3. g \in Page
    BY <2>1, <2>2, MemFacts
  <2>4. Map(spare[p], g, v) \in Space
    BY <2>3, <1>3, SpaceFacts
  <2>5. spare' = [spare EXCEPT ![p] = Map(spare[p], g, v)]
    BY <2>1, <1>3
  <2>6. spare' \in [Slot -> Space]
    BY <2>4, <2>5, <1>3
  <2>7. loc' = [loc EXCEPT ![p] = x] /\ x \in Locals
    <3> DEFINE y == g + 1
    <3>1. y \in Nat
      BY <2>2
    <3>2. loc' = [loc EXCEPT ![p].i = y]
      BY <2>1, <1>2 DEF TableType
    <3>3. x = [np |-> loc[p].np, i |-> y, n |-> loc[p].n]
      OBVIOUS
    <3> HIDE DEF y, x
    <3> QED
      BY <3>1, <3>2, <3>3, <1>2, LocExcept
  <2>8. UNCHANGED <<ptable, ofile, pc, kstack, vm, sz>> /\ pc[p] = "exec"
    BY <2>1
  <2> HIDE DEF x
  <2>9. /\ \A q \in Slot \ {p} : loc'[q] = loc[q]
        /\ loc' \in [Slot -> Locals]
    BY <2>7, <1>2 DEF TableType
  <2>10. PcStep(L)
    BY <2>8, <2>9, <1>2 DEF PcStep, Moves, TableType
  <2> QED
    BY <1>3, <1>4, <2>6, <2>8, <2>10
<1>7. CASE exec_bad(p)
  <2>1. /\ pc[p] = "exec" /\ Return(p) /\ spare' = [spare EXCEPT ![p] = NoSpace]
        /\ UNCHANGED <<ptable, ofile, kstack, vm, sz>>
    BY <1>7 DEF exec_bad
  <2>2. PcStep(L)
    BY <2>1, <1>1, <1>2, PcReturn
  <2>3. spare' \in [Slot -> Space] /\ vm' \in [Slot -> Space] /\ sz' \in [Slot -> 0..KERNBASE]
    BY <2>1, <1>3
  <2> QED
    BY <1>4, <2>1, <2>2, <2>3
<1>8. CASE exec_commit(p)
  <2> DEFINE z == (ExecPages + 2) * PGSIZE
  <2>1. /\ pc[p] = "exec" /\ Return(p) /\ spare' = [spare EXCEPT ![p] = NoSpace]
        /\ vm' = [vm EXCEPT ![p] = spare[p]]
        /\ sz' = [sz EXCEPT ![p] = z]
        /\ UNCHANGED <<ptable, ofile, kstack>>
    BY <1>8 DEF exec_commit
  <2>2. PcStep(L)
    BY <2>1, <1>1, <1>2, PcReturn
  <2>3. z \in 0..KERNBASE
    BY MemFacts
  <2> HIDE DEF z
  <2>4. spare' \in [Slot -> Space] /\ vm' \in [Slot -> Space] /\ sz' \in [Slot -> 0..KERNBASE]
    BY <2>1, <2>3, <1>3
  <2> QED
    BY <1>4, <2>1, <2>2, <2>4
<1> QED
  BY <1>5, <1>6, <1>7, <1>8

\* Every step on address spaces keeps the table and the types.
LEMMA MemFrame ==
  ASSUME TableInv, MemType, NEW p \in Slot, MemStep(p)
  PROVE  MemKeeps
<1>1. \/ wait(p) \/ fork(p) \/ fork_return(p)
      \/ fork_kstack(p) \/ fork_setupkvm(p) \/ copyuvm(p)
      \/ (\E n \in IOSizes : sbrk_grow(p, n) \/ sbrk_shrink(p, n)) \/ allocuvm(p)
      \/ \E n \in 1..(MAXPG - 1) : sys_ssualloc(p, n)
      \/ \E g \in Page : trap_user(p, g) \/ trap_kernel(p, g)
      \/ exec(p) \/ exec_page(p) \/ exec_bad(p) \/ exec_commit(p)
  BY DEF MemStep
<1> QED
  BY <1>1, WaitTable, ForkTable, ForkReturnTable, ForkSteps, AllocFrame, FaultFrame, ExecFrame

-----------------------------------------------------------------------------
(* The table and the types of every component are kept                     *)

\* A component at whose labels nobody moves keeps its type.
LEMMA OthersKeep ==
  ASSUME NEW L, Moves(L)
  PROVE  /\ L \cap InMemory = {} /\ MemType /\ UNCHANGED <<kstack, vm, sz, spare>> => MemType'
         /\ L \cap InPipe = {} /\ PipeType /\ UNCHANGED <<pipe, sent, cut>> => PipeType'
         /\ L \cap InConsole = {} /\ ConsType /\ UNCHANGED input => ConsType'
         /\ ClockType /\ UNCHANGED ticks => ClockType'
         /\ L \cap InDisk = {} /\ DiskType /\ UNCHANGED diskVars => DiskType'
         /\ L \cap InDisk = {} /\ DiskNamed /\ UNCHANGED diskVars => DiskNamed'
<1>1. ASSUME L \cap InMemory = {}, MemType, UNCHANGED <<kstack, vm, sz, spare>> PROVE MemType'
  BY <1>1 DEF Moves, MemType, InMemory
<1>2. ASSUME L \cap InPipe = {}, PipeType, UNCHANGED <<pipe, sent, cut>> PROVE PipeType'
  BY <1>2 DEF Moves, PipeType, InPipe, Count
<1>3. ASSUME L \cap InConsole = {}, ConsType, UNCHANGED input PROVE ConsType'
  BY <1>3 DEF Moves, ConsType, InConsole
<1>4. ASSUME ClockType, UNCHANGED ticks PROVE ClockType'
  BY <1>4 DEF ClockType
<1>5. ASSUME L \cap InDisk = {}, DiskType, UNCHANGED diskVars PROVE DiskType'
  BY <1>5 DEF Moves, DiskType, InDisk, diskVars
<1>6. ASSUME L \cap InDisk = {}, DiskNamed, UNCHANGED diskVars PROVE DiskNamed'
  BY <1>6 DEF Moves, DiskNamed, InDisk, diskVars
<1> QED
  BY <1>1, <1>2, <1>3, <1>4, <1>5, <1>6

\* The inductive invariant that the other proofs start from.
Types == TableInv /\ MemType /\ PipeType /\ ConsType /\ ClockType /\ DiskType /\ DiskNamed

\* Who sleeps for what.
Asleep(p, k) == state[p] = "SLEEPING" /\ chan[p][1] = k

\* What every other component's steps leave alone.
PipeAside == Moves(Label \ InPipe) /\ Sleeps(Kind \ {"nread", "nwrite"}) /\ UNCHANGED pipeVars
ConsAside == Moves(Label \ InConsole) /\ Sleeps(Kind \ {"input"}) /\ UNCHANGED consVars
ClockAside == Moves(Label \ InClock) /\ Sleeps(Kind \ {"ticks"}) /\ UNCHANGED clockVars
DiskAside == Moves(Label \ InDisk) /\ Sleeps(Kind \ {"buf", "lock"}) /\ UNCHANGED diskVars

\* A frame holds with more labels and more channels.
LEMMA WiderFrame ==
  ASSUME NEW L, NEW K, Moves(L), Sleeps(K), NEW M, NEW J, L \subseteq M, K \subseteq J
  PROVE  Moves(M) /\ Sleeps(J)
  BY DEF Moves, Sleeps

\* The components have no labels in common.
LEMMA LabelFacts ==
  /\ Common \subseteq Label \ (InPipe \cup InConsole \cup InClock \cup InDisk)
  /\ Common \cup InMemory \subseteq Label \ (InPipe \cup InConsole \cup InClock \cup InDisk)
  /\ Common \cup InPipe \subseteq Label \ (InMemory \cup InConsole \cup InClock \cup InDisk)
  /\ Common \cup InConsole \subseteq Label \ (InMemory \cup InPipe \cup InClock \cup InDisk)
  /\ Common \cup InClock \subseteq Label \ (InMemory \cup InPipe \cup InConsole \cup InDisk)
  /\ Common \cup InDisk \subseteq Label \ (InMemory \cup InPipe \cup InConsole \cup InClock)
  /\ Forking \subseteq InMemory
<1>1. /\ Common \cap InMemory = {} /\ Common \cap InPipe = {} /\ Common \cap InConsole = {}
      /\ Common \cap InClock = {} /\ Common \cap InDisk = {}
  BY DEF Common, InMemory, Forking, InPipe, InConsole, InClock, InDisk
<1>2. /\ InMemory \cap InPipe = {} /\ InMemory \cap InConsole = {}
      /\ InMemory \cap InClock = {} /\ InMemory \cap InDisk = {}
  BY DEF InMemory, Forking, InPipe, InConsole, InClock, InDisk
<1>3. /\ InPipe \cap InConsole = {} /\ InPipe \cap InClock = {} /\ InPipe \cap InDisk = {}
      /\ InConsole \cap InClock = {} /\ InConsole \cap InDisk = {} /\ InClock \cap InDisk = {}
  BY DEF InPipe, InConsole, InClock, InDisk
<1>4. /\ Common \subseteq Label /\ InMemory \subseteq Label /\ InPipe \subseteq Label
      /\ InConsole \subseteq Label /\ InClock \subseteq Label /\ InDisk \subseteq Label
  BY DEF Label
<1>5. Forking \subseteq InMemory
  BY DEF InMemory
<1> HIDE DEF Common, InMemory, Forking, InPipe, InConsole, InClock, InDisk, Label
<1> QED
  BY <1>1, <1>2, <1>3, <1>4, <1>5

\* Every step keeps the types, and is a step of the component or leaves it alone.
LEMMA Frames ==
  ASSUME Types, [Next]_vars
  PROVE  /\ Types'
         /\ PipeAside \/ \E p \in Slot : PipeStep(p)
         /\ ConsAside \/ (\E p \in Slot : ConsoleStep(p)) \/ \E c \in Key : consoleintr(c)
         /\ ClockAside \/ (\E p \in Slot : ClockStep(p)) \/ timer_idle
         /\ DiskAside \/ (\E p \in Slot : DiskStep(p)) \/ ideintr
<1> DEFINE Goal == /\ Types'
                   /\ PipeAside \/ \E p \in Slot : PipeStep(p)
                   /\ ConsAside \/ (\E p \in Slot : ConsoleStep(p)) \/ \E c \in Key : consoleintr(c)
                   /\ ClockAside \/ (\E p \in Slot : ClockStep(p)) \/ timer_idle
                   /\ DiskAside \/ (\E p \in Slot : DiskStep(p)) \/ ideintr
<1> SUFFICES Goal
  OBVIOUS
<1>0. /\ TableInv /\ MemType /\ PipeType /\ ConsType /\ ClockType /\ DiskType /\ DiskNamed
      /\ TableType
  BY DEF Types, TableInv
<1>a. /\ {} \subseteq Kind \ {"nread", "nwrite"} /\ {"wait"} \subseteq Kind \ {"nread", "nwrite"}
      /\ {"input"} \subseteq Kind \ {"nread", "nwrite"} /\ {"ticks"} \subseteq Kind \ {"nread", "nwrite"}
      /\ {"buf", "lock"} \subseteq Kind \ {"nread", "nwrite"}
  BY DEF Kind
<1>b. /\ {"wait"} \subseteq Kind \ {"input"} /\ {"nread", "nwrite"} \subseteq Kind \ {"input"}
      /\ {"ticks"} \subseteq Kind \ {"input"} /\ {"buf", "lock"} \subseteq Kind \ {"input"}
      /\ {"wait"} \subseteq Kind \ {"ticks"} /\ {"nread", "nwrite"} \subseteq Kind \ {"ticks"}
      /\ {"input"} \subseteq Kind \ {"ticks"} /\ {"buf", "lock"} \subseteq Kind \ {"ticks"}
  BY DEF Kind
<1>c. /\ {"wait"} \subseteq Kind \ {"buf", "lock"} /\ {"nread", "nwrite"} \subseteq Kind \ {"buf", "lock"}
      /\ {"input"} \subseteq Kind \ {"buf", "lock"} /\ {"ticks"} \subseteq Kind \ {"buf", "lock"}
      /\ {"input"} \subseteq Kind \ {"wait"} /\ {"ticks"} \subseteq Kind \ {"wait"}
      /\ {"buf", "lock"} \subseteq Kind \ {"wait"} /\ {"nread", "nwrite"} \subseteq Kind \ {"wait"}
  BY DEF Kind
<1> USE <1>0, LabelFacts
<1> HIDE DEF Goal
<1>1. CASE UNCHANGED vars
  <2>1. /\ UNCHANGED <<ptable, ofile, pc, loc>> /\ UNCHANGED <<nfree, kstack, vm, sz, spare>>
        /\ UNCHANGED pipeVars /\ UNCHANGED consVars /\ UNCHANGED clockVars /\ UNCHANGED diskVars
    BY <1>1 DEF vars, procVars, memVars
  <2>2. StateStep({}) /\ PcStep({})
    BY <2>1, StateSame, PcSame DEF ptable
  <2>3. Foreign({}, {})
    BY <2>1, <2>2 DEF Foreign, TableType, ptable
  <2>4. TableInv'
    BY <2>3, ForeignKeeps
  <2>5. Moves({}) /\ Sleeps({})
    BY <2>2 DEF PcStep, StateStep
  <2>6. MemType' /\ PipeType' /\ ConsType' /\ ClockType' /\ DiskType' /\ DiskNamed'
    BY <2>1, <2>5, OthersKeep DEF pipeVars, consVars, clockVars
  <2>7. PipeAside /\ ConsAside /\ ClockAside /\ DiskAside
    BY <2>1, <2>5, WiderFrame DEF PipeAside, ConsAside, ClockAside, DiskAside
  <2> QED
    BY <2>4, <2>6, <2>7 DEF Goal, Types
<1>2. ASSUME NEW p \in Slot, ProcStep(p) PROVE Goal
  <2>1. TableInv' /\ Moves(Common) /\ Sleeps({})
    BY <1>2, ProcFrame
  <2>2. /\ UNCHANGED <<nfree, kstack, vm, sz, spare>>
        /\ UNCHANGED pipeVars /\ UNCHANGED consVars /\ UNCHANGED clockVars /\ UNCHANGED diskVars
    BY <1>2 DEF ProcStep, memVars
  <2>3. MemType' /\ PipeType' /\ ConsType' /\ ClockType' /\ DiskType' /\ DiskNamed'
    <3>1. /\ Common \cap InMemory = {} /\ Common \cap InPipe = {} /\ Common \cap InConsole = {}
          /\ Common \cap InDisk = {}
      OBVIOUS
    <3> QED
      BY <2>1, <2>2, <3>1, OthersKeep DEF pipeVars, consVars, clockVars
  <2>4. PipeAside /\ ConsAside /\ ClockAside /\ DiskAside
    BY <2>1, <2>2, WiderFrame DEF PipeAside, ConsAside, ClockAside, DiskAside
  <2> QED
    BY <2>1, <2>3, <2>4 DEF Goal, Types
<1>3. ASSUME NEW p \in Slot, MemStep(p) PROVE Goal
  <2>1. TableInv' /\ MemType' /\ Moves(Common \cup InMemory) /\ Sleeps({"wait"})
    BY <1>3, MemFrame DEF MemKeeps
  <2>2. UNCHANGED pipeVars /\ UNCHANGED consVars /\ UNCHANGED clockVars /\ UNCHANGED diskVars
    BY <1>3 DEF MemStep
  <2>3. PipeType' /\ ConsType' /\ ClockType' /\ DiskType' /\ DiskNamed'
    BY <2>1, <2>2, OthersKeep DEF pipeVars, consVars, clockVars
  <2>4. PipeAside /\ ConsAside /\ ClockAside /\ DiskAside
    BY <1>a, <1>b, <1>c, <2>1, <2>2, WiderFrame DEF PipeAside, ConsAside, ClockAside, DiskAside
  <2> QED
    BY <2>1, <2>3, <2>4 DEF Goal, Types
<1>4. ASSUME NEW p \in Slot, PipeStep(p) PROVE Goal
  <2> DEFINE L == Common \cup InPipe
             K == {"nread", "nwrite"}
  <2>1. Foreign(L, K) /\ PipeType' /\ UNCHANGED <<kstack, vm, sz, spare>>
    BY <1>4, PipeFrame
  <2>2. UNCHANGED consVars /\ UNCHANGED clockVars /\ UNCHANGED diskVars
    BY <1>4 DEF PipeStep
  <2>3. Moves(L) /\ Sleeps(K)
    BY <2>1 DEF Foreign, StateStep, PcStep
  <2>4. TableInv'
    BY <1>c, <2>1, ForeignKeeps
  <2>5. MemType' /\ ConsType' /\ ClockType' /\ DiskType' /\ DiskNamed'
    BY <2>1, <2>2, <2>3, OthersKeep DEF consVars, clockVars
  <2>6. ConsAside /\ ClockAside /\ DiskAside
    BY <1>b, <1>c, <2>2, <2>3, WiderFrame DEF ConsAside, ClockAside, DiskAside
  <2> QED
    BY <1>4, <2>1, <2>4, <2>5, <2>6 DEF Goal, Types
<1>5. ASSUME (\E p \in Slot : ConsoleStep(p)) \/ \E c \in Key : consoleintr(c),
             UNCHANGED <<memVars, pipeVars, clockVars, diskVars>>
      PROVE  Goal
  <2> DEFINE L == Common \cup InConsole
             K == {"input"}
  <2>1. Foreign(L, K) /\ ConsType'
    BY <1>5, ConsoleFrame, KeyFrame
  <2>2. UNCHANGED <<kstack, vm, sz, spare>> /\ UNCHANGED pipeVars /\ UNCHANGED clockVars /\ UNCHANGED diskVars
    BY <1>5 DEF memVars
  <2>3. Moves(L) /\ Sleeps(K)
    BY <2>1 DEF Foreign, StateStep, PcStep
  <2>4. TableInv'
    BY <1>c, <2>1, ForeignKeeps
  <2>5. MemType' /\ PipeType' /\ ClockType' /\ DiskType' /\ DiskNamed'
    BY <2>2, <2>3, OthersKeep DEF pipeVars, clockVars
  <2>6. PipeAside /\ ClockAside /\ DiskAside
    BY <1>a, <1>b, <1>c, <2>2, <2>3, WiderFrame DEF PipeAside, ClockAside, DiskAside
  <2> QED
    BY <1>5, <2>1, <2>4, <2>5, <2>6 DEF Goal, Types
<1>6. ASSUME (\E p \in Slot : ClockStep(p)) \/ timer_idle,
             UNCHANGED <<memVars, pipeVars, consVars, diskVars>>
      PROVE  Goal
  <2> DEFINE L == Common \cup InClock
             K == {"ticks"}
  <2>1. Foreign(L, K) /\ ClockType'
    BY <1>6, ClockFrame, TimerIdleFrame
  <2>2. UNCHANGED <<kstack, vm, sz, spare>> /\ UNCHANGED pipeVars /\ UNCHANGED consVars /\ UNCHANGED diskVars
    BY <1>6 DEF memVars
  <2>3. Moves(L) /\ Sleeps(K)
    BY <2>1 DEF Foreign, StateStep, PcStep
  <2>4. TableInv'
    BY <1>c, <2>1, ForeignKeeps
  <2>5. MemType' /\ PipeType' /\ ConsType' /\ DiskType' /\ DiskNamed'
    BY <2>2, <2>3, OthersKeep DEF pipeVars, consVars
  <2>6. PipeAside /\ ConsAside /\ DiskAside
    BY <1>a, <1>b, <1>c, <2>2, <2>3, WiderFrame DEF PipeAside, ConsAside, DiskAside
  <2> QED
    BY <1>6, <2>1, <2>4, <2>5, <2>6 DEF Goal, Types
<1>7. ASSUME (\E p \in Slot : DiskStep(p)) \/ ideintr,
             UNCHANGED <<memVars, pipeVars, consVars, clockVars>>
      PROVE  Goal
  <2> DEFINE L == Common \cup InDisk
             K == {"buf", "lock"}
  <2>1. Foreign(L, K) /\ DiskType' /\ DiskNamed'
    BY <1>7, DiskFrame, NamedStep, IdeintrFrame
  <2>2. UNCHANGED <<kstack, vm, sz, spare>> /\ UNCHANGED pipeVars /\ UNCHANGED consVars /\ UNCHANGED clockVars
    BY <1>7 DEF memVars
  <2>3. Moves(L) /\ Sleeps(K)
    BY <2>1 DEF Foreign, StateStep, PcStep
  <2>4. TableInv'
    BY <1>c, <2>1, ForeignKeeps
  <2>5. MemType' /\ PipeType' /\ ConsType' /\ ClockType'
    BY <2>2, <2>3, OthersKeep DEF pipeVars, consVars, clockVars
  <2>6. PipeAside /\ ConsAside /\ ClockAside
    BY <1>a, <1>b, <1>c, <2>2, <2>3, WiderFrame DEF PipeAside, ConsAside, ClockAside
  <2> QED
    BY <1>7, <2>1, <2>4, <2>5, <2>6 DEF Goal, Types
<1>8. CASE Interrupt
  BY <1>5, <1>6, <1>7, <1>8 DEF Interrupt
<1>9. ASSUME NEW p \in Slot, ConsoleStep(p) \/ ClockStep(p) \/ DiskStep(p) PROVE Goal
  <2>1. CASE ConsoleStep(p)
    BY <2>1, <1>5 DEF ConsoleStep
  <2>2. CASE ClockStep(p)
    BY <2>2, <1>6 DEF ClockStep
  <2>3. CASE DiskStep(p)
    BY <2>3, <1>7 DEF DiskStep
  <2> QED
    BY <1>9, <2>1, <2>2, <2>3
<1> QED
  BY <1>1, <1>2, <1>3, <1>4, <1>8, <1>9 DEF Next

\* userinit() and the first fork() leave the table and the types as the invariant says.
LEMMA InitTypes ==
  ASSUME Init
  PROVE  Types
<1>1. TableInv /\ MemType /\ \A p \in Slot : pc[p] \in Common
  <2>1. initproc \in Slot /\ initproc = 1 /\ \A p \in Slot : p \in Nat /\ p >= 1 /\ p <= NPROC
    BY SlotFacts DEF initproc, Slot
  <2>2. NoChan \in (Kind \cup {"none"}) \X Nat /\ NoChan[1] = "none" /\ NoLoc \in Locals
    BY NoLocIs DEF NoChan
  <2>3. NoSpace \in Space /\ Map(setupkvm, 0, "present") \in Space
    BY SpaceFacts, MemFacts
  <2>4. PGSIZE \in 0..KERNBASE /\ 0 \in 0..KERNBASE
    <3>1. PGSIZE \in Nat /\ MAXPG \in Nat \ {0} /\ KERNBASE \in Nat
      BY MemFacts
    <3>2. PGSIZE <= MAXPG * PGSIZE
      BY <3>1, SMTT(30)
    <3> QED
      BY <3>1, <3>2 DEF KERNBASE
  <2>5. "user" \in Common /\ "none" \in Common /\ "wait" \in Common /\ Common \cap Forking = {}
        /\ "allocuvm" \notin Common /\ Common \subseteq Label
    BY DEF Common, Forking, Label
  <2>6. CASE ProcInit /\ MemInit
    <3>1. /\ state = [p \in Slot |-> IF p = initproc THEN "RUNNABLE" ELSE "UNUSED"]
          /\ pid = [p \in Slot |-> IF p = initproc THEN 1 ELSE 0]
          /\ parent = [p \in Slot |-> 0]
          /\ killed = [p \in Slot |-> FALSE]
          /\ chan = [p \in Slot |-> NoChan]
          /\ nextpid = 2
          /\ ofile = [p \in Slot |-> {}]
          /\ pc = [p \in Slot |-> IF p = initproc THEN "user" ELSE "none"]
          /\ loc = [p \in Slot |-> NoLoc]
      BY <2>6 DEF ProcInit
    <3>2. \A p \in Slot : pc[p] \in Common
      BY <3>1, <2>5
    <3>3. TableType
      <4>1. state \in [Slot -> ProcState] /\ killed \in [Slot -> BOOLEAN] /\ ofile \in [Slot -> SUBSET {"r", "w"}]
        BY <3>1 DEF ProcState
      <4>2. pid \in [Slot -> Nat] /\ parent \in [Slot -> 0..NPROC] /\ nextpid \in 0..(MaxPid + NPROC + 1)
        BY <3>1, ProcAssumption
      <4>3. chan \in [Slot -> (Kind \cup {"none"}) \X Nat] /\ loc \in [Slot -> Locals]
        BY <3>1, <2>2
      <4>4. pc \in [Slot -> Label]
        BY <3>1, <2>5
      <4> QED
        BY <4>1, <4>2, <4>3, <4>4 DEF TableType
    <3>4. PcInv
      BY <3>1 DEF PcInv, Alive
    <3>5. ForkInv
      BY <3>2, <2>5 DEF ForkInv
    <3>6. PidInv
      BY <3>1 DEF PidInv
    <3>7. ParentInv
      BY <3>1, <2>1, SlotFacts DEF ParentInv, Live, Alive
    <3>8. WaitInv
      BY <3>1 DEF WaitInv
    <3>9. MemType
      <4>1. /\ kstack = {initproc}
            /\ vm = [p \in Slot |-> IF p = initproc THEN Map(setupkvm, 0, "present") ELSE NoSpace]
            /\ sz = [p \in Slot |-> IF p = initproc THEN PGSIZE ELSE 0]
            /\ spare = [p \in Slot |-> NoSpace]
        BY <2>6 DEF MemInit
      <4> QED
        BY <4>1, <2>1, <2>3, <2>4, <3>2, <2>5 DEF MemType
    <3> QED
      BY <3>2, <3>3, <3>4, <3>5, <3>6, <3>7, <3>8, <3>9 DEF TableInv
  <2>7. CASE Forked
    <3>1. /\ state = [p \in Slot |-> IF p = initproc THEN "SLEEPING" ELSE "RUNNABLE"]
          /\ pid = [p \in Slot |-> p]
          /\ parent = [p \in Slot |-> p - 1]
          /\ killed = [p \in Slot |-> FALSE]
          /\ chan = [p \in Slot |-> IF p = initproc THEN <<"wait", initproc>> ELSE NoChan]
          /\ nextpid = NPROC + 1
          /\ ofile = [p \in Slot |-> IF load = "pipe" /\ p # initproc THEN {"r", "w"} ELSE {}]
          /\ pc = [p \in Slot |-> IF p = initproc THEN "wait" ELSE "user"]
          /\ loc = [p \in Slot |-> NoLoc]
      BY <2>7 DEF Forked
    <3>2. \A p \in Slot : pc[p] \in Common
      BY <3>1, <2>5
    <3>3. TableType
      <4>1. state \in [Slot -> ProcState] /\ killed \in [Slot -> BOOLEAN] /\ ofile \in [Slot -> SUBSET {"r", "w"}]
        BY <3>1 DEF ProcState
      <4>2. pid \in [Slot -> Nat] /\ parent \in [Slot -> 0..NPROC] /\ nextpid \in 0..(MaxPid + NPROC + 1)
        BY <3>1, <2>1, ProcAssumption
      <4>3. chan \in [Slot -> (Kind \cup {"none"}) \X Nat] /\ loc \in [Slot -> Locals]
        <5>1. <<"wait", initproc>> \in (Kind \cup {"none"}) \X Nat
          BY <2>1 DEF Kind
        <5> QED
          BY <3>1, <2>2, <5>1
      <4>4. pc \in [Slot -> Label]
        BY <3>1, <2>5
      <4> QED
        BY <4>1, <4>2, <4>3, <4>4 DEF TableType
    <3>4. PcInv
      BY <3>1 DEF PcInv, Alive
    <3>5. ForkInv
      BY <3>2, <2>5 DEF ForkInv
    <3>6. PidInv
      BY <3>1, <2>1, SlotFacts DEF PidInv
    <3>7. ParentInv
      <4>1. \A p \in Slot \ {initproc} : p - 1 \in Slot
        BY <2>1, SlotFacts DEF Slot
      <4>2. \A p \in Slot : state[p] \in Alive /\ parent[p] = p - 1 /\ parent[p] # p
        BY <3>1, <2>1 DEF Alive
      <4> QED
        BY <4>1, <4>2, <2>1 DEF ParentInv, Alive
    <3>8. WaitInv
      <4>1. 2 \in Slot /\ parent[2] = initproc
        BY <3>1, <2>1, SlotFacts, KernelAssumption DEF Slot
      <4>2. \A p \in Slot : state[p] # "ZOMBIE"
        BY <3>1
      <4>3. \A p \in Slot : state[p] = "SLEEPING" => p = initproc /\ chan[p] = <<"wait", initproc>>
        BY <3>1
      <4> QED
        BY <4>1, <4>2, <4>3 DEF WaitInv, Kind
    <3>9. MemType
      <4>1. /\ kstack = Slot
            /\ vm = [p \in Slot |-> Map(setupkvm, 0, "present")]
            /\ sz = [p \in Slot |-> PGSIZE]
            /\ spare = [p \in Slot |-> NoSpace]
        BY <2>7 DEF Forked
      <4> QED
        BY <4>1, <2>3, <2>4, <3>2, <2>5 DEF MemType
    <3> QED
      BY <3>2, <3>3, <3>4, <3>5, <3>6, <3>7, <3>8, <3>9 DEF TableInv
  <2> QED
    BY <2>6, <2>7 DEF Init
<1>2. \A p \in Slot : pc[p] \notin InPipe \cup InConsole \cup InDisk
  BY <1>1, LabelFacts
<1>3. PipeType
  <2>1. 0 \in 0..(UINT - 1) /\ 0 \in 0..(2 * PIPESIZE - 1) /\ PIPESIZE \in Nat
    BY SlotFacts, PipeAssumption
  <2>2. NoPipe \in PipeRec
    BY <2>1 DEF NoPipe, PipeRec
  <2>3. /\ pipe \in PipeRec /\ pipe.nread = 0 /\ pipe.nwrite = 0 /\ sent = 0 /\ cut = FALSE
    <3>1. CASE load = "pipe"
      <4>1. /\ pipe = [NoPipe EXCEPT !.used = TRUE, !.readopen = TRUE, !.writeopen = TRUE]
            /\ sent = 0 /\ cut = FALSE
        BY <3>1 DEF Init
      <4> QED
        BY <4>1, <2>1 DEF NoPipe, PipeRec
    <3>2. CASE load # "pipe"
      <4>1. pipe = NoPipe /\ sent = 0 /\ cut = FALSE
        BY <3>2 DEF Init, PipeInit
      <4>2. NoPipe.nread = 0 /\ NoPipe.nwrite = 0
        BY DEF NoPipe
      <4> QED
        BY <4>1, <4>2, <2>2
    <3> QED
      BY <3>1, <3>2
  <2>4. Count = 0
    <3>1. 0 % UINT = 0
      BY SlotFacts
    <3> QED
      BY <2>3, <3>1 DEF Count
  <2>5. \A p \in Slot : pc[p] \notin {"pipewrite", "pipewrite_sleep"}
    BY <1>2 DEF InPipe
  <2>6. sent \in 0..(2 * PIPESIZE - 1) /\ Count <= PIPESIZE
    BY <2>1, <2>3, <2>4
  <2>7. cut \in BOOLEAN
    BY <2>3
  <2> QED
    BY <2>3, <2>5, <2>6, <2>7 DEF PipeType
<1>4. ConsType
  <2>1. input = [buf |-> [i \in 0..(INPUT_BUF - 1) |-> "x"], r |-> 0, w |-> 0, e |-> 0]
    BY DEF Init, ConsoleInit
  <2>2. 0 \in 0..(UINT - 1)
    BY SlotFacts
  <2> QED
    BY <1>2, <2>1, <2>2 DEF ConsType, Key
<1>5. ClockType
  BY SlotFacts DEF Init, ClockInit, ClockType
<1>6. DiskType /\ DiskNamed
  <2> DEFINE r == [blockno |-> 0, refcnt |-> 0, valid |-> FALSE, dirty |-> FALSE, data |-> AnyValue, owner |-> 0]
  <2>1. /\ buf = [b \in Buffer |-> r]
        /\ lru = [i \in Buffer |-> NBUF + 1 - i]
        /\ idequeue = <<>>
        /\ disk = [b \in Block |-> AnyValue]
        /\ stored = disk
    BY DEF Init, DiskInit
  <2>2. AnyValue \in Value
    BY DiskAssumption DEF AnyValue
  <2>3. r \in BufRec
    BY <2>2, SlotFacts DEF BufRec
  <2> HIDE DEF r
  <2>4. \A i \in Buffer : NBUF + 1 - i \in Buffer /\ NBUF + 1 - (NBUF + 1 - i) = i
    BY DiskAssumption DEF Buffer
  <2>5. lru \in [Buffer -> Buffer] /\ \A b \in Buffer : \E i \in Buffer : lru[i] = b
    BY <2>1, <2>4
  <2>6. buf \in [Buffer -> BufRec] /\ idequeue \in Seq(Buffer) /\ Len(idequeue) = 0
        /\ disk \in [Block -> Value] /\ stored \in [Block -> Value]
    BY <2>1, <2>2, <2>3
  <2> QED
    BY <1>2, <2>5, <2>6 DEF DiskType, DiskNamed
<1> QED
  BY <1>1, <1>3, <1>4, <1>5, <1>6 DEF Types

\* For any number of processes, buffers, blocks, pages and sizes: the process table is consistent
\* (unique pids, live parents, a child under construction is one fork()'s own, no wait() asleep
\* with a zombie), and every component's state has its type.  The invariant is inductive.
THEOREM TypesInvariant == Spec => []Types
<1>1. Init => Types
  BY InitTypes
<1>2. Types /\ [Next]_vars => Types'
  BY Frames
<1> QED
  BY <1>1, <1>2, PTL DEF Spec

\* Every process but init has a parent that has not exited and can wait() for it: exit() hands all
\* children to init, also those whose fork() another process finishes at the same time.
THEOREM AdoptedInvariant == Spec => []Adopted
<1>1. Types => Adopted
  <2> SUFFICES ASSUME Types, NEW p \in Slot, Live(p)
               PROVE  /\ p # initproc => parent[p] # 0 /\ state[parent[p]] \notin {"UNUSED", "EMBRYO", "ZOMBIE"}
                      /\ \A q \in Slot \ {p} : Live(q) => pid[q] # pid[p]
    BY DEF Adopted
  <2>1. p # initproc => parent[p] \in Slot /\ state[parent[p]] \in Alive
    BY DEF Types, TableInv, ParentInv
  <2>2. \A q \in Slot \ {p} : Live(q) => pid[q] # pid[p]
    BY DEF Types, TableInv, PidInv, Live
  <2> QED
    BY <2>1, <2>2, SlotFacts DEF Alive
<1> QED
  BY <1>1, TypesInvariant, PTL
=============================================================================
