---------------------------- MODULE KernelProofs ----------------------------
(***************************************************************************)
(* Proofs about the kernel, part 2: the console's input buffer, the clock, *)
(* the buffer cache, the pipe, whose ring implements the byte stream of    *)
(* ByteStream, memory, and what the components' invariants say together    *)
(* about sleep and wakeup.  Each component has an inductive invariant of   *)
(* its own that steps of the others keep by the frames of ProcProofs.      *)
(*                                                                         *)
(* MemInv says what a slot of the process table owns at each label, and    *)
(* PagesInv that the books of physical pages are right.  Both are kept     *)
(* together: a step that frees an address space must own it.               *)
(***************************************************************************)
EXTENDS ProcProofs, SequenceTheorems

-----------------------------------------------------------------------------
(* The console                                                             *)

\* The indices read, committed and edited, in this order around the ring.
InOrder(r, w, e) ==
    /\ Dist(r, w) + Dist(w, e) = Dist(r, e)
    /\ Dist(r, e) <= INPUT_BUF
    /\ Dist(r, e) = INPUT_BUF => w = e

\* Between the test and the sleep, and asleep, a reader has no committed byte to read.
ConsInv ==
    /\ InOrder(input.r, input.w, input.e)
    /\ \A p \in Slot : pc[p] = "consoleread_sleep" => input.r = input.w
    /\ \A p \in Slot : Asleep(p, "input") => chan[p][2] = 0 /\ input.r = input.w

\* Moving the edit index back or forward, committing a line and reading keep the indices in order.
LEMMA DistMoves ==
  ASSUME NEW r \in 0..(UINT - 1), NEW w \in 0..(UINT - 1), NEW e \in 0..(UINT - 1), InOrder(r, w, e)
  PROVE  /\ \A d \in 0..Dist(w, e) : InOrder(r, w, (e - d) % UINT)
         /\ \A d \in 0..Dist(r, w) : InOrder((r + d) % UINT, w, e)
         /\ Dist(r, e) < INPUT_BUF =>
              /\ InOrder(r, (e + 1) % UINT, (e + 1) % UINT)
              /\ Dist(r, (e + 1) % UINT) # INPUT_BUF => InOrder(r, w, (e + 1) % UINT)
<1>1. /\ UINT \in Nat \ {0} /\ INPUT_BUF \in Nat \ {0} /\ INPUT_BUF < UINT
  BY SlotFacts, ConsoleAssumption
<1>2. /\ Dist(r, w) = IF r <= w THEN w - r ELSE w - r + UINT
      /\ Dist(w, e) = IF w <= e THEN e - w ELSE e - w + UINT
      /\ Dist(r, e) = IF r <= e THEN e - r ELSE e - r + UINT
  BY DistIs
<1>3. ASSUME NEW d \in 0..Dist(w, e)
      PROVE  InOrder(r, w, (e - d) % UINT)
  <2> DEFINE f == (e - d) % UINT
  <2>1. d \in Nat /\ e - d \in Int /\ -UINT <= e - d /\ e - d < 2 * UINT
    BY <1>1, <1>2
  <2>2. f = IF e - d < 0 THEN e - d + UINT ELSE e - d
    <3> DEFINE x == e - d
    <3>1. x \in Int /\ -UINT <= x /\ x < 2 * UINT /\ x < UINT
      BY <1>1, <2>1
    <3> HIDE DEF x
    <3>2. x % UINT = IF x < 0 THEN x + UINT ELSE x
      BY <1>1, <3>1, ModNear
    <3> QED
      BY <3>2 DEF x
  <2>3. f \in 0..(UINT - 1)
    BY <1>1, <2>1, <2>2
  <2> HIDE DEF f
  <2>4. /\ Dist(w, f) = IF w <= f THEN f - w ELSE f - w + UINT
        /\ Dist(r, f) = IF r <= f THEN f - r ELSE f - r + UINT
    BY <2>3, DistIs
  <2> QED
    BY <1>1, <1>2, <2>1, <2>2, <2>3, <2>4 DEF InOrder, f
<1>4. ASSUME NEW d \in 0..Dist(r, w)
      PROVE  InOrder((r + d) % UINT, w, e)
  <2> DEFINE f == (r + d) % UINT
  <2>1. d \in Nat /\ d <= Dist(r, w) /\ d <= Dist(r, e)
    BY <1>1, <1>2 DEF InOrder
  <2>2. Dist(f, w) = Dist(r, w) - d
    BY <1>1, <2>1, RingTake DEF Dist
  <2>3. Dist(f, e) = Dist(r, e) - d
    BY <1>1, <2>1, RingTake DEF Dist
  <2> HIDE DEF f
  <2>4. InOrder(f, w, e)
    BY <1>1, <1>2, <2>1, <2>2, <2>3 DEF InOrder
  <2> QED
    BY <2>4 DEF f
<1>5. ASSUME Dist(r, e) < INPUT_BUF
      PROVE  /\ InOrder(r, (e + 1) % UINT, (e + 1) % UINT)
             /\ Dist(r, (e + 1) % UINT) # INPUT_BUF => InOrder(r, w, (e + 1) % UINT)
  <2> DEFINE f == (e + 1) % UINT
  <2>2. f = IF e + 1 < UINT THEN e + 1 ELSE 0
    <3> DEFINE x == e + 1
    <3>1. x \in Int /\ -UINT <= x /\ x < 2 * UINT /\ ~ (x < 0) /\ x <= UINT
      BY <1>1
    <3> HIDE DEF x
    <3>2. x % UINT = IF x < UINT THEN x ELSE x - UINT
      BY <1>1, <3>1, ModNear
    <3>3. x % UINT = IF x < UINT THEN x ELSE 0
      BY <1>1, <3>1, <3>2
    <3> QED
      BY <3>3 DEF x
  <2>3. f \in 0..(UINT - 1)
    BY <1>1, <2>2
  <2> HIDE DEF f
  <2>4. /\ Dist(w, f) = IF w <= f THEN f - w ELSE f - w + UINT
        /\ Dist(r, f) = IF r <= f THEN f - r ELSE f - r + UINT
        /\ Dist(f, f) = 0
    BY <2>3, DistIs
  <2> QED
    BY <1>1, <1>2, <1>5, <2>2, <2>3, <2>4 DEF InOrder, f
<1> QED
  BY <1>3, <1>4, <1>5

\* consoleintr() for every key: erasing stops at the committed line, a full buffer is committed, and
\* a committed line wakes its readers.
LEMMA KeyKeeps ==
  ASSUME Types, ConsInv, NEW c \in Key, consoleintr(c)
  PROVE  ConsInv'
<1> DEFINE r == input.r
           w == input.w
           e == input.e
           f == (e + 1) % UINT
<1>1. /\ UNCHANGED <<chan, pc>> /\ ConsFree
      /\ r \in 0..(UINT - 1) /\ w \in 0..(UINT - 1) /\ e \in 0..(UINT - 1)
  BY DEF consoleintr, Types, ConsType
<1>2. \A p \in Slot : pc'[p] # "consoleread_sleep"
  BY <1>1 DEF ConsFree
<1>3. CASE /\ input' = [input EXCEPT !.e = KillLine] \/ input' = [input EXCEPT !.e = (@ - 1) % UINT]
           /\ e # w \/ input' = [input EXCEPT !.e = KillLine]
           /\ UNCHANGED state
  <2>1. Dist(w, e) \in Nat /\ (e # w => 1 \in 0..Dist(w, e))
    <3>1. Dist(w, e) = IF w <= e THEN e - w ELSE e - w + UINT
      BY <1>1, DistIs
    <3> HIDE DEF w, e
    <3> QED
      BY <1>1, <3>1, SlotFacts
  <2>2. PICK d \in 0..Dist(w, e) : input' = [input EXCEPT !.e = (e - d) % UINT]
    BY <1>3, <2>1, KillLineIs DEF Types
  <2>3. input'.r = r /\ input'.w = w /\ input'.e = (e - d) % UINT
    BY <2>2 DEF Types, ConsType
  <2>4. InOrder(r, w, (e - d) % UINT)
    BY <1>1, DistMoves DEF ConsInv
  <2> QED
    BY <1>1, <1>2, <1>3, <2>3, <2>4 DEF ConsInv, Asleep
<1>4. CASE /\ Dist(r, e) < INPUT_BUF
           /\ input' = [input EXCEPT !.buf[e % INPUT_BUF] = c, !.e = f, !.w = IF Commit(c, f) THEN f ELSE @]
           /\ IF Commit(c, f) THEN wakeup(<<"input", 0>>) ELSE UNCHANGED state
  <2>1. /\ InOrder(r, f, f)
        /\ Dist(r, f) # INPUT_BUF => InOrder(r, w, f)
    BY <1>1, <1>4, DistMoves DEF ConsInv
  <2> HIDE DEF f
  <2>2. input'.r = r /\ input'.e = f /\ input'.w = IF Commit(c, f) THEN f ELSE w
    BY <1>4 DEF Types, ConsType
  <2>3. CASE Commit(c, f)
    <3>1. \A p \in Slot : ~ Asleep(p, "input")'
      <4> SUFFICES ASSUME NEW p \in Slot, Asleep(p, "input")' PROVE FALSE
        OBVIOUS
      <4>1. state'[p] = IF state[p] = "SLEEPING" /\ chan[p] = <<"input", 0>> THEN "RUNNABLE" ELSE state[p]
        BY <1>4, <2>3 DEF wakeup, wakeup1
      <4>2. Asleep(p, "input")
        BY <1>1, <4>1 DEF Asleep
      <4>3. chan[p] \in (Kind \cup {"none"}) \X Nat
        BY DEF Types, TableInv, TableType
      <4>4. chan[p] = <<"input", 0>>
        BY <4>2, <4>3 DEF ConsInv, Asleep
      <4> QED
        BY <4>1, <4>2, <4>4 DEF Asleep
    <3> QED
      BY <1>2, <2>1, <2>2, <2>3, <3>1 DEF ConsInv
  <2>4. CASE ~ Commit(c, f)
    <3>1. Dist(r, f) # INPUT_BUF
      BY <2>4 DEF Commit
    <3> QED
      BY <1>1, <1>2, <1>4, <2>1, <2>2, <2>4, <3>1 DEF ConsInv, Asleep
  <2> QED
    BY <2>3, <2>4
<1> QED
  BY <1>3, <1>4 DEF consoleintr

\* consoleread() never reads past the committed bytes, and sleeps only when there is none.
LEMMA ReadKeeps ==
  ASSUME Types, ConsInv, NEW p \in Slot, consoleread(p)
  PROVE  ConsInv'
<1> DEFINE r == input.r
           w == input.w
           e == input.e
           k == Amount(loc[p].n)
<1>1. /\ TableType /\ ConsType
      /\ r \in 0..(UINT - 1) /\ w \in 0..(UINT - 1) /\ e \in 0..(UINT - 1)
  BY DEF Types, TableInv, ConsType
<1>2. /\ UNCHANGED <<state, chan>> /\ loc[p].n \in Nat /\ loc[p].n > 0 /\ ConsFree
      /\ ReadWaits(p) \/ ReadTakes(p, k)
  BY <1>1, ReadIs DEF ptable
<1>3. Dist(r, w) \in Nat /\ (Dist(r, w) = 0 <=> r = w)
  <2>1. Dist(r, w) = IF r <= w THEN w - r ELSE w - r + UINT
    BY <1>1, DistIs
  <2> HIDE DEF r, w
  <2> QED
    BY <1>1, <2>1, SlotFacts
<1>4. CASE ReadWaits(p)
  <2>1. r = w /\ input' = input
    BY <1>3, <1>4 DEF ReadWaits
  <2> QED
    BY <1>2, <2>1 DEF ConsInv, Asleep
<1>5. CASE ReadTakes(p, k)
  <2>1. r # w /\ Dist(r, w) > 0
    BY <1>3, <1>5 DEF ReadTakes
  <2>2. \A q \in Slot : ~ Asleep(q, "input")'
    BY <1>2, <2>1 DEF ConsInv, Asleep
  <2>3. /\ k \in 1..Dist(r, w) /\ k <= loc[p].n
        /\ k \in Stops \/ k = loc[p].n \/ k = Dist(r, w)
    BY <1>1, <1>2, <2>1, AmountIs
  <2> HIDE DEF k
  <2>4. PICK m \in {k - 1, k} : input' = [input EXCEPT !.r = (@ + m) % UINT] /\ (m = k - 1 => k \in Stops)
    BY <1>5 DEF ReadTakes
  <2>5. m \in 0..Dist(r, w) /\ input'.r = (r + m) % UINT /\ input'.w = w /\ input'.e = e
    BY <1>1, <1>3, <2>3, <2>4 DEF ConsType
  <2>6. InOrder((r + m) % UINT, w, e)
    BY <1>1, <2>5, DistMoves DEF ConsInv
  <2>7. ASSUME NEW q \in Slot, pc'[q] = "consoleread_sleep"
        PROVE  (r + m) % UINT = w
    <3>1. pc[q] # "consoleread_sleep"
      BY <1>2 DEF ConsFree
    <3>2. ~ Return(p)
      BY <3>1, <2>7, <1>1 DEF Return, Goto, TableType
    <3>3. k = Dist(r, w) /\ k \notin Stops
      BY <3>2, <1>5, <2>3 DEF ReadTakes
    <3>4. m = k
      BY <2>4, <3>3
    <3>5. Dist(r, w) = IF r <= w THEN w - r ELSE w - r + UINT
      BY <1>1, DistIs
    <3> DEFINE x == r + m
    <3>6. x = w \/ x = w + UINT
      BY <1>1, <3>3, <3>4, <3>5, SlotFacts
    <3>7. x \in Int /\ -UINT <= x /\ x < 2 * UINT /\ UINT \in Nat \ {0}
      BY <1>1, <3>6, SlotFacts
    <3> HIDE DEF x
    <3>8. x % UINT = IF x < 0 THEN x + UINT ELSE IF x < UINT THEN x ELSE x - UINT
      BY <3>7, ModNear
    <3>9. x % UINT = w
      BY <1>1, <3>6, <3>7, <3>8
    <3> QED
      BY <3>9 DEF x
  <2> QED
    BY <2>2, <2>5, <2>6, <2>7 DEF ConsInv
<1> QED
  BY <1>2, <1>4, <1>5

\* Every step of the kernel keeps the console's invariant.
LEMMA ConsKeeps ==
  ASSUME Types, ConsInv, [Next]_vars
  PROVE  ConsInv'
<1>1. CASE ConsAside
  <2>1. /\ input' = input
        /\ \A p \in Slot : pc'[p] = "consoleread_sleep" => pc[p] = "consoleread_sleep"
        /\ \A p \in Slot : Asleep(p, "input")' => Asleep(p, "input") /\ chan'[p] = chan[p]
    BY <1>1 DEF ConsAside, Moves, Sleeps, Asleep, InConsole, consVars
  <2> QED
    BY <2>1 DEF ConsInv
<1>2. ASSUME NEW c \in Key, consoleintr(c) PROVE ConsInv'
  BY <1>2, KeyKeeps
<1>3. ASSUME NEW p \in Slot, ConsoleStep(p) PROVE ConsInv'
  <2>1. CASE consoleread(p)
    BY <2>1, ReadKeeps
  <2>2. CASE consoleread_sleep(p)
    <3>1. /\ pc[p] = "consoleread_sleep" /\ sleep(p, <<"input", 0>>) /\ Goto(p, "consoleread") /\ input' = input
      BY <2>2 DEF consoleread_sleep, consVars
    <3>2. /\ \A q \in Slot : pc'[q] = "consoleread_sleep" => pc[q] = "consoleread_sleep"
          /\ \A q \in Slot \ {p} : state'[q] = state[q] /\ chan'[q] = chan[q]
          /\ chan'[p] = <<"input", 0>>
      BY <3>1 DEF Types, TableInv, TableType, Goto, sleep
    <3>3. chan'[p][2] = 0 /\ input.r = input.w
      BY <3>1, <3>2 DEF ConsInv
    <3> QED
      BY <3>1, <3>2, <3>3 DEF ConsInv, Asleep
  <2>3. CASE \E n \in IOSizes : sys_read_console(p, n)
    <3>1. UNCHANGED <<state, chan, input>> /\ Goto(p, "consoleread")
      BY <2>3 DEF sys_read_console, consVars, ptable
    <3>2. \A q \in Slot : pc'[q] = "consoleread_sleep" => pc[q] = "consoleread_sleep"
      BY <3>1 DEF Types, TableInv, TableType, Goto
    <3> QED
      BY <3>1, <3>2 DEF ConsInv, Asleep
  <2> QED
    BY <1>3, <2>1, <2>2, <2>3 DEF ConsoleStep
<1> QED
  BY <1>1, <1>2, <1>3, Frames

\* The buffer is empty at first.
LEMMA ConsStarts ==
  ASSUME Init
  PROVE  ConsInv
<1>1. Types /\ input.r = 0 /\ input.w = 0 /\ input.e = 0
  BY InitTypes DEF Init, ConsoleInit
<1>2. Dist(0, 0) = 0 /\ INPUT_BUF \in Nat \ {0}
  BY DistIs, SlotFacts, ConsoleAssumption
<1>3. \A p \in Slot : state[p] = "SLEEPING" => chan[p] = <<"wait", initproc>>
  BY DEF Init, ProcInit, Forked
<1> QED
  BY <1>1, <1>2, <1>3 DEF ConsInv, InOrder, Asleep

\* The indices of the input buffer stay in order around the ring, through every overflow of the
\* unsigned counters, and no reader sleeps on a committed line.
THEOREM ConsoleInvariant == Spec => []ConsInv
<1>1. Init => ConsInv
  BY ConsStarts
<1>2. Types /\ ConsInv /\ [Next]_vars => ConsInv'
  BY ConsKeeps
<1> QED
  BY <1>1, <1>2, TypesInvariant, PTL DEF Spec

\* A full input buffer can be read: consoleintr() commits it without waiting for a newline, so
\* that the console never refuses keys for ever.
THEOREM FullIsReadableInvariant == Spec => []FullIsReadable
<1>1. ConsInv => FullIsReadable
  BY DEF ConsInv, InOrder, FullIsReadable
<1> QED
  BY <1>1, ConsoleInvariant, PTL

-----------------------------------------------------------------------------
(* The clock                                                               *)

\* tickslock is kept between the test and the sleep, so that no tick comes in between.
ClockInv ==
    /\ \A p \in Slot : pc[p] = "sys_sleep_sleep" => Elapsed(loc[p].i) < loc[p].n
    /\ \A p \in Slot : Asleep(p, "ticks") =>
            chan[p][2] = 0 /\ pc[p] = "sys_sleep" /\ Elapsed(loc[p].i) < loc[p].n

\* A tick wakes every sleeper of sys_sleep(), so that none sleeps through its time.
LEMMA TickKeeps ==
  ASSUME Types, ClockInv, NEW st \in [Slot -> ProcState], Tick(st),
         \A q \in Slot : st[q] = "SLEEPING" => state[q] = "SLEEPING"
  PROVE  ClockInv'
<1>1. /\ UNCHANGED <<chan, pc, loc>> /\ TicksFree
      /\ \A q \in Slot : state'[q] = IF st[q] = "SLEEPING" /\ chan[q] = <<"ticks", 0>> THEN "RUNNABLE" ELSE st[q]
  BY DEF Tick, wakeup1
<1>2. \A q \in Slot : pc'[q] # "sys_sleep_sleep"
  BY <1>1 DEF TicksFree
<1>3. \A q \in Slot : ~ Asleep(q, "ticks")'
  <2> SUFFICES ASSUME NEW q \in Slot, Asleep(q, "ticks")' PROVE FALSE
    OBVIOUS
  <2>1. st[q] = "SLEEPING" /\ chan[q] # <<"ticks", 0>>
    BY <1>1 DEF Asleep
  <2>2. Asleep(q, "ticks")
    BY <1>1, <2>1 DEF Asleep
  <2>3. chan[q] \in (Kind \cup {"none"}) \X Nat
    BY DEF Types, TableInv, TableType
  <2>4. chan[q] = <<"ticks", 0>>
    BY <2>2, <2>3 DEF ClockInv, Asleep
  <2> QED
    BY <2>1, <2>4
<1> QED
  BY <1>2, <1>3 DEF ClockInv

\* sys_sleep() goes to sleep only when its time is not over.
LEMMA TestKeeps ==
  ASSUME Types, ClockInv, NEW p \in Slot, state[p] = "RUNNING", NEW since \in Nat, NEW n \in Nat,
         TestTicks(p, since, n), UNCHANGED <<state, chan, ticks>>
  PROVE  ClockInv'
<1>1. TableType
  BY DEF Types, TableInv
<1>2. \A q \in Slot : Asleep(q, "ticks")' => Asleep(q, "ticks") /\ q # p
  BY DEF Asleep
<1>3. CASE Return(p)
  <2>1. \A q \in Slot \ {p} : pc'[q] = pc[q] /\ loc'[q] = loc[q]
    BY <1>1, <1>3 DEF Return, Goto, TableType
  <2>2. pc'[p] = "user"
    BY <1>1, <1>3 DEF Return, Goto, TableType
  <2> QED
    BY <1>2, <2>1, <2>2 DEF ClockInv, Elapsed
<1>4. CASE ~ Return(p)
  <2> DEFINE x == [np |-> 0, i |-> since, n |-> n]
  <2>1. Elapsed(since) < n /\ Goto(p, "sys_sleep_sleep") /\ loc' = [loc EXCEPT ![p] = x]
    BY <1>4, NoLocIs DEF TestTicks
  <2>2. x.i = since /\ x.n = n
    OBVIOUS
  <2> HIDE DEF x
  <2>3. /\ \A q \in Slot \ {p} : pc'[q] = pc[q] /\ loc'[q] = loc[q]
        /\ loc'[p] = x
    BY <1>1, <2>1 DEF Goto, TableType
  <2> QED
    BY <1>2, <2>1, <2>2, <2>3 DEF ClockInv, Elapsed
<1> QED
  BY <1>3, <1>4

\* Every step of the kernel keeps the clock's invariant.
LEMMA ClockKeeps ==
  ASSUME Types, ClockInv, [Next]_vars
  PROVE  ClockInv'
<1>0. TableType /\ ticks \in Nat
  BY DEF Types, TableInv, ClockType
<1>1. CASE ClockAside
  <2>1. /\ ticks' = ticks
        /\ \A p \in Slot : pc'[p] = "sys_sleep_sleep" => pc[p] = "sys_sleep_sleep" /\ loc'[p] = loc[p]
        /\ \A p \in Slot : pc[p] = "sys_sleep" => pc'[p] = "sys_sleep" /\ loc'[p] = loc[p]
        /\ \A p \in Slot : Asleep(p, "ticks")' => Asleep(p, "ticks") /\ chan'[p] = chan[p]
    BY <1>1 DEF ClockAside, Moves, Sleeps, Asleep, InClock, clockVars
  <2> QED
    BY <2>1 DEF ClockInv, Elapsed
<1>2. CASE timer_idle
  BY <1>2, <1>0, TickKeeps DEF timer_idle, TableType
<1>3. ASSUME NEW p \in Slot, ClockStep(p) PROVE ClockInv'
  <2>1. CASE \E n \in IOSizes : sys_sleep(p, n)
    <3>1. PICK n \in IOSizes : sys_sleep(p, n)
      BY <2>1
    <3>2. n \in Nat /\ TestTicks(p, ticks, n) /\ UNCHANGED <<state, chan, ticks>> /\ state[p] = "RUNNING"
      BY <3>1, PipeAssumption DEF sys_sleep, ptable, clockVars, InUser, Running
    <3> QED
      BY <1>0, <3>2, TestKeeps
  <2>2. CASE sys_sleep_again(p)
    <3>1. /\ TestTicks(p, loc[p].i, loc[p].n) /\ UNCHANGED <<state, chan, ticks>> /\ state[p] = "RUNNING"
          /\ loc[p].i \in Nat /\ loc[p].n \in Nat
      BY <1>0, <2>2 DEF sys_sleep_again, ptable, clockVars, Running, TableType, Locals
    <3> QED
      BY <3>1, TestKeeps
  <2>3. CASE sys_sleep_sleep(p)
    <3>1. /\ pc[p] = "sys_sleep_sleep" /\ sleep(p, <<"ticks", 0>>) /\ Goto(p, "sys_sleep")
          /\ UNCHANGED <<loc, ticks>>
      BY <2>3 DEF sys_sleep_sleep, clockVars
    <3>2. /\ \A q \in Slot \ {p} : state'[q] = state[q] /\ chan'[q] = chan[q] /\ pc'[q] = pc[q]
          /\ chan'[p] = <<"ticks", 0>> /\ pc'[p] = "sys_sleep"
      BY <1>0, <3>1 DEF TableType, Goto, sleep
    <3>3. chan'[p][2] = 0
      BY <3>2
    <3> QED
      BY <3>1, <3>2, <3>3 DEF ClockInv, Asleep, Elapsed
  <2>4. CASE timer(p)
    <3> DEFINE st == IF pc[p] = "user" \/ Preempt THEN [state EXCEPT ![p] = "RUNNABLE"] ELSE state
    <3>1. Tick(st)
      BY <2>4 DEF timer
    <3>2. /\ st \in [Slot -> ProcState]
          /\ \A q \in Slot : st[q] = "SLEEPING" => state[q] = "SLEEPING"
      BY <1>0 DEF TableType, ProcState
    <3> HIDE DEF st
    <3> QED
      BY <3>1, <3>2, TickKeeps
  <2> QED
    BY <1>3, <2>1, <2>2, <2>3, <2>4 DEF ClockStep
<1> QED
  BY <1>1, <1>2, <1>3, Frames

\* Whoever sleeps in sys_sleep() still has ticks to wait for, also when ticks overflows.
THEOREM ClockInvariant == Spec => []ClockInv
<1>1. ASSUME Init PROVE ClockInv
  <2>1. \A p \in Slot : state[p] = "SLEEPING" => chan[p] = <<"wait", initproc>>
    BY <1>1 DEF Init, ProcInit, Forked
  <2>2. \A p \in Slot : pc[p] # "sys_sleep_sleep"
    BY <1>1 DEF Init, ProcInit, Forked
  <2> QED
    BY <2>1, <2>2 DEF ClockInv, Asleep
<1>2. Types /\ ClockInv /\ [Next]_vars => ClockInv'
  BY ClockKeeps
<1> QED
  BY <1>1, <1>2, TypesInvariant, PTL DEF Spec

-----------------------------------------------------------------------------
(* The buffer cache                                                        *)

\* Who has a reference to a buffer, waits for its request to be done, and uses it.
Referrers(b) == {p \in Slot : pc[p] \in InDisk /\ loc[p].i = b}
Waits(p, b) == pc[p] = "iderw" /\ loc[p].i = b
Has(p, b) == pc[p] = "held" /\ loc[p].i = b
Queued(b) == \E i \in 1..Len(idequeue) : idequeue[i] = b
Distinct == \A i, j \in 1..Len(idequeue) : i # j => idequeue[i] # idequeue[j]

\* A block has one buffer.
UniqueInv ==
    \A b, c \in Buffer : b # c /\ buf[b].blockno # 0 => buf[b].blockno # buf[c].blockno

\* refcnt counts the processes between bget and brelse.
RefInv == \A b \in Buffer : buf[b].refcnt = Cardinality(Referrers(b))

\* The owner of the lock is the one who waits for the request or uses the buffer; a request
\* that is queued has its owner waiting and is not done, and one that is waited for is queued
\* or done; a buffer in use is valid, and a dirty one holds data.
BufInv(b) ==
    /\ \A p \in Slot : buf[b].owner = p <=> Waits(p, b) \/ Has(p, b)
    /\ Queued(b) => (\E p \in Slot : Waits(p, b)) /\ (buf[b].valid => buf[b].dirty)
    /\ \A p \in Slot : Waits(p, b) => Queued(b) \/ (buf[b].valid /\ ~buf[b].dirty)
    /\ \A p \in Slot : Has(p, b) => buf[b].valid
    /\ buf[b].dirty => buf[b].valid
    /\ buf[b].valid => buf[b].blockno \in Block

\* Nobody sleeps for a request that is done or for a lock that is free.
DiskSleepInv ==
    \A p \in Slot :
        /\ Asleep(p, "buf") => \E b \in Buffer : chan[p] = <<"buf", b>> /\ Queued(b)
        /\ Asleep(p, "lock") => \E b \in Buffer : chan[p] = <<"lock", b>> /\ buf[b].owner # 0

CacheInv ==
    UniqueInv /\ RefInv /\ Distinct /\ (\A b \in Buffer : BufInv(b)) /\ DiskSleepInv

\* Without read errors: a valid buffer holds what was last stored in its block, and so does
\* the disk unless a dirty buffer is yet to be written.
DataInv ==
    /\ \A b \in Buffer : buf[b].valid => buf[b].data = stored[buf[b].blockno]
    /\ \A n \in Block : (\A b \in Buffer : buf[b].blockno = n => ~buf[b].dirty) => disk[n] = stored[n]

\* Finitely many processes refer to a buffer.
LEMMA ReferrersFinite ==
  ASSUME NEW b
  PROVE  IsFiniteSet(Referrers(b)) /\ Referrers(b) \subseteq Slot
  BY SlotFacts, FS_Subset DEF Referrers

\* A step after which everybody is in bio.c and ide.c who was before changes no references.
LEMMA ReferrersSame ==
  ASSUME \A q \in Slot : /\ pc'[q] \in InDisk <=> pc[q] \in InDisk
                         /\ pc[q] \in InDisk => loc'[q].i = loc[q].i
  PROVE  \A b : Referrers(b)' = Referrers(b)
  BY DEF Referrers

\* Queueing a buffer that is not queued keeps the queue free of duplicates.
LEMMA QueueAppend ==
  ASSUME DiskType, Distinct, NEW b \in Buffer, ~Queued(b), idequeue' = Append(idequeue, b)
  PROVE  Distinct' /\ \A d : Queued(d)' <=> Queued(d) \/ d = b
<1>1. idequeue \in Seq(Buffer) /\ Len(idequeue) \in Nat
  BY DEF DiskType
<1>2. /\ Len(idequeue') = Len(idequeue) + 1
      /\ \A i \in 1..Len(idequeue) : idequeue'[i] = idequeue[i]
      /\ idequeue'[Len(idequeue) + 1] = b
  BY <1>1
<1>3. 1..Len(idequeue') = 1..Len(idequeue) \cup {Len(idequeue) + 1}
  BY <1>1, <1>2
<1>4. Distinct'
  BY <1>2, <1>3 DEF Distinct, Queued
<1>5. \A d : Queued(d)' <=> Queued(d) \/ d = b
  BY <1>2, <1>3 DEF Queued
<1> QED
  BY <1>4, <1>5

\* Serving the first buffer removes just that one.
LEMMA QueueTail ==
  ASSUME DiskType, Distinct, idequeue # <<>>, idequeue' = Tail(idequeue)
  PROVE  Distinct' /\ \A d : Queued(d)' <=> Queued(d) /\ d # Head(idequeue)
<1>1. idequeue \in Seq(Buffer) /\ Len(idequeue) \in Nat /\ Len(idequeue) # 0
  BY DEF DiskType
<1>2. /\ Len(idequeue') = Len(idequeue) - 1
      /\ \A i \in 1..Len(idequeue') : idequeue'[i] = idequeue[i + 1]
      /\ Head(idequeue) = idequeue[1]
  BY <1>1
<1>3. \A i \in 1..Len(idequeue') : i + 1 \in 1..Len(idequeue) /\ i + 1 # 1 /\ i \in Int
  BY <1>1, <1>2
<1>4. \A i \in 1..Len(idequeue) : i = 1 \/ (i - 1 \in 1..Len(idequeue') /\ (i - 1) + 1 = i)
  BY <1>1, <1>2
<1>5. 1 \in 1..Len(idequeue)
  BY <1>1
<1>6. Distinct'
  <2> SUFFICES ASSUME NEW i \in 1..Len(idequeue'), NEW j \in 1..Len(idequeue'), i # j
               PROVE  idequeue'[i] # idequeue'[j]
    BY DEF Distinct
  <2>1. i + 1 # j + 1
    BY <1>3
  <2> QED
    BY <1>2, <1>3, <2>1 DEF Distinct
<1>7. ASSUME NEW d PROVE Queued(d)' <=> Queued(d) /\ d # Head(idequeue)
  <2>1. ASSUME Queued(d)' PROVE Queued(d) /\ d # Head(idequeue)
    <3>1. PICK i \in 1..Len(idequeue') : idequeue'[i] = d
      BY <2>1 DEF Queued
    <3>2. idequeue[i + 1] = d /\ i + 1 \in 1..Len(idequeue) /\ i + 1 # 1
      BY <1>2, <1>3, <3>1
    <3>3. idequeue[i + 1] # idequeue[1]
      BY <1>5, <3>2 DEF Distinct
    <3> QED
      BY <1>2, <3>2, <3>3 DEF Queued
  <2>2. ASSUME Queued(d), d # Head(idequeue) PROVE Queued(d)'
    <3>1. PICK i \in 1..Len(idequeue) : idequeue[i] = d
      BY <2>2 DEF Queued
    <3>2. i - 1 \in 1..Len(idequeue') /\ (i - 1) + 1 = i
      BY <1>2, <1>4, <2>2, <3>1
    <3>3. idequeue'[i - 1] = d
      BY <1>2, <3>1, <3>2
    <3> QED
      BY <3>2, <3>3 DEF Queued
  <2> QED
    BY <2>1, <2>2
<1> QED
  BY <1>6, <1>7

\* Steps between bget and brelse move no buffer to another block and change no reference.
LEMMA SameBlocks ==
  ASSUME UniqueInv, RefInv,
         \A d \in Buffer : buf'[d].blockno = buf[d].blockno /\ buf'[d].refcnt = buf[d].refcnt,
         \A d : Referrers(d)' = Referrers(d)
  PROVE  UniqueInv' /\ RefInv'
<1>1. UniqueInv'
  BY DEF UniqueInv
<1>2. RefInv'
  <2> SUFFICES ASSUME NEW b \in Buffer PROVE buf'[b].refcnt = Cardinality(Referrers(b)')
    BY DEF RefInv
  <2> QED
    BY DEF RefInv
<1> QED
  BY <1>1, <1>2

\* A buffer that a step does not touch.
LEMMA Elsewhere ==
  ASSUME NEW d \in Buffer, BufInv(d), buf'[d] = buf[d], Queued(d)' <=> Queued(d),
         \A q \in Slot : (Waits(q, d)' <=> Waits(q, d)) /\ (Has(q, d)' <=> Has(q, d))
  PROVE  BufInv(d)'
  BY DEF BufInv

\* Who is where, for a step of process p that stays between bget and brelse.
LEMMA Stays ==
  ASSUME TableType, NEW p \in Slot, NEW l \in InDisk, pc[p] \in InDisk, loc' = loc,
         Goto(p, l) \/ (l = pc[p] /\ pc' = pc), NEW b \in Buffer, loc[p].i = b
  PROVE  /\ \A d : Referrers(d)' = Referrers(d)
         /\ \A q \in Slot \ {p} : \A d \in Buffer :
                (Waits(q, d)' <=> Waits(q, d)) /\ (Has(q, d)' <=> Has(q, d))
         /\ \A d \in Buffer \ {b} : ~Waits(p, d)' /\ ~Has(p, d)' /\ ~Waits(p, d) /\ ~Has(p, d)
         /\ Waits(p, b)' <=> l = "iderw"
         /\ Has(p, b)' <=> l = "held"
         /\ Waits(p, b) <=> pc[p] = "iderw"
         /\ Has(p, b) <=> pc[p] = "held"
<1>1. pc'[p] = l /\ \A q \in Slot \ {p} : pc'[q] = pc[q]
  BY DEF Goto, TableType
<1>2. \A d : Referrers(d)' = Referrers(d)
  BY <1>1 DEF Referrers
<1>3. \A q \in Slot \ {p} : \A d \in Buffer :
          (Waits(q, d)' <=> Waits(q, d)) /\ (Has(q, d)' <=> Has(q, d))
  BY <1>1 DEF Waits, Has
<1>4. \A d \in Buffer \ {b} : ~Waits(p, d)' /\ ~Has(p, d)' /\ ~Waits(p, d) /\ ~Has(p, d)
  BY <1>1 DEF Waits, Has
<1>5. (Waits(p, b)' <=> l = "iderw") /\ (Has(p, b)' <=> l = "held")
  BY <1>1 DEF Waits, Has
<1>6. (Waits(p, b) <=> pc[p] = "iderw") /\ (Has(p, b) <=> pc[p] = "held")
  BY DEF Waits, Has
<1> QED
  BY <1>2, <1>3, <1>4, <1>5, <1>6

\* What the types say of a process that has a buffer.
LEMMA HolderFacts ==
  ASSUME Types, NEW p \in Slot, pc[p] \in InDisk
  PROVE  /\ loc[p].i \in Buffer /\ buf[loc[p].i].blockno \in Block /\ buf[loc[p].i] \in BufRec
         /\ TableType /\ DiskType /\ DiskNamed /\ 0 \in 0..NPROC /\ p \in 0..NPROC /\ p # 0
         /\ \E v \in Value : TRUE
  BY BufFields, SlotFacts, DiskAssumption DEF Types, TableInv, DiskType, DiskNamed

\* Between bget and brelse: a step of p on its buffer b.
LEMMA LocalKeeps ==
  ASSUME Types, CacheInv, NEW p \in Slot, pc[p] \in InDisk, NEW l \in InDisk, loc' = loc,
         Goto(p, l) \/ (l = pc[p] /\ pc' = pc), NEW b \in Buffer, loc[p].i = b,
         \A d \in Buffer \ {b} : buf'[d] = buf[d] /\ (Queued(d)' <=> Queued(d)),
         buf'[b].blockno = buf[b].blockno, buf'[b].refcnt = buf[b].refcnt
  PROVE  /\ UniqueInv' /\ RefInv'
         /\ \A d \in Buffer \ {b} : BufInv(d)'
<1>1. TableType
  BY HolderFacts
<1>2. /\ \A d : Referrers(d)' = Referrers(d)
      /\ \A d \in Buffer \ {b} : \A q \in Slot :
            (Waits(q, d)' <=> Waits(q, d)) /\ (Has(q, d)' <=> Has(q, d))
  <2>1. /\ \A d : Referrers(d)' = Referrers(d)
        /\ \A q \in Slot \ {p} : \A d \in Buffer :
               (Waits(q, d)' <=> Waits(q, d)) /\ (Has(q, d)' <=> Has(q, d))
        /\ \A d \in Buffer \ {b} : ~Waits(p, d)' /\ ~Has(p, d)' /\ ~Waits(p, d) /\ ~Has(p, d)
    BY <1>1, Stays
  <2> QED
    BY <2>1
<1>3. \A d \in Buffer : buf'[d].blockno = buf[d].blockno /\ buf'[d].refcnt = buf[d].refcnt
  <2> TAKE d \in Buffer
  <2> QED
    BY DEF Buffer
<1>4. UniqueInv' /\ RefInv'
  BY <1>2, <1>3, SameBlocks DEF CacheInv
<1>5. ASSUME NEW d \in Buffer \ {b} PROVE BufInv(d)'
  <2>1. BufInv(d) /\ d \in Buffer /\ buf'[d] = buf[d] /\ (Queued(d)' <=> Queued(d))
    BY <1>5 DEF CacheInv
  <2>2. \A q \in Slot : (Waits(q, d)' <=> Waits(q, d)) /\ (Has(q, d)' <=> Has(q, d))
    BY <1>2, <1>5
  <2> QED
    BY <2>1, <2>2, Elsewhere
<1> QED
  BY <1>4, <1>5

\* A process goes to sleep for a request that is queued, or for a lock that is taken.
LEMMA SleepsForDisk ==
  ASSUME TableType, DiskSleepInv, NEW p \in Slot, NEW b \in Buffer, NEW k \in {"buf", "lock"},
         sleep(p, <<k, b>>),
         k = "buf" => Queued(b)', k = "lock" => buf'[b].owner # 0,
         \A d \in Buffer : (Queued(d) => Queued(d)') /\ (buf[d].owner # 0 => buf'[d].owner # 0)
  PROVE  DiskSleepInv'
<1>1. /\ \A q \in Slot \ {p} : state'[q] = state[q] /\ chan'[q] = chan[q]
      /\ chan'[p] = <<k, b>>
  BY DEF sleep, TableType
<1>2. chan'[p][1] = k
  BY <1>1
<1> SUFFICES ASSUME NEW q \in Slot
             PROVE  /\ Asleep(q, "buf")' => \E d \in Buffer : chan'[q] = <<"buf", d>> /\ Queued(d)'
                    /\ Asleep(q, "lock")' => \E d \in Buffer : chan'[q] = <<"lock", d>> /\ buf'[d].owner # 0
  BY DEF DiskSleepInv
<1>3. CASE q = p
  BY <1>1, <1>2, <1>3 DEF Asleep
<1>4. CASE q # p
  <2>1. /\ Asleep(q, "buf") => \E d \in Buffer : chan[q] = <<"buf", d>> /\ Queued(d)
        /\ Asleep(q, "lock") => \E d \in Buffer : chan[q] = <<"lock", d>> /\ buf[d].owner # 0
    BY DEF DiskSleepInv
  <2>2. state'[q] = state[q] /\ chan'[q] = chan[q]
    BY <1>1, <1>4
  <2>3. (Asleep(q, "buf")' => Asleep(q, "buf")) /\ (Asleep(q, "lock")' => Asleep(q, "lock"))
    BY <2>2 DEF Asleep
  <2>4. Asleep(q, "buf")' => \E d \in Buffer : chan'[q] = <<"buf", d>> /\ Queued(d)'
    BY <2>1, <2>2, <2>3
  <2>5. Asleep(q, "lock")' => \E d \in Buffer : chan'[q] = <<"lock", d>> /\ buf'[d].owner # 0
    BY <2>1, <2>2, <2>3
  <2> QED
    BY <2>4, <2>5
<1> QED
  BY <1>3, <1>4

\* The lock of the buffer is not free: p sleeps.
LEMMA AcquireKeeps ==
  ASSUME Types, CacheInv, NEW p \in Slot, acquiresleep(p)
  PROVE  CacheInv'
<1> DEFINE b == loc[p].i
<1>1. /\ pc[p] = "acquiresleep" /\ buf[b].owner # 0 /\ sleep(p, <<"lock", b>>)
      /\ UNCHANGED <<pc, loc, diskVars>>
  BY DEF acquiresleep
<1>2. pc[p] \in InDisk
  BY <1>1 DEF InDisk
<1>3. b \in Buffer /\ TableType
  BY <1>2, HolderFacts
<1>4. UniqueInv' /\ RefInv' /\ Distinct'
  BY <1>1 DEF CacheInv, UniqueInv, RefInv, Distinct, Referrers, diskVars
<1>5. \A d \in Buffer : BufInv(d)'
  BY <1>1 DEF CacheInv, BufInv, Waits, Has, Queued, diskVars
<1>6. DiskSleepInv'
  <2> HIDE DEF b
  <2>1. buf' = buf /\ \A d : Queued(d)' <=> Queued(d)
    BY <1>1 DEF Queued, diskVars
  <2> QED
    BY <1>1, <1>3, <2>1, SleepsForDisk DEF CacheInv
<1> QED
  BY <1>4, <1>5, <1>6 DEF CacheInv

\* The lock is free and p takes it; the buffer is read if it is not valid.
LEMMA BreadKeeps ==
  ASSUME Types, CacheInv, NEW p \in Slot, bread(p)
  PROVE  CacheInv'
<1>0. pc[p] = "acquiresleep" /\ pc[p] \in InDisk /\ loc' = loc
  BY DEF bread, InDisk
<1>1. /\ loc[p].i \in Buffer /\ TableType /\ DiskType /\ p # 0 /\ p \in 0..NPROC
      /\ \E v \in Value : TRUE
  BY <1>0, HolderFacts
<1>2. PICK b \in Buffer : loc[p].i = b
  BY <1>1
<1>3. /\ buf[b].owner = 0 /\ buf' = [buf EXCEPT ![b].owner = p]
      /\ IF buf[b].valid THEN Goto(p, "held") /\ UNCHANGED <<idequeue, state, chan>> ELSE iderw(p, b)
  BY <1>2 DEF bread
<1>4. PICK l \in InDisk : Goto(p, l) /\ l = IF buf[b].valid THEN "held" ELSE "iderw"
  BY <1>3 DEF iderw, InDisk
<1>5. BufSet(b, Seized(b, p))
  BY <1>1, <1>3, BufSteps
<1>6. /\ buf'[b].blockno = buf[b].blockno /\ buf'[b].valid = buf[b].valid
      /\ buf'[b].dirty = buf[b].dirty /\ buf'[b].owner = p /\ buf'[b].refcnt = buf[b].refcnt
      /\ \A d \in Buffer \ {b} : buf'[d] = buf[d]
  BY <1>5 DEF BufSet, Seized
<1>7. \A q \in Slot : ~Waits(q, b) /\ ~Has(q, b)
  BY <1>3, SlotFacts DEF CacheInv, BufInv
<1>8. ~Queued(b) /\ (buf[b].dirty => buf[b].valid) /\ (buf[b].valid => buf[b].blockno \in Block)
  BY <1>7 DEF CacheInv, BufInv
<1>9. /\ \A q \in Slot \ {p} : (Waits(q, b)' <=> Waits(q, b)) /\ (Has(q, b)' <=> Has(q, b))
      /\ Waits(p, b)' <=> l = "iderw"
      /\ Has(p, b)' <=> l = "held"
  BY <1>0, <1>1, <1>2, <1>4, Stays
<1>10. \A d \in Buffer : d # b => buf'[d].owner = buf[d].owner
  BY <1>6
<1>11. CASE buf[b].valid
  <2>1. UNCHANGED <<idequeue, state, chan>> /\ l = "held"
    BY <1>3, <1>4, <1>11
  <2>2. Distinct' /\ \A d : Queued(d)' <=> Queued(d)
    BY <2>1 DEF Queued, Distinct, CacheInv
  <2>3. UniqueInv' /\ RefInv' /\ \A d \in Buffer \ {b} : BufInv(d)'
    BY <1>0, <1>2, <1>4, <1>6, <2>2, LocalKeeps
  <2>4. BufInv(b)'
    BY <1>6, <1>7, <1>8, <1>9, <1>11, <2>1, <2>2 DEF BufInv
  <2>5. DiskSleepInv'
    BY <1>1, <1>6, <1>10, <2>1, <2>2 DEF CacheInv, DiskSleepInv, Asleep
  <2> QED
    BY <2>2, <2>3, <2>4, <2>5 DEF CacheInv
<1>12. CASE ~buf[b].valid
  <2>1. idequeue' = Append(idequeue, b) /\ sleep(p, <<"buf", b>>) /\ l = "iderw"
    BY <1>3, <1>4, <1>12 DEF iderw
  <2>2. Distinct' /\ \A d : Queued(d)' <=> Queued(d) \/ d = b
    BY <1>1, <1>8, <2>1, QueueAppend DEF CacheInv
  <2>3. UniqueInv' /\ RefInv' /\ \A d \in Buffer \ {b} : BufInv(d)'
    BY <1>0, <1>2, <1>4, <1>6, <2>2, LocalKeeps
  <2>4. BufInv(b)'
    BY <1>6, <1>7, <1>8, <1>9, <1>12, <2>1, <2>2 DEF BufInv
  <2>5. DiskSleepInv'
    <3>1. \A d \in Buffer : (Queued(d) => Queued(d)') /\ (buf[d].owner # 0 => buf'[d].owner # 0)
      BY <1>1, <1>6, <1>10, <2>2
    <3> QED
      BY <1>1, <2>1, <2>2, <3>1, SleepsForDisk DEF CacheInv
  <2> QED
    BY <2>2, <2>3, <2>4, <2>5 DEF CacheInv
<1> QED
  BY <1>11, <1>12

\* One who uses a buffer has its lock, and its request is done.
LEMMA HeldFacts ==
  ASSUME Types, CacheInv, NEW p \in Slot, pc[p] = "held", NEW b \in Buffer, loc[p].i = b
  PROVE  /\ buf[b].owner = p /\ buf[b].valid /\ ~Queued(b)
         /\ \A q \in Slot : ~Waits(q, b) /\ (Has(q, b) <=> q = p)
<1>1. Has(p, b) /\ ~Waits(p, b)
  BY DEF Has, Waits
<1>2. BufInv(b)
  BY DEF CacheInv
<1>3. buf[b].owner = p /\ buf[b].valid
  BY <1>1, <1>2 DEF BufInv
<1>4. \A q \in Slot : ~Waits(q, b) /\ (Has(q, b) <=> q = p)
  BY <1>1, <1>2, <1>3 DEF BufInv
<1>5. ~Queued(b)
  BY <1>2, <1>4 DEF BufInv
<1> QED
  BY <1>3, <1>4, <1>5

\* The interrupt has come, or has not.
LEMMA IderwWaitKeeps ==
  ASSUME Types, CacheInv, NEW p \in Slot, iderw_wait(p)
  PROVE  CacheInv'
<1>0. pc[p] = "iderw" /\ pc[p] \in InDisk /\ loc' = loc /\ UNCHANGED diskVars
  BY DEF iderw_wait, InDisk
<1>1. loc[p].i \in Buffer /\ TableType
  BY <1>0, HolderFacts
<1>2. PICK b \in Buffer : loc[p].i = b
  BY <1>1
<1>3. IF buf[b].valid /\ ~buf[b].dirty THEN Goto(p, "held") /\ UNCHANGED <<state, chan>>
      ELSE sleep(p, <<"buf", b>>) /\ UNCHANGED pc
  BY <1>2 DEF iderw_wait
<1>4. buf' = buf /\ Distinct' /\ \A d : Queued(d)' <=> Queued(d)
  BY <1>0 DEF Queued, Distinct, CacheInv, diskVars
<1>5. BufInv(b) /\ Waits(p, b)
  BY <1>0, <1>2 DEF CacheInv, Waits
<1>6. CASE buf[b].valid /\ ~buf[b].dirty
  <2>1. PICK l \in InDisk : Goto(p, l) /\ l = "held" /\ UNCHANGED <<state, chan>>
    BY <1>3, <1>6 DEF InDisk
  <2>2. UniqueInv' /\ RefInv' /\ \A d \in Buffer \ {b} : BufInv(d)'
    BY <1>0, <1>2, <1>4, <2>1, LocalKeeps
  <2>3. /\ \A q \in Slot \ {p} : (Waits(q, b)' <=> Waits(q, b)) /\ (Has(q, b)' <=> Has(q, b))
        /\ ~Waits(p, b)' /\ Has(p, b)'
    BY <1>0, <1>1, <1>2, <2>1, Stays
  <2>4. \A q \in Slot \ {p} : ~Waits(q, b) /\ ~Has(q, b)
    BY <1>5 DEF BufInv
  <2>5. BufInv(b)'
    BY <1>4, <1>5, <1>6, <2>3, <2>4 DEF BufInv
  <2>6. DiskSleepInv'
    BY <1>4, <2>1 DEF CacheInv, DiskSleepInv, Asleep
  <2> QED
    BY <1>4, <2>2, <2>5, <2>6 DEF CacheInv
<1>7. CASE ~ (buf[b].valid /\ ~buf[b].dirty)
  <2>1. sleep(p, <<"buf", b>>) /\ pc' = pc
    BY <1>3, <1>7
  <2>2. UniqueInv' /\ RefInv'
    BY <1>0, <1>4, <2>1 DEF CacheInv, UniqueInv, RefInv, Referrers
  <2>3. \A d \in Buffer : BufInv(d)'
    BY <1>0, <1>4, <2>1 DEF CacheInv, BufInv, Waits, Has
  <2>4. Queued(b)'
    BY <1>4, <1>5, <1>7 DEF BufInv
  <2>5. DiskSleepInv'
    BY <1>1, <1>4, <2>1, <2>4, SleepsForDisk DEF CacheInv
  <2> QED
    BY <1>4, <2>2, <2>3, <2>5 DEF CacheInv
<1> QED
  BY <1>6, <1>7

\* The buffer of the holder becomes dirty.
LEMMA LogWriteKeeps ==
  ASSUME Types, CacheInv, NEW p \in Slot, NEW v \in Value, log_write(p, v)
  PROVE  CacheInv'
<1>0. /\ pc[p] = "held" /\ pc[p] \in InDisk
      /\ UNCHANGED <<state, chan, pc, loc, idequeue>>
  BY DEF log_write, InDisk, procVars, ptable
<1>1. loc[p].i \in Buffer /\ TableType /\ DiskType /\ 0 \in 0..NPROC /\ buf[loc[p].i].blockno \in Block
  BY <1>0, HolderFacts
<1>2. PICK b \in Buffer : loc[p].i = b
  BY <1>1
<1>3. BufSet(b, Kept(b, v))
  BY <1>1, <1>2, BufSteps DEF log_write
<1>4. /\ buf'[b].blockno = buf[b].blockno /\ buf'[b].valid = buf[b].valid
      /\ buf'[b].dirty = TRUE /\ buf'[b].owner = buf[b].owner /\ buf'[b].refcnt = buf[b].refcnt
      /\ \A d \in Buffer \ {b} : buf'[d] = buf[d]
  BY <1>3 DEF BufSet, Kept
<1>5. Distinct' /\ \A d : Queued(d)' <=> Queued(d)
  BY <1>0 DEF Queued, Distinct, CacheInv
<1>6. UniqueInv' /\ RefInv' /\ \A d \in Buffer \ {b} : BufInv(d)'
  BY <1>0, <1>2, <1>4, <1>5, LocalKeeps
<1>7. /\ buf[b].owner = p /\ buf[b].valid /\ ~Queued(b)
      /\ \A q \in Slot : ~Waits(q, b) /\ (Has(q, b) <=> q = p)
  BY <1>0, <1>2, HeldFacts
<1>8. \A q \in Slot : (Waits(q, b)' <=> Waits(q, b)) /\ (Has(q, b)' <=> Has(q, b))
  BY <1>0 DEF Waits, Has
<1>9. BufInv(b)'
  BY <1>1, <1>2, <1>4, <1>5, <1>7, <1>8 DEF BufInv
<1>10. DiskSleepInv'
  BY <1>0, <1>4, <1>5 DEF CacheInv, DiskSleepInv, Asleep
<1> QED
  BY <1>5, <1>6, <1>9, <1>10 DEF CacheInv

\* The holder asks for its buffer to be written.
LEMMA BwriteKeeps ==
  ASSUME Types, CacheInv, NEW p \in Slot, bwrite(p)
  PROVE  CacheInv'
<1>0. pc[p] = "held" /\ pc[p] \in InDisk /\ loc' = loc
  BY DEF bwrite, InDisk
<1>1. /\ loc[p].i \in Buffer /\ TableType /\ DiskType /\ 0 \in 0..NPROC
      /\ buf[loc[p].i].blockno \in Block /\ \E v \in Value : TRUE
  BY <1>0, HolderFacts
<1>2. PICK b \in Buffer : loc[p].i = b
  BY <1>1
<1>3. /\ buf' = [buf EXCEPT ![b].dirty = TRUE]
      /\ idequeue' = Append(idequeue, b) /\ sleep(p, <<"buf", b>>) /\ Goto(p, "iderw")
  BY <1>2 DEF bwrite, iderw
<1>4. BufSet(b, Dirtied(b))
  BY <1>1, <1>3, BufSteps
<1>5. /\ buf'[b].blockno = buf[b].blockno /\ buf'[b].valid = buf[b].valid
      /\ buf'[b].dirty = TRUE /\ buf'[b].owner = buf[b].owner /\ buf'[b].refcnt = buf[b].refcnt
      /\ \A d \in Buffer \ {b} : buf'[d] = buf[d]
  BY <1>4 DEF BufSet, Dirtied
<1>6. PICK l \in InDisk : Goto(p, l) /\ l = "iderw"
  BY <1>3 DEF InDisk
<1>7. /\ buf[b].owner = p /\ buf[b].valid /\ ~Queued(b)
      /\ \A q \in Slot : ~Waits(q, b) /\ (Has(q, b) <=> q = p)
  BY <1>0, <1>2, HeldFacts
<1>8. Distinct' /\ \A d : Queued(d)' <=> Queued(d) \/ d = b
  BY <1>1, <1>3, <1>7, QueueAppend DEF CacheInv
<1>9. UniqueInv' /\ RefInv' /\ \A d \in Buffer \ {b} : BufInv(d)'
  BY <1>0, <1>2, <1>5, <1>6, <1>8, LocalKeeps
<1>10. /\ \A q \in Slot \ {p} : (Waits(q, b)' <=> Waits(q, b)) /\ (Has(q, b)' <=> Has(q, b))
       /\ Waits(p, b)' /\ ~Has(p, b)'
  BY <1>0, <1>1, <1>2, <1>6, Stays
<1>11. BufInv(b)'
  BY <1>1, <1>2, <1>5, <1>7, <1>8, <1>10 DEF BufInv
<1>12. DiskSleepInv'
  <2>1. \A d \in Buffer : (Queued(d) => Queued(d)') /\ (buf[d].owner # 0 => buf'[d].owner # 0)
    BY <1>5, <1>8
  <2> QED
    BY <1>1, <1>3, <1>8, <2>1, SleepsForDisk DEF CacheInv
<1> QED
  BY <1>8, <1>9, <1>11, <1>12 DEF CacheInv

\* A wakeup, and what its sleepers waited for may have happened.
LEMMA WakesForDisk ==
  ASSUME TableType, DiskSleepInv, NEW b \in Buffer, NEW k \in {"buf", "lock"},
         wakeup(<<k, b>>), chan' = chan,
         \A d \in Buffer : /\ Queued(d) => Queued(d)' \/ (k = "buf" /\ d = b)
                           /\ buf[d].owner # 0 => buf'[d].owner # 0 \/ (k = "lock" /\ d = b)
  PROVE  DiskSleepInv'
<1>1. \A q \in Slot : /\ state'[q] = "SLEEPING" => state[q] = "SLEEPING"
                      /\ state'[q] = "SLEEPING" => chan[q] # <<k, b>>
  BY DEF wakeup, wakeup1, TableType
<1> SUFFICES ASSUME NEW q \in Slot
             PROVE  /\ Asleep(q, "buf")' => \E d \in Buffer : chan'[q] = <<"buf", d>> /\ Queued(d)'
                    /\ Asleep(q, "lock")' => \E d \in Buffer : chan'[q] = <<"lock", d>> /\ buf'[d].owner # 0
  BY DEF DiskSleepInv
<1>2. /\ Asleep(q, "buf") => \E d \in Buffer : chan[q] = <<"buf", d>> /\ Queued(d)
      /\ Asleep(q, "lock") => \E d \in Buffer : chan[q] = <<"lock", d>> /\ buf[d].owner # 0
  BY DEF DiskSleepInv
<1>3. /\ Asleep(q, "buf")' => Asleep(q, "buf") /\ chan[q] # <<k, b>>
      /\ Asleep(q, "lock")' => Asleep(q, "lock") /\ chan[q] # <<k, b>>
  BY <1>1 DEF Asleep
<1>4. ASSUME Asleep(q, "buf")' PROVE \E d \in Buffer : chan'[q] = <<"buf", d>> /\ Queued(d)'
  BY <1>2, <1>3, <1>4
<1>5. ASSUME Asleep(q, "lock")' PROVE \E d \in Buffer : chan'[q] = <<"lock", d>> /\ buf'[d].owner # 0
  BY <1>2, <1>3, <1>5
<1> QED
  BY <1>4, <1>5

\* The holder gives the lock back and wakes those who wait for it.
LEMMA ReleaseKeeps ==
  ASSUME Types, CacheInv, NEW p \in Slot, releasesleep(p)
  PROVE  CacheInv'
<1>0. pc[p] = "held" /\ pc[p] \in InDisk /\ UNCHANGED <<loc, chan, idequeue>>
  BY DEF releasesleep, InDisk
<1>1. /\ loc[p].i \in Buffer /\ TableType /\ DiskType /\ 0 \in 0..NPROC
      /\ buf[loc[p].i].blockno \in Block /\ \E v \in Value : TRUE
  BY <1>0, HolderFacts
<1>2. PICK b \in Buffer : loc[p].i = b
  BY <1>1
<1>3. /\ buf' = [buf EXCEPT ![b].owner = 0] /\ wakeup(<<"lock", b>>) /\ Goto(p, "brelse")
  BY <1>2 DEF releasesleep
<1>4. BufSet(b, Unlocked(b))
  BY <1>1, <1>3, BufSteps
<1>5. /\ buf'[b].blockno = buf[b].blockno /\ buf'[b].valid = buf[b].valid
      /\ buf'[b].dirty = buf[b].dirty /\ buf'[b].owner = 0 /\ buf'[b].refcnt = buf[b].refcnt
      /\ \A d \in Buffer \ {b} : buf'[d] = buf[d]
  BY <1>4 DEF BufSet, Unlocked
<1>6. PICK l \in InDisk : Goto(p, l) /\ l = "brelse"
  BY <1>3 DEF InDisk
<1>7. Distinct' /\ \A d : Queued(d)' <=> Queued(d)
  BY <1>0 DEF Queued, Distinct, CacheInv
<1>8. UniqueInv' /\ RefInv' /\ \A d \in Buffer \ {b} : BufInv(d)'
  BY <1>0, <1>2, <1>5, <1>6, <1>7, LocalKeeps
<1>9. /\ buf[b].owner = p /\ buf[b].valid /\ ~Queued(b)
      /\ \A q \in Slot : ~Waits(q, b) /\ (Has(q, b) <=> q = p)
  BY <1>0, <1>2, HeldFacts
<1>10. /\ \A q \in Slot \ {p} : (Waits(q, b)' <=> Waits(q, b)) /\ (Has(q, b)' <=> Has(q, b))
       /\ ~Waits(p, b)' /\ ~Has(p, b)'
  BY <1>0, <1>1, <1>2, <1>6, Stays
<1>11. BufInv(b)'
  <2>1. \A q \in Slot : ~Waits(q, b)' /\ ~Has(q, b)' /\ q # 0
    BY <1>9, <1>10, SlotFacts
  <2> QED
    BY <1>1, <1>2, <1>5, <1>7, <1>9, <2>1 DEF BufInv
<1>12. DiskSleepInv'
  <2>1. \A d \in Buffer : /\ Queued(d) => Queued(d)'
                          /\ buf[d].owner # 0 => buf'[d].owner # 0 \/ d = b
    BY <1>5, <1>7
  <2> QED
    BY <1>0, <1>1, <1>3, <2>1, WakesForDisk DEF CacheInv
<1> QED
  BY <1>7, <1>8, <1>11, <1>12 DEF CacheInv

\* Who refers to a buffer, when p starts or stops to.
LEMMA RefersMore ==
  ASSUME NEW p \in Slot, NEW b \in Buffer, pc[p] \notin InDisk, pc'[p] \in InDisk, loc'[p].i = b,
         \A q \in Slot \ {p} : pc'[q] = pc[q] /\ loc'[q] = loc[q]
  PROVE  /\ Cardinality(Referrers(b)') = Cardinality(Referrers(b)) + 1
         /\ \A d \in Buffer \ {b} : Referrers(d)' = Referrers(d)
<1>1. p \notin Referrers(b) /\ Referrers(b)' = Referrers(b) \cup {p}
  BY DEF Referrers
<1>2. \A d \in Buffer \ {b} : Referrers(d)' = Referrers(d)
  BY DEF Referrers
<1>3. IsFiniteSet(Referrers(b))
  BY ReferrersFinite
<1> QED
  BY <1>1, <1>2, <1>3, FS_AddElement

\* brelse() takes away one reference.
LEMMA RefersLess ==
  ASSUME NEW p \in Slot, NEW b \in Buffer, pc[p] \in InDisk, pc'[p] \notin InDisk, loc[p].i = b,
         \A q \in Slot \ {p} : pc'[q] = pc[q] /\ loc'[q] = loc[q]
  PROVE  /\ Cardinality(Referrers(b)') = Cardinality(Referrers(b)) - 1
         /\ \A d \in Buffer \ {b} : Referrers(d)' = Referrers(d)
<1>1. p \in Referrers(b) /\ Referrers(b)' = Referrers(b) \ {p}
  BY DEF Referrers
<1>2. \A d \in Buffer \ {b} : Referrers(d)' = Referrers(d)
  BY DEF Referrers
<1>3. IsFiniteSet(Referrers(b))
  BY ReferrersFinite
<1> QED
  BY <1>1, <1>2, <1>3, FS_RemoveElement

\* p returns from brelse.
LEMMA BrelseKeeps ==
  ASSUME Types, CacheInv, NEW p \in Slot, brelse(p)
  PROVE  CacheInv'
<1>0. pc[p] = "brelse" /\ pc[p] \in InDisk /\ Return(p) /\ UNCHANGED <<state, chan, idequeue>>
  BY DEF brelse, InDisk, ptable
<1>1. /\ loc[p].i \in Buffer /\ TableType /\ DiskType /\ 0 \in 0..NPROC /\ \E v \in Value : TRUE
  BY <1>0, HolderFacts
<1>2. PICK b \in Buffer : loc[p].i = b
  BY <1>1
<1>3. buf' = [buf EXCEPT ![b].refcnt = @ - 1]
  BY <1>2 DEF brelse
<1>4. BufSet(b, Dropped(b))
  BY <1>1, <1>3, BufSteps
<1>5. /\ buf'[b].blockno = buf[b].blockno /\ buf'[b].valid = buf[b].valid
      /\ buf'[b].dirty = buf[b].dirty /\ buf'[b].owner = buf[b].owner
      /\ buf'[b].refcnt = buf[b].refcnt - 1
      /\ \A d \in Buffer \ {b} : buf'[d] = buf[d]
  BY <1>4 DEF BufSet, Dropped
<1>6. /\ pc'[p] = "user" /\ \A q \in Slot \ {p} : pc'[q] = pc[q] /\ loc'[q] = loc[q]
  BY <1>0, <1>1 DEF Return, Goto, TableType
<1>7. pc'[p] \notin InDisk
  BY <1>6 DEF InDisk
<1>8. /\ Cardinality(Referrers(b)') = Cardinality(Referrers(b)) - 1
      /\ \A d \in Buffer \ {b} : Referrers(d)' = Referrers(d)
  BY <1>0, <1>2, <1>6, <1>7, RefersLess
<1>9. Distinct' /\ \A d : Queued(d)' <=> Queued(d)
  BY <1>0 DEF Queued, Distinct, CacheInv
<1>10. \A q \in Slot : \A d \in Buffer : (Waits(q, d)' <=> Waits(q, d)) /\ (Has(q, d)' <=> Has(q, d))
  BY <1>0, <1>6 DEF Waits, Has
<1>11. \A d \in Buffer : /\ buf'[d].blockno = buf[d].blockno /\ buf'[d].valid = buf[d].valid
                         /\ buf'[d].dirty = buf[d].dirty /\ buf'[d].owner = buf[d].owner
  BY <1>5
<1>12. UniqueInv'
  BY <1>11 DEF CacheInv, UniqueInv
<1>13. RefInv'
  BY <1>5, <1>8 DEF CacheInv, RefInv
<1>14. \A d \in Buffer : BufInv(d)'
  <2> SUFFICES ASSUME NEW d \in Buffer PROVE BufInv(d)'
    OBVIOUS
  <2>1. BufInv(d)
    BY DEF CacheInv
  <2> QED
    BY <2>1, <1>9, <1>10, <1>11 DEF BufInv
<1>15. DiskSleepInv'
  BY <1>0, <1>9, <1>11 DEF CacheInv, DiskSleepInv, Asleep
<1> QED
  BY <1>9, <1>12, <1>13, <1>14, <1>15 DEF CacheInv

\* bget finds the buffer of the block, or takes one that nobody refers to.
LEMMA BgetKeeps ==
  ASSUME Types, CacheInv, NEW p \in Slot, NEW n \in Block, bget(p, n)
  PROVE  CacheInv'
<1>1. TableType /\ DiskType
  BY DEF Types, TableInv
<1>2. /\ pc[p] = "user" /\ UNCHANGED <<ptable, idequeue>> /\ Goto(p, "acquiresleep")
  BY <1>1, BgetIs
<1>3. PICK b \in Buffer :
         /\ loc' = [loc EXCEPT ![p] = [np |-> 0, i |-> b, n |-> 0]]
         /\ \/ buf[b].blockno = n /\ BufSet(b, Taken(b))
            \/ /\ \A c \in Buffer : buf[c].blockno # n
               /\ Recyclable(b) /\ BufSet(b, Recycled(b, n))
  BY <1>1, BgetIs
<1>4. /\ pc'[p] = "acquiresleep" /\ loc'[p].i = b
      /\ \A q \in Slot \ {p} : pc'[q] = pc[q] /\ loc'[q] = loc[q]
  BY <1>1, <1>2, <1>3 DEF Goto, TableType
<1>5. pc[p] \notin InDisk /\ pc'[p] \in InDisk
  BY <1>2, <1>4 DEF InDisk
<1>6. /\ Cardinality(Referrers(b)') = Cardinality(Referrers(b)) + 1
      /\ \A d \in Buffer \ {b} : Referrers(d)' = Referrers(d)
  BY <1>4, <1>5, RefersMore
<1>7. UNCHANGED <<state, chan>> /\ Distinct' /\ \A d : Queued(d)' <=> Queued(d)
  BY <1>2 DEF Queued, Distinct, CacheInv, ptable
<1>8. \A q \in Slot : \A d \in Buffer : (Waits(q, d)' <=> Waits(q, d)) /\ (Has(q, d)' <=> Has(q, d))
  BY <1>2, <1>4 DEF Waits, Has
<1>9. \A d \in Buffer \ {b} : buf'[d] = buf[d]
  BY <1>3 DEF BufSet
<1>10. buf'[b].refcnt = buf[b].refcnt + 1 /\ buf'[b].owner = buf[b].owner
  BY <1>3 DEF BufSet, Taken, Recycled, Recyclable
<1>11. RefInv'
  BY <1>6, <1>9, <1>10 DEF CacheInv, RefInv
<1>12. DiskSleepInv'
  BY <1>7, <1>9, <1>10 DEF CacheInv, DiskSleepInv, Asleep
<1>13. \A d \in Buffer \ {b} : BufInv(d)'
  <2> SUFFICES ASSUME NEW d \in Buffer \ {b} PROVE BufInv(d)'
    OBVIOUS
  <2>1. BufInv(d)
    BY DEF CacheInv
  <2> QED
    BY <2>1, <1>7, <1>8, <1>9, Elsewhere
<1>14. BufInv(b)
  BY DEF CacheInv
<1>15. CASE buf[b].blockno = n /\ BufSet(b, Taken(b))
  <2>1. /\ buf'[b].blockno = buf[b].blockno /\ buf'[b].valid = buf[b].valid
        /\ buf'[b].dirty = buf[b].dirty
    BY <1>15 DEF BufSet, Taken
  <2>2. BufInv(b)'
    BY <1>7, <1>8, <1>10, <1>14, <2>1 DEF BufInv
  <2>3. UniqueInv'
    BY <1>9, <2>1 DEF CacheInv, UniqueInv
  <2> QED
    BY <1>7, <1>11, <1>12, <1>13, <2>2, <2>3 DEF CacheInv
<1>16. CASE /\ \A c \in Buffer : buf[c].blockno # n
            /\ Recyclable(b) /\ BufSet(b, Recycled(b, n))
  <2>1. buf'[b].blockno = n /\ ~buf'[b].valid /\ ~buf'[b].dirty
    BY <1>16 DEF BufSet, Recycled
  <2>2. Referrers(b) = {}
    <3>1. IsFiniteSet(Referrers(b)) /\ Cardinality(Referrers(b)) = 0
      BY <1>16, ReferrersFinite DEF CacheInv, RefInv, Recyclable
    <3> QED
      BY <3>1, FS_EmptySet
  <2>3. \A q \in Slot : ~Waits(q, b) /\ ~Has(q, b)
    BY <2>2 DEF Referrers, Waits, Has, InDisk
  <2>4. BufInv(b)'
    BY <1>7, <1>8, <1>10, <1>14, <2>1, <2>3 DEF BufInv
  <2>5. UniqueInv'
    BY <1>9, <1>16, <2>1 DEF CacheInv, UniqueInv
  <2> QED
    BY <1>7, <1>11, <1>12, <1>13, <2>4, <2>5 DEF CacheInv
<1> QED
  BY <1>3, <1>15, <1>16

\* The disk has served the head of its queue.
LEMMA IdeintrKeeps ==
  ASSUME Types, CacheInv, ideintr
  PROVE  CacheInv'
<1>1. TableType /\ DiskType /\ DiskNamed
  BY DEF Types, TableInv
<1>2. UNCHANGED <<chan, pc, loc>> /\ idequeue # <<>> /\ idequeue' = Tail(idequeue)
  BY <1>1, IdeintrIs
<1>3. PICK b \in Buffer :
         /\ b = Head(idequeue) /\ buf[b].blockno \in Block /\ wakeup(<<"buf", b>>)
         /\ \E v \in Value : BufSet(b, Served(b, v))
  BY <1>1, IdeintrIs
<1>4. /\ buf'[b].blockno = buf[b].blockno /\ buf'[b].valid = TRUE
      /\ buf'[b].dirty = FALSE /\ buf'[b].owner = buf[b].owner /\ buf'[b].refcnt = buf[b].refcnt
      /\ \A d \in Buffer \ {b} : buf'[d] = buf[d]
  BY <1>3 DEF BufSet, Served
<1>5. Distinct' /\ \A d : Queued(d)' <=> Queued(d) /\ d # b
  BY <1>1, <1>2, <1>3, QueueTail DEF CacheInv
<1>6. Queued(b)
  <2>1. 1 \in 1..Len(idequeue) /\ idequeue[1] = b
    BY <1>1, <1>2, <1>3 DEF DiskType
  <2> QED
    BY <2>1 DEF Queued
<1>7. \A d : Referrers(d)' = Referrers(d)
  BY <1>2 DEF Referrers
<1>8. \A q \in Slot : \A d \in Buffer : (Waits(q, d)' <=> Waits(q, d)) /\ (Has(q, d)' <=> Has(q, d))
  BY <1>2 DEF Waits, Has
<1>9. UniqueInv' /\ RefInv'
  <2>1. \A d \in Buffer : buf'[d].blockno = buf[d].blockno /\ buf'[d].refcnt = buf[d].refcnt
    BY <1>4
  <2> QED
    BY <1>7, <2>1, SameBlocks DEF CacheInv
<1>10. \A d \in Buffer \ {b} : BufInv(d)'
  <2> SUFFICES ASSUME NEW d \in Buffer \ {b} PROVE BufInv(d)'
    OBVIOUS
  <2>1. BufInv(d)
    BY DEF CacheInv
  <2> QED
    BY <2>1, <1>4, <1>5, <1>8, Elsewhere
<1>11. BufInv(b)'
  <2>1. BufInv(b)
    BY DEF CacheInv
  <2> QED
    BY <1>3, <1>4, <1>5, <1>8, <2>1 DEF BufInv
<1>12. DiskSleepInv'
  <2>1. \A d \in Buffer : /\ Queued(d) => Queued(d)' \/ d = b
                          /\ buf[d].owner # 0 => buf'[d].owner # 0
    BY <1>4, <1>5
  <2> QED
    BY <1>1, <1>2, <1>3, <2>1, WakesForDisk DEF CacheInv
<1> QED
  BY <1>5, <1>9, <1>10, <1>11, <1>12 DEF CacheInv

\* Steps of other components keep the cache's invariant.
LEMMA CacheAside ==
  ASSUME Types, CacheInv, DiskAside
  PROVE  CacheInv'
<1>1. UNCHANGED <<buf, idequeue>>
  BY DEF DiskAside, diskVars
<1>2. \A q \in Slot : /\ pc'[q] \in InDisk <=> pc[q] \in InDisk
                      /\ pc[q] \in InDisk => pc'[q] = pc[q] /\ loc'[q] = loc[q]
  BY DEF DiskAside, Moves, InDisk
<1>3. \A d : Referrers(d)' = Referrers(d)
  BY <1>2 DEF Referrers
<1>4. \A q \in Slot : \A d \in Buffer : (Waits(q, d)' <=> Waits(q, d)) /\ (Has(q, d)' <=> Has(q, d))
  BY <1>2 DEF Waits, Has, InDisk
<1>5. Distinct' /\ \A d : Queued(d)' <=> Queued(d)
  BY <1>1 DEF Queued, Distinct, CacheInv
<1>6. UniqueInv' /\ RefInv'
  BY <1>1, <1>3, SameBlocks DEF CacheInv
<1>7. \A d \in Buffer : BufInv(d)'
  BY <1>1, <1>4, <1>5, Elsewhere DEF CacheInv
<1>8. \A q \in Slot : /\ Asleep(q, "buf")' => Asleep(q, "buf") /\ chan'[q] = chan[q]
                      /\ Asleep(q, "lock")' => Asleep(q, "lock") /\ chan'[q] = chan[q]
  BY DEF DiskAside, Sleeps, Asleep
<1>9. DiskSleepInv'
  BY <1>1, <1>5, <1>8 DEF CacheInv, DiskSleepInv
<1> QED
  BY <1>5, <1>6, <1>7, <1>9 DEF CacheInv

\* Every step of the kernel keeps the cache's invariant.
LEMMA CacheKeeps ==
  ASSUME Types, CacheInv, [Next]_vars
  PROVE  CacheInv'
<1>1. ASSUME NEW p \in Slot, DiskStep(p) PROVE CacheInv'
  <2>1. CASE \E n \in Block : bget(p, n) \/ bget_none(p, n)
    <3>1. PICK n \in Block : bget(p, n) \/ bget_none(p, n)
      BY <2>1
    <3>2. CASE bget_none(p, n)
      <4>1. UNCHANGED <<state, chan, pc, loc, buf, idequeue>>
        BY <3>2 DEF bget_none, ptable, diskVars
      <4>2. UniqueInv' /\ RefInv' /\ Distinct' /\ DiskSleepInv'
        BY <4>1 DEF CacheInv, UniqueInv, RefInv, Distinct, DiskSleepInv, Referrers, Asleep, Queued
      <4>3. \A b \in Buffer : BufInv(b)'
        BY <4>1 DEF CacheInv, BufInv, Waits, Has, Queued
      <4> QED
        BY <4>2, <4>3 DEF CacheInv
    <3> QED
      BY <3>1, <3>2, BgetKeeps
  <2>2. CASE \E v \in Value \ {AnyValue} : log_write(p, v)
    BY <2>2, LogWriteKeeps
  <2> QED
    BY <1>1, <2>1, <2>2, AcquireKeeps, BreadKeeps, IderwWaitKeeps, BwriteKeeps, ReleaseKeeps,
       BrelseKeeps DEF DiskStep
<1> QED
  BY <1>1, Frames, CacheAside, IdeintrKeeps

\* A block has at most one buffer, refcnt counts its users, its lock belongs to the one that uses it or
\* waits for the disk, each request is queued once, and nobody sleeps for a request that is done
\* or a lock that is free.
THEOREM CacheInvariant == Spec => []CacheInv
<1>1. ASSUME Init PROVE CacheInv
  <2>1. /\ \A p \in Slot : state[p] = "SLEEPING" => chan[p] = <<"wait", initproc>>
        /\ \A p \in Slot : pc[p] \notin InDisk
    BY <1>1 DEF Init, ProcInit, Forked, InDisk
  <2>2. idequeue = <<>> /\ \A b \in Buffer : /\ buf[b].blockno = 0 /\ buf[b].refcnt = 0
                                             /\ buf[b].valid = FALSE /\ buf[b].dirty = FALSE
                                             /\ buf[b].owner = 0
    BY <1>1 DEF Init, DiskInit
  <2>3. \A b \in Buffer : Referrers(b) = {} /\ Cardinality(Referrers(b)) = 0
    BY <2>1, FS_EmptySet DEF Referrers
  <2>4. Distinct /\ \A b : ~Queued(b)
    BY <2>2 DEF Distinct, Queued
  <2>5. UniqueInv /\ RefInv
    BY <2>2, <2>3 DEF UniqueInv, RefInv
  <2>6. \A p \in Slot : \A b \in Buffer : ~Waits(p, b) /\ ~Has(p, b)
    BY <2>1 DEF Waits, Has, InDisk
  <2>7. \A b \in Buffer : BufInv(b)
    BY <2>2, <2>4, <2>6, SlotFacts DEF BufInv
  <2>8. DiskSleepInv
    BY <2>1 DEF DiskSleepInv, Asleep
  <2> QED
    BY <2>4, <2>5, <2>7, <2>8 DEF CacheInv
<1>2. Types /\ CacheInv /\ [Next]_vars => CacheInv'
  BY CacheKeeps
<1> QED
  BY <1>1, <1>2, TypesInvariant, PTL DEF Spec

-----------------------------------------------------------------------------
(* What the buffers and the disk hold                                      *)

\* Steps that move no data.
LEMMA DataSame ==
  ASSUME DataInv, UNCHANGED <<disk, stored>>,
         \A d \in Buffer : /\ buf'[d].blockno = buf[d].blockno /\ buf'[d].valid = buf[d].valid
                           /\ buf'[d].dirty = buf[d].dirty /\ buf'[d].data = buf[d].data
  PROVE  DataInv'
<1>1. \A b \in Buffer : buf'[b].valid => buf'[b].data = stored'[buf'[b].blockno]
  BY DEF DataInv
<1>2. \A n \in Block : (\A b \in Buffer : buf'[b].blockno = n => ~buf'[b].dirty) => disk'[n] = stored'[n]
  BY DEF DataInv
<1> QED
  BY <1>1, <1>2 DEF DataInv

\* The one buffer of a block.
LEMMA OneBuffer ==
  ASSUME CacheInv, DiskType, NEW b \in Buffer, buf[b].blockno \in Block
  PROVE  \A d \in Buffer \ {b} : buf[d].blockno # buf[b].blockno
  BY DiskAssumption DEF CacheInv, UniqueInv

\* bget() recycles a buffer whose contents are on the disk.
LEMMA DataRecycled ==
  ASSUME Types, CacheInv, DataInv, NEW n \in Block, NEW b \in Buffer, Recyclable(b),
         BufSet(b, Recycled(b, n)), UNCHANGED <<disk, stored>>
  PROVE  DataInv'
<1>1. ~buf[b].dirty /\ ~buf'[b].valid /\ \A d \in Buffer \ {b} : buf'[d] = buf[d]
  BY DEF BufSet, Recycled, Recyclable
<1>2. \A d \in Buffer : buf'[d].valid => buf'[d].data = stored'[buf'[d].blockno]
  BY <1>1 DEF DataInv
<1>3. ASSUME NEW m \in Block, \A d \in Buffer : buf'[d].blockno = m => ~buf'[d].dirty
      PROVE  disk'[m] = stored'[m]
  <2>1. \A d \in Buffer : buf[d].blockno = m => ~buf[d].dirty
    BY <1>1, <1>3
  <2> QED
    BY <2>1 DEF DataInv
<1> QED
  BY <1>2, <1>3 DEF DataInv

\* The holder stores a new value in its buffer, which is the block's only one.
LEMMA DataWritten ==
  ASSUME Types, CacheInv, DataInv, NEW p \in Slot, NEW v \in Value, log_write(p, v)
  PROVE  DataInv'
<1>1. pc[p] = "held" /\ pc[p] \in InDisk
  BY DEF log_write, InDisk
<1>2. /\ loc[p].i \in Buffer /\ TableType /\ DiskType /\ 0 \in 0..NPROC /\ buf[loc[p].i].blockno \in Block
  BY <1>1, HolderFacts
<1>3. PICK b \in Buffer : loc[p].i = b
  BY <1>2
<1>4. PICK n \in Block : buf[b].blockno = n
  BY <1>2, <1>3
<1>5. /\ buf' = [buf EXCEPT ![b] = [@ EXCEPT !.data = v, !.dirty = TRUE]]
      /\ stored' = [stored EXCEPT ![n] = v] /\ disk' = disk
  BY <1>3, <1>4 DEF log_write
<1>6. BufSet(b, Kept(b, v))
  BY <1>2, <1>5, BufSteps
<1>7. /\ buf'[b].blockno = n /\ buf'[b].data = v /\ buf'[b].dirty
      /\ \A d \in Buffer \ {b} : buf'[d] = buf[d]
  BY <1>4, <1>6 DEF BufSet, Kept
<1>8. stored'[n] = v /\ \A m \in Block \ {n} : stored'[m] = stored[m]
  BY <1>2, <1>5 DEF DiskType
<1>9. \A d \in Buffer \ {b} : buf[d].blockno # n
  BY <1>2, <1>4, OneBuffer
<1>10. \A d \in Buffer \ {b} : buf[d].valid => buf[d].blockno \in Block
  BY DEF CacheInv, BufInv
<1>11. \A d \in Buffer : buf'[d].valid => buf'[d].data = stored'[buf'[d].blockno]
  <2>1. \A d \in Buffer \ {b} : buf[d].valid => buf[d].data = stored'[buf[d].blockno]
    BY <1>8, <1>9, <1>10 DEF DataInv
  <2> QED
    BY <1>7, <1>8, <2>1
<1>12. ASSUME NEW m \in Block, \A d \in Buffer : buf'[d].blockno = m => ~buf'[d].dirty
       PROVE  disk'[m] = stored'[m]
  <2>1. m # n
    BY <1>7, <1>12
  <2>2. \A d \in Buffer : buf[d].blockno = m => ~buf[d].dirty
    BY <1>4, <1>7, <1>12, <2>1
  <2> QED
    BY <1>5, <1>8, <2>1, <2>2 DEF DataInv
<1> QED
  BY <1>11, <1>12 DEF DataInv

\* bwrite() changes no data before the disk has answered.
LEMMA DataDirtied ==
  ASSUME Types, CacheInv, DataInv, NEW p \in Slot, bwrite(p)
  PROVE  DataInv'
<1>1. pc[p] = "held" /\ pc[p] \in InDisk /\ UNCHANGED <<disk, stored>>
  BY DEF bwrite, InDisk
<1>2. /\ loc[p].i \in Buffer /\ DiskType /\ 0 \in 0..NPROC /\ \E v \in Value : TRUE
  BY <1>1, HolderFacts
<1>3. PICK b \in Buffer : loc[p].i = b
  BY <1>2
<1>4. BufSet(b, Dirtied(b))
  BY <1>2, <1>3, BufSteps DEF bwrite
<1>5. /\ buf'[b].blockno = buf[b].blockno /\ buf'[b].data = buf[b].data /\ buf'[b].dirty
      /\ buf'[b].valid = buf[b].valid
      /\ \A d \in Buffer \ {b} : buf'[d] = buf[d]
  BY <1>4 DEF BufSet, Dirtied
<1>6. \A d \in Buffer : buf'[d].valid => buf'[d].data = stored'[buf'[d].blockno]
  BY <1>1, <1>5 DEF DataInv
<1>7. ASSUME NEW m \in Block, \A d \in Buffer : buf'[d].blockno = m => ~buf'[d].dirty
      PROVE  disk'[m] = stored'[m]
  <2>1. \A d \in Buffer : buf[d].blockno = m => ~buf[d].dirty
    BY <1>5, <1>7
  <2> QED
    BY <1>1, <2>1 DEF DataInv
<1> QED
  BY <1>6, <1>7 DEF DataInv

\* Without read errors the buffer that was served agrees with the disk.
LEMMA DataServed ==
  ASSUME ~ReadErrors, Types, CacheInv, DataInv, ideintr
  PROVE  DataInv'
<1>1. TableType /\ DiskType /\ DiskNamed
  BY DEF Types, TableInv
<1>2. stored' = stored
  BY <1>1, IdeintrIs
<1>3. PICK b \in Buffer :
         /\ buf[b].blockno \in Block
         /\ \E v \in Value : /\ BufSet(b, Served(b, v))
                             /\ buf[b].dirty => v = buf[b].data
                             /\ ~buf[b].dirty => v = disk[buf[b].blockno]
         /\ disk' = IF buf[b].dirty THEN [disk EXCEPT ![buf[b].blockno] = buf[b].data] ELSE disk
  BY <1>1, IdeintrIs
<1>4. PICK v \in Value : /\ BufSet(b, Served(b, v))
                         /\ buf[b].dirty => v = buf[b].data
                         /\ ~buf[b].dirty => v = disk[buf[b].blockno]
  BY <1>3
<1>5. PICK n \in Block : buf[b].blockno = n
  BY <1>3
<1>6. /\ buf'[b].blockno = n /\ buf'[b].data = v /\ ~buf'[b].dirty
      /\ \A d \in Buffer \ {b} : buf'[d] = buf[d]
  BY <1>4, <1>5 DEF BufSet, Served
<1>7. \A d \in Buffer \ {b} : buf[d].blockno # n
  BY <1>1, <1>5, OneBuffer
<1>8. v = stored[n]
  <2>1. CASE buf[b].dirty
    <3>1. buf[b].valid
      BY <2>1 DEF CacheInv, BufInv
    <3> QED
      BY <1>4, <1>5, <2>1, <3>1 DEF DataInv
  <2>2. CASE ~buf[b].dirty
    <3>1. \A d \in Buffer : buf[d].blockno = n => ~buf[d].dirty
      BY <1>7, <2>2
    <3> QED
      BY <1>4, <1>5, <2>2, <3>1 DEF DataInv
  <2> QED
    BY <2>1, <2>2
<1>9. disk'[n] = v /\ \A m \in Block \ {n} : disk'[m] = disk[m]
  BY <1>1, <1>3, <1>4, <1>5 DEF DiskType
<1>10. \A d \in Buffer : buf'[d].valid => buf'[d].data = stored'[buf'[d].blockno]
  BY <1>2, <1>6, <1>8 DEF DataInv
<1>11. ASSUME NEW m \in Block, \A d \in Buffer : buf'[d].blockno = m => ~buf'[d].dirty
       PROVE  disk'[m] = stored'[m]
  <2>1. CASE m = n
    BY <1>2, <1>8, <1>9, <2>1
  <2>2. CASE m # n
    <3>1. \A d \in Buffer : buf[d].blockno = m => ~buf[d].dirty
      BY <1>5, <1>6, <1>11, <2>2
    <3> QED
      BY <1>2, <1>9, <2>2, <3>1 DEF DataInv
  <2> QED
    BY <2>1, <2>2
<1> QED
  BY <1>10, <1>11 DEF DataInv

\* Every step of the kernel keeps the data, as long as no read fails.
LEMMA DataKeeps ==
  ASSUME ~ReadErrors, Types, CacheInv, DataInv, [Next]_vars
  PROVE  DataInv'
<1>0. TableType /\ DiskType /\ \E v \in Value : TRUE
  BY DiskAssumption DEF Types, TableInv
<1>1. ASSUME UNCHANGED diskVars PROVE DataInv'
  BY <1>1, DataSame DEF diskVars
<1>2. ASSUME NEW p \in Slot, DiskStep(p) PROVE DataInv'
  <2>1. CASE \E n \in Block : bget(p, n) \/ bget_none(p, n)
    <3>1. PICK n \in Block : bget(p, n) \/ bget_none(p, n)
      BY <2>1
    <3>2. CASE bget_none(p, n)
      BY <1>1, <3>2 DEF bget_none
    <3>3. CASE bget(p, n)
      <4>1. UNCHANGED <<disk, stored>>
        BY <1>0, <3>3, BgetIs
      <4>2. PICK b \in Buffer : \/ BufSet(b, Taken(b))
                                \/ Recyclable(b) /\ BufSet(b, Recycled(b, n))
        BY <1>0, <3>3, BgetIs
      <4>3. CASE BufSet(b, Taken(b))
        <5>1. \A d \in Buffer : /\ buf'[d].blockno = buf[d].blockno /\ buf'[d].valid = buf[d].valid
                                /\ buf'[d].dirty = buf[d].dirty /\ buf'[d].data = buf[d].data
          BY <4>3 DEF BufSet, Taken
        <5> QED
          BY <4>1, <5>1, DataSame
      <4> QED
        BY <4>1, <4>2, <4>3, DataRecycled
    <3> QED
      BY <3>1, <3>2, <3>3
  <2>2. CASE \E v \in Value \ {AnyValue} : log_write(p, v)
    BY <2>2, DataWritten
  <2>3. CASE acquiresleep(p) \/ iderw_wait(p)
    BY <1>1, <2>3 DEF acquiresleep, iderw_wait
  <2>4. CASE bread(p) \/ releasesleep(p) \/ brelse(p)
    <3>1. UNCHANGED <<disk, stored>> /\ pc[p] \in InDisk
      BY <2>4 DEF bread, releasesleep, brelse, InDisk
    <3>2. loc[p].i \in Buffer /\ p \in 0..NPROC /\ 0 \in 0..NPROC
      BY <3>1, HolderFacts
    <3>3. PICK b \in Buffer : loc[p].i = b
      BY <3>2
    <3>4. \/ buf' = [buf EXCEPT ![b].owner = p] \/ buf' = [buf EXCEPT ![b].owner = 0]
          \/ buf' = [buf EXCEPT ![b].refcnt = @ - 1]
      BY <2>4, <3>3 DEF bread, releasesleep, brelse
    <3>5. BufSet(b, Seized(b, p)) \/ BufSet(b, Unlocked(b)) \/ BufSet(b, Dropped(b))
      BY <1>0, <3>2, <3>4, BufSteps
    <3>6. \A d \in Buffer : /\ buf'[d].blockno = buf[d].blockno /\ buf'[d].valid = buf[d].valid
                            /\ buf'[d].dirty = buf[d].dirty /\ buf'[d].data = buf[d].data
      BY <3>5 DEF BufSet, Seized, Unlocked, Dropped
    <3> QED
      BY <3>1, <3>6, DataSame
  <2> QED
    BY <1>2, <2>1, <2>2, <2>3, <2>4, DataDirtied DEF DiskStep
<1> QED
  BY <1>1, <1>2, Frames, DataServed DEF DiskAside

\* When no read of the disk fails, a valid buffer holds what was last stored in its block and a block
\* that is not cached dirty is on the disk: bread() never returns stale data, whichever process
\* recycled the buffer in between.  (With read errors ideintr() marks a buffer valid that was
\* not read, and the statement is false.)
THEOREM CacheAgreesInvariant ==
  ASSUME ~ReadErrors
  PROVE  Spec => []CacheAgrees
<1>1. ASSUME Init PROVE DataInv
  <2>1. disk = stored /\ \A b \in Buffer : ~buf[b].valid
    BY <1>1 DEF Init, DiskInit
  <2> QED
    BY <2>1 DEF DataInv
<1>2. Types /\ CacheInv /\ DataInv /\ [Next]_vars => DataInv'
  BY DataKeeps
<1>3. Types /\ CacheInv /\ DataInv => CacheAgrees
  <2> SUFFICES ASSUME Types, CacheInv, DataInv PROVE CacheAgrees
    OBVIOUS
  <2>1. \A b, c \in Buffer : b # c /\ buf[b].blockno # 0 => buf[b].blockno # buf[c].blockno
    BY DEF CacheInv, UniqueInv
  <2>2. ASSUME NEW p \in Slot, pc[p] \in {"iderw", "held"}
        PROVE  /\ buf[loc[p].i].owner = p
               /\ pc[p] = "held" => buf[loc[p].i].data = stored[buf[loc[p].i].blockno]
    <3>1. loc[p].i \in Buffer
      BY <2>2, HolderFacts DEF InDisk
    <3>2. Waits(p, loc[p].i) \/ Has(p, loc[p].i)
      BY <2>2 DEF Waits, Has
    <3>3. pc[p] = "held" => Has(p, loc[p].i)
      BY DEF Has
    <3>4. BufInv(loc[p].i)
      BY <3>1 DEF CacheInv
    <3> QED
      BY <3>1, <3>2, <3>3, <3>4 DEF BufInv, DataInv
  <2> QED
    BY <2>1, <2>2 DEF CacheAgrees
<1> QED
  BY <1>1, <1>2, <1>3, TypesInvariant, CacheInvariant, PTL DEF Spec


-----------------------------------------------------------------------------
(* The pipe: sleeping and waking                                           *)

\* Between the test and the sleep, and asleep, a reader has nothing to read, or what a killed
\* writer left, and a writer has no room; the other end is open.
PipeInv ==
    /\ pipe.used <=> pipe.readopen \/ pipe.writeopen
    /\ \A p \in Slot :
          /\ pc[p] = "piperead_sleep" => Count = 0 /\ pipe.writeopen
          /\ pc[p] = "pipewrite_sleep" => Count = PIPESIZE /\ pipe.readopen
          /\ Asleep(p, "nread") => /\ chan[p] = <<"nread", 0>>
                                   /\ Count = 0 \/ cut
                                   /\ pipe.writeopen
          /\ Asleep(p, "nwrite") => /\ chan[p] = <<"nwrite", 0>>
                                    /\ Count = PIPESIZE
                                    /\ pipe.readopen

\* What the records of a step say.
LEMMA WroteIs ==
  ASSUME PipeType, NEW p \in Slot
  PROVE  /\ Wrote(p).used = pipe.used /\ Wrote(p).readopen = pipe.readopen
         /\ Wrote(p).writeopen = pipe.writeopen /\ Wrote(p).nread = pipe.nread
         /\ Wrote(p).nwrite = (pipe.nwrite + Written(p)) % UINT
         /\ Wrote(p).data = Filled(pipe.data, sent, Written(p))
<1>1. pipe \in PipeRec
  BY DEF PipeType
<1> DEFINE d == Filled(pipe.data, sent, Written(p))
           w == (pipe.nwrite + Written(p)) % UINT
<1>2. Wrote(p) = [pipe EXCEPT !.data = d, !.nwrite = w]
  BY DEF Wrote
<1> HIDE DEF d, w
<1>3. /\ Wrote(p).used = pipe.used /\ Wrote(p).readopen = pipe.readopen
      /\ Wrote(p).writeopen = pipe.writeopen /\ Wrote(p).nread = pipe.nread
      /\ Wrote(p).nwrite = w /\ Wrote(p).data = d
  BY <1>1, <1>2 DEF PipeRec
<1> QED
  BY <1>3 DEF d, w

\* piperead() moves one index and nothing else.
LEMMA TookIs ==
  ASSUME PipeType, NEW k, pipe' = [pipe EXCEPT !.nread = (@ + k) % UINT]
  PROVE  /\ pipe'.used = pipe.used /\ pipe'.readopen = pipe.readopen
         /\ pipe'.writeopen = pipe.writeopen /\ pipe'.nwrite = pipe.nwrite
         /\ pipe'.nread = (pipe.nread + k) % UINT /\ pipe'.data = pipe.data
<1>1. pipe \in PipeRec
  BY DEF PipeType
<1> DEFINE r == (pipe.nread + k) % UINT
<1>2. pipe' = [pipe EXCEPT !.nread = r]
  OBVIOUS
<1> HIDE DEF r
<1>3. /\ pipe'.used = pipe.used /\ pipe'.readopen = pipe.readopen
      /\ pipe'.writeopen = pipe.writeopen /\ pipe'.nwrite = pipe.nwrite
      /\ pipe'.nread = r /\ pipe'.data = pipe.data
  BY <1>1, <1>2 DEF PipeRec
<1> QED
  BY <1>3 DEF r

\* pipewrite takes what fits, and wakes the readers unless it quits.
LEMMA WriteKeeps ==
  ASSUME Types, PipeInv, NEW p \in Slot, pipewrite(p)
  PROVE  PipeInv'
<1>0. TableType /\ PipeType
  BY DEF Types, TableInv
<1>1. /\ PipeFree /\ UNCHANGED chan /\ pc[p] = "pipewrite"
      /\ Left(p) \in Int /\ Room \in Int
      /\ pipe' = Wrote(p)
      /\ cut' = (Quits(p) /\ (cut \/ Written(p) > 0))
      /\ IF Quits(p) THEN UNCHANGED state ELSE wakeup(<<"nread", 0>>)
      /\ IF Left(p) <= Room \/ Quits(p) THEN Return(p)
         ELSE /\ loc' = [loc EXCEPT ![p].i = @ + Written(p)]
              /\ Goto(p, "pipewrite_sleep")
  BY <1>0, WriteIs
<1>2. /\ Written(p) \in Nat /\ Written(p) <= Left(p)
      /\ Count' = Count + Written(p) /\ Count' <= PIPESIZE
  BY <1>0, WriteCount
<1>3. /\ pipe'.used = pipe.used /\ pipe'.readopen = pipe.readopen
      /\ pipe'.writeopen = pipe.writeopen
  BY <1>0, <1>1, WroteIs
<1>4. Count \in Nat /\ Room = PIPESIZE - Count /\ PIPESIZE \in Nat \ {0} /\ Count <= PIPESIZE
  BY <1>0, CountIs, PipeAssumption DEF Room, PipeType
<1>5. \A q \in Slot : pc[q] \notin {"piperead_sleep", "pipewrite_sleep"}
  BY <1>1 DEF PipeFree
<1>6. ASSUME NEW q \in Slot
      PROVE  /\ pc'[q] # "piperead_sleep"
             /\ pc'[q] = "pipewrite_sleep" => Count' = PIPESIZE /\ pipe'.readopen
  <2>1. CASE Left(p) <= Room \/ Quits(p)
    <3>1. pc'[p] = "user" /\ \A r \in Slot \ {p} : pc'[r] = pc[r]
      BY <1>0, <1>1, <2>1 DEF Return, Goto, TableType
    <3> QED
      BY <3>1, <1>5
  <2>2. CASE ~ (Left(p) <= Room \/ Quits(p))
    <3>1. pc'[p] = "pipewrite_sleep" /\ \A r \in Slot \ {p} : pc'[r] = pc[r]
      BY <1>0, <1>1, <2>2 DEF Goto, TableType
    <3>2. Written(p) = Room /\ pipe.readopen
      BY <1>1, <2>2 DEF Written, Quits
    <3>3. Count' = PIPESIZE
      BY <1>2, <1>4, <3>2
    <3> QED
      BY <3>1, <3>2, <3>3, <1>3, <1>5
  <2> QED
    BY <2>1, <2>2
<1>7. ASSUME NEW q \in Slot, Asleep(q, "nwrite")'
      PROVE  chan'[q] = <<"nwrite", 0>> /\ Count' = PIPESIZE /\ pipe'.readopen
  <2>1. Asleep(q, "nwrite")
    BY <1>0, <1>1, <1>7 DEF Asleep, wakeup, wakeup1, TableType
  <2>2. chan[q] = <<"nwrite", 0>> /\ Count = PIPESIZE /\ pipe.readopen
    BY <2>1 DEF PipeInv
  <2>3. Count' = PIPESIZE
    BY <1>2, <1>4, <2>2
  <2> QED
    BY <1>1, <1>3, <2>2, <2>3
<1>8. ASSUME NEW q \in Slot, Asleep(q, "nread")'
      PROVE  chan'[q] = <<"nread", 0>> /\ (Count' = 0 \/ cut') /\ pipe'.writeopen
  <2>1. Asleep(q, "nread")
    BY <1>0, <1>1, <1>8 DEF Asleep, wakeup, wakeup1, TableType
  <2>2. chan[q] = <<"nread", 0>> /\ (Count = 0 \/ cut) /\ pipe.writeopen
    BY <2>1 DEF PipeInv
  <2>3. Quits(p)
    BY <1>0, <1>1, <1>8, <2>2 DEF Asleep, wakeup, wakeup1, TableType
  <2>4. Count' = 0 \/ cut'
    <3>1. Written(p) > 0 \/ Count' = Count
      BY <1>2, <1>4
    <3>2. (cut \/ Written(p) > 0) => cut'
      BY <1>1, <2>3, Zenon
    <3> QED
      BY <2>2, <3>1, <3>2
  <2> QED
    BY <1>1, <1>3, <2>2, <2>4
<1>9. pipe'.used <=> pipe'.readopen \/ pipe'.writeopen
  BY <1>3 DEF PipeInv
<1> QED
  BY <1>6, <1>7, <1>8, <1>9 DEF PipeInv

\* piperead wakes the writers when it has taken something or the writers are gone.
LEMMA ReadPipeKeeps ==
  ASSUME Types, PipeInv, NEW p \in Slot, piperead(p)
  PROVE  PipeInv'
<1>0. TableType /\ PipeType
  BY DEF Types, TableInv
<1>1. pc[p] = "piperead" /\ PipeFree /\ UNCHANGED chan
  BY <1>0, ReadPipeIs
<1>2. \A q \in Slot : pc[q] \notin {"piperead_sleep", "pipewrite_sleep"}
  BY <1>1 DEF PipeFree
<1>3. CASE /\ Count = 0 /\ pipe.writeopen
           /\ IF killed[p] THEN Return(p) ELSE Goto(p, "piperead_sleep") /\ UNCHANGED loc
           /\ UNCHANGED <<state, pipeVars>>
  <2>1. UNCHANGED <<state, chan, pipe, cut, Count>>
    BY <1>1, <1>3 DEF pipeVars, Count
  <2>2. /\ pc'[p] \in {"user", "piperead_sleep"}
        /\ \A q \in Slot \ {p} : pc'[q] = pc[q]
    BY <1>0, <1>3 DEF Return, Goto, TableType
  <2>3. \A q \in Slot : /\ pc'[q] = "piperead_sleep" => Count' = 0 /\ pipe'.writeopen
                        /\ pc'[q] # "pipewrite_sleep"
    BY <1>2, <1>3, <2>1, <2>2
  <2> QED
    BY <2>1, <2>3 DEF PipeInv, Asleep
<1>4. ASSUME NEW k \in Nat, k = (IF loc[p].n <= Count THEN loc[p].n ELSE Count), k <= Count,
             pipe' = [pipe EXCEPT !.nread = (@ + k) % UINT], Count' = Count - k,
             cut' = (cut /\ Count > loc[p].n), wakeup(<<"nwrite", 0>>), Return(p)
      PROVE  PipeInv'
  <2>1. /\ pipe'.used = pipe.used /\ pipe'.readopen = pipe.readopen
        /\ pipe'.writeopen = pipe.writeopen
    BY <1>0, <1>4, TookIs
  <2>2. \A q \in Slot : pc'[q] \notin {"piperead_sleep", "pipewrite_sleep"}
    BY <1>0, <1>2, <1>4 DEF Return, Goto, TableType
  <2>3. \A q \in Slot : state'[q] = "SLEEPING" => state[q] = "SLEEPING" /\ chan[q] # <<"nwrite", 0>>
    BY <1>0, <1>4 DEF wakeup, wakeup1, TableType
  <2>4. \A q \in Slot : ~Asleep(q, "nwrite")'
    BY <1>1, <2>3 DEF PipeInv, Asleep
  <2>5. Count \in Nat /\ loc[p].n \in Nat
    BY <1>0, CountIs DEF TableType, Locals
  <2>6. ASSUME NEW q \in Slot, Asleep(q, "nread")'
        PROVE  chan'[q] = <<"nread", 0>> /\ (Count' = 0 \/ cut') /\ pipe'.writeopen
    <3>1. Asleep(q, "nread")
      BY <1>1, <2>3, <2>6 DEF Asleep
    <3>2. chan[q] = <<"nread", 0>> /\ (Count = 0 \/ cut) /\ pipe.writeopen
      BY <3>1 DEF PipeInv
    <3>3. Count' = 0 \/ cut'
      <4>1. Count' = 0 \/ (Count > loc[p].n /\ Count # 0)
        BY <1>4, <2>5
      <4>2. cut /\ Count > loc[p].n => cut'
        BY <1>4, Zenon
      <4> QED
        BY <3>2, <4>1, <4>2
    <3> QED
      BY <1>1, <2>1, <3>2, <3>3
  <2>7. pipe'.used <=> pipe'.readopen \/ pipe'.writeopen
    BY <2>1 DEF PipeInv
  <2> QED
    BY <2>2, <2>4, <2>6, <2>7 DEF PipeInv
<1> QED
  BY <1>0, <1>3, <1>4, ReadPipeIs

\* pipeclose wakes the other end.
LEMMA ClosePipeKeeps ==
  ASSUME Types, PipeInv, NEW p \in Slot, pipeclose(p)
  PROVE  PipeInv'
<1>0. TableType /\ PipeType
  BY DEF Types, TableInv
<1>1. /\ pc[p] = "pipeclose" /\ PipeFree /\ UNCHANGED chan /\ pipe' = Closed(p)
      /\ wakeup(IF loc[p].i = 1 THEN <<"nread", 0>> ELSE <<"nwrite", 0>>)
      /\ IF ~Closing(p).readopen /\ ~Closing(p).writeopen THEN cut' = FALSE
         ELSE cut' = (cut /\ loc[p].i # 1)
      /\ Goto(p, IF loc[p].n = 1 THEN "exit" ELSE "user")
  BY CloseIs
<1>2. \A q \in Slot : pc[q] \notin {"piperead_sleep", "pipewrite_sleep"}
  BY <1>1 DEF PipeFree
<1>3. \A q \in Slot : pc'[q] \notin {"piperead_sleep", "pipewrite_sleep"}
  BY <1>0, <1>1, <1>2 DEF Goto, TableType
<1>4. /\ ~NoPipe.used /\ ~NoPipe.readopen /\ ~NoPipe.writeopen
      /\ Closing(p).nread = pipe.nread /\ Closing(p).nwrite = pipe.nwrite
      /\ Closing(p).used = pipe.used
      /\ Closing(p).readopen = (pipe.readopen /\ loc[p].i = 1)
      /\ Closing(p).writeopen = (pipe.writeopen /\ loc[p].i # 1)
  BY <1>0, PipeRecs
<1>5. \A q \in Slot : state'[q] = "SLEEPING" =>
         state[q] = "SLEEPING" /\ chan[q] # (IF loc[p].i = 1 THEN <<"nread", 0>> ELSE <<"nwrite", 0>>)
  BY <1>0, <1>1 DEF wakeup, wakeup1, TableType
<1>6. CASE ~Closing(p).readopen /\ ~Closing(p).writeopen
  <2>1. pipe' = NoPipe
    BY <1>1, <1>6 DEF Closed
  <2>2. \A q \in Slot : ~Asleep(q, "nread")' /\ ~Asleep(q, "nwrite")'
    BY <1>1, <1>4, <1>5, <1>6 DEF PipeInv, Asleep
  <2> QED
    BY <1>3, <1>4, <2>1, <2>2 DEF PipeInv
<1>7. CASE ~ (~Closing(p).readopen /\ ~Closing(p).writeopen)
  <2>1. pipe' = Closing(p)
    BY <1>1, <1>7 DEF Closed
  <2>2. Count' = Count
    BY <1>4, <2>1 DEF Count
  <2>3. CASE loc[p].i = 1
    <3>1. \A q \in Slot : ~Asleep(q, "nread")'
      BY <1>1, <1>5, <2>3 DEF PipeInv, Asleep
    <3>2. ASSUME NEW q \in Slot, Asleep(q, "nwrite")'
          PROVE  chan'[q] = <<"nwrite", 0>> /\ Count' = PIPESIZE /\ pipe'.readopen
      <4>1. Asleep(q, "nwrite")
        BY <1>1, <1>5, <3>2 DEF Asleep
      <4> QED
        BY <4>1, <1>1, <1>4, <2>1, <2>2, <2>3 DEF PipeInv
    <3>3. pipe'.used <=> pipe'.readopen \/ pipe'.writeopen
      BY <1>4, <1>7, <2>1, <2>3 DEF PipeInv
    <3> QED
      BY <1>3, <3>1, <3>2, <3>3 DEF PipeInv
  <2>4. CASE loc[p].i # 1
    <3>1. \A q \in Slot : ~Asleep(q, "nwrite")'
      BY <1>1, <1>5, <2>4 DEF PipeInv, Asleep
    <3>2. ASSUME NEW q \in Slot, Asleep(q, "nread")'
          PROVE  chan'[q] = <<"nread", 0>> /\ (Count' = 0 \/ cut') /\ pipe'.writeopen
      <4>1. Asleep(q, "nread")
        BY <1>1, <1>5, <3>2 DEF Asleep
      <4> QED
        BY <4>1, <1>1, <1>4, <1>7, <2>1, <2>2, <2>4 DEF PipeInv
    <3>3. pipe'.used <=> pipe'.readopen \/ pipe'.writeopen
      BY <1>4, <1>7, <2>1, <2>4 DEF PipeInv
    <3> QED
      BY <1>3, <3>1, <3>2, <3>3 DEF PipeInv
  <2> QED
    BY <2>3, <2>4
<1> QED
  BY <1>6, <1>7

\* Every step of the kernel keeps the pipe's invariant.
LEMMA PipeKeeps ==
  ASSUME Types, PipeInv, [Next]_vars
  PROVE  PipeInv'
<1>0. TableType /\ PipeType
  BY DEF Types, TableInv
<1>1. CASE PipeAside
  <2>1. UNCHANGED <<pipe, cut, Count>>
    BY <1>1 DEF PipeAside, pipeVars, Count
  <2>2. \A q \in Slot : /\ pc'[q] = "piperead_sleep" => pc[q] = "piperead_sleep"
                        /\ pc'[q] = "pipewrite_sleep" => pc[q] = "pipewrite_sleep"
    BY <1>1 DEF PipeAside, Moves, InPipe
  <2>3. \A q \in Slot : /\ Asleep(q, "nread")' => Asleep(q, "nread") /\ chan'[q] = chan[q]
                        /\ Asleep(q, "nwrite")' => Asleep(q, "nwrite") /\ chan'[q] = chan[q]
    BY <1>1 DEF PipeAside, Sleeps, Asleep
  <2> QED
    BY <2>1, <2>2, <2>3 DEF PipeInv
<1>2. ASSUME NEW p \in Slot, PipeStep(p) PROVE PipeInv'
  <2>1. CASE sys_pipe(p)
    <3>1. ~pipe.used /\ pipe' = NewPipe /\ UNCHANGED <<state, chan, pc>>
      BY <2>1 DEF sys_pipe, NewPipe, ptable
    <3>2. \A q \in Slot : /\ pc[q] \notin {"piperead_sleep", "pipewrite_sleep"}
                          /\ ~Asleep(q, "nread") /\ ~Asleep(q, "nwrite")
      BY <3>1 DEF PipeInv
    <3>3. pipe'.used /\ pipe'.readopen /\ pipe'.writeopen
      BY <1>0, <3>1, PipeRecs
    <3>4. \A q \in Slot : /\ pc'[q] \notin {"piperead_sleep", "pipewrite_sleep"}
                          /\ ~Asleep(q, "nread")' /\ ~Asleep(q, "nwrite")'
      BY <3>1, <3>2 DEF Asleep
    <3> QED
      BY <3>3, <3>4 DEF PipeInv
  <2>2. CASE pipewrite_sleep(p)
    <3>1. /\ pc[p] = "pipewrite_sleep" /\ sleep(p, <<"nwrite", 0>>) /\ Goto(p, "pipewrite")
          /\ UNCHANGED <<pipe, cut, Count>>
      BY <2>2 DEF pipewrite_sleep, pipeVars, Count
    <3>2. /\ \A q \in Slot \ {p} : state'[q] = state[q] /\ chan'[q] = chan[q] /\ pc'[q] = pc[q]
          /\ chan'[p] = <<"nwrite", 0>> /\ pc'[p] = "pipewrite"
      BY <1>0, <3>1 DEF sleep, Goto, TableType
    <3>3. chan'[p][1] = "nwrite"
      BY <3>2
    <3>4. Count = PIPESIZE /\ pipe.readopen
      BY <3>1 DEF PipeInv
    <3> QED
      BY <3>1, <3>2, <3>3, <3>4 DEF PipeInv, Asleep
  <2>3. CASE piperead_sleep(p)
    <3>1. /\ pc[p] = "piperead_sleep" /\ sleep(p, <<"nread", 0>>) /\ Goto(p, "piperead")
          /\ UNCHANGED <<pipe, cut, Count>>
      BY <2>3 DEF piperead_sleep, pipeVars, Count
    <3>2. /\ \A q \in Slot \ {p} : state'[q] = state[q] /\ chan'[q] = chan[q] /\ pc'[q] = pc[q]
          /\ chan'[p] = <<"nread", 0>> /\ pc'[p] = "piperead"
      BY <1>0, <3>1 DEF sleep, Goto, TableType
    <3>3. chan'[p][1] = "nread"
      BY <3>2
    <3>4. Count = 0 /\ pipe.writeopen
      BY <3>1 DEF PipeInv
    <3> QED
      BY <3>1, <3>2, <3>3, <3>4 DEF PipeInv, Asleep
  <2>4. ASSUME NEW l \in {"pipewrite", "piperead", "pipeclose"}, Goto(p, l) \/ UNCHANGED pc,
               UNCHANGED <<ptable, pipeVars>>
        PROVE  PipeInv'
    <3>1. UNCHANGED <<pipe, cut, Count, state, chan>>
      BY <2>4 DEF ptable, pipeVars, Count
    <3>2. \A q \in Slot : /\ pc'[q] = "piperead_sleep" => pc[q] = "piperead_sleep"
                          /\ pc'[q] = "pipewrite_sleep" => pc[q] = "pipewrite_sleep"
      BY <1>0, <2>4 DEF Goto, TableType
    <3> QED
      BY <3>1, <3>2 DEF PipeInv, Asleep
  <2>5. CASE \E n \in IOSizes : sys_write(p, n) \/ sys_read(p, n)
    BY <2>4, <2>5 DEF sys_write, sys_read
  <2>6. CASE \E e \in {"r", "w"} : fileclose(p, e)
    BY <2>4, <2>6 DEF fileclose
  <2> QED
    BY <1>2, <2>1, <2>2, <2>3, <2>5, <2>6, WriteKeeps, ReadPipeKeeps, ClosePipeKeeps DEF PipeStep
<1> QED
  BY <1>1, <1>2, Frames

\* No reader sleeps on a pipe with bytes (except those a killed writer left without a wakeup) or without a
\* writer, and no writer on one with room or without a reader; the pipe is freed with its
\* second end, not before.
THEOREM PipeInvariant == Spec => []PipeInv
<1>1. ASSUME Init PROVE PipeInv
  <2>1. /\ \A p \in Slot : state[p] = "SLEEPING" => chan[p] = <<"wait", initproc>>
        /\ \A p \in Slot : pc[p] \notin {"piperead_sleep", "pipewrite_sleep"}
    BY <1>1 DEF Init, ProcInit, Forked
  <2>2. pipe.used <=> pipe.readopen \/ pipe.writeopen
    <3>1. CASE load = "pipe"
      <4>1. pipe = [NoPipe EXCEPT !.used = TRUE, !.readopen = TRUE, !.writeopen = TRUE]
        BY <1>1, <3>1 DEF Init
      <4> QED
        BY <4>1 DEF NoPipe
    <3>2. CASE load # "pipe"
      <4>1. pipe = NoPipe
        BY <1>1, <3>2 DEF Init, PipeInit
      <4> QED
        BY <4>1 DEF NoPipe
    <3> QED
      BY <3>1, <3>2
  <2> QED
    BY <2>1, <2>2 DEF PipeInv, Asleep
<1>2. Types /\ PipeInv /\ [Next]_vars => PipeInv'
  BY PipeKeeps
<1> QED
  BY <1>1, <1>2, TypesInvariant, PTL DEF Spec

-----------------------------------------------------------------------------
(* The ends of the pipe                                                    *)

\* The argument of pipeclose(), who has an end or is closing it, and which ends are open.
Flag(e) == IF e = "w" THEN 1 ELSE 0
Closes(p, e) == pc[p] = "pipeclose" /\ loc[p].i = Flag(e)
HasEnd(p, e) == e \in ofile[p] \/ Closes(p, e)
EndOpen(e) == IF e = "w" THEN pipe.writeopen ELSE pipe.readopen
Ends == {"r", "w"}

\* Whoever has an end or is about to close it has an end that is open, nobody else has the
\* end that one is about to close, and a writer has the end it writes to.
EndsInv ==
    load = "pipe" =>
        /\ \A p \in Slot : \A e \in Ends : HasEnd(p, e) => EndOpen(e)
        /\ \A p \in Slot : pc[p] = "pipeclose" => loc[p].i \in {0, 1}
        /\ \A p \in Slot : \A e \in Ends :
              Closes(p, e) => e \notin ofile[p] /\ \A q \in Slot \ {p} : ~HasEnd(q, e)
        /\ \A p \in Slot : pc[p] \in {"pipewrite", "pipewrite_sleep"} => "w" \in ofile[p]

\* Under this load nothing but the pipe's own steps opens or closes anything.
LEMMA OfileKept ==
  ASSUME Types, [Next]_vars, load = "pipe"
  PROVE  load' = "pipe" /\ ((PipeAside /\ ofile' = ofile) \/ \E p \in Slot : PipeStep(p))
<1>1. load' = "pipe"
  BY DEF Next, vars
<1>2. ofile' = ofile \/ \E p \in Slot : PipeStep(p)
  <2>1. CASE UNCHANGED vars
    BY <2>1 DEF vars, procVars
  <2>2. ASSUME NEW p \in Slot, ProcStep(p) PROVE ofile' = ofile
    BY <2>2 DEF ProcStep, yield, scheduler, trap_killed, exit, exit_init, sys_exit, kill
  <2>3. ASSUME NEW p \in Slot, MemStep(p) PROVE ofile' = ofile
    BY <2>3 DEF MemStep, wait
  <2> QED
    BY <2>1, <2>2, <2>3 DEF Next, Interrupt, ConsoleStep, ClockStep, DiskStep
<1> QED
  BY <1>1, <1>2, Frames

\* A step of p that closes nothing and after which p has what it had.
LEMMA EndsSame ==
  ASSUME EndsInv, load = "pipe", load' = "pipe", NEW p \in Slot, ofile' = ofile,
         \A q \in Slot \ {p} : pc'[q] = pc[q] /\ loc'[q] = loc[q],
         pc[p] # "pipeclose", pc'[p] # "pipeclose",
         \A e \in Ends : EndOpen(e) => EndOpen(e)',
         pc'[p] \in {"pipewrite", "pipewrite_sleep"} => "w" \in ofile[p]
  PROVE  EndsInv'
<1>1. \A q \in Slot : \A e \in Ends : (Closes(q, e)' <=> Closes(q, e)) /\ (HasEnd(q, e)' <=> HasEnd(q, e))
  BY DEF Closes, HasEnd
<1>2. \A q \in Slot : pc'[q] = "pipeclose" => pc[q] = "pipeclose" /\ loc'[q] = loc[q]
  OBVIOUS
<1>3. \A q \in Slot : pc'[q] \in {"pipewrite", "pipewrite_sleep"} => "w" \in ofile'[q]
  BY DEF EndsInv
<1> QED
  BY <1>1, <1>2, <1>3 DEF EndsInv

\* Every step of the kernel keeps the ends.
LEMMA EndsKeeps ==
  ASSUME Types, PipeInv, EndsInv, [Next]_vars
  PROVE  EndsInv'
<1>0. TableType /\ PipeType
  BY DEF Types, TableInv
<1>1. load' = load
  BY DEF Next, vars
<1> SUFFICES ASSUME load = "pipe" PROVE EndsInv'
  BY <1>1 DEF EndsInv
<1>2. CASE PipeAside /\ ofile' = ofile
  <2>1. \A q \in Slot : /\ pc'[q] = "pipeclose" <=> pc[q] = "pipeclose"
                        /\ pc[q] = "pipeclose" => loc'[q] = loc[q]
                        /\ pc'[q] = "pipewrite" => pc[q] = "pipewrite"
                        /\ pc'[q] = "pipewrite_sleep" => pc[q] = "pipewrite_sleep"
    BY <1>2 DEF PipeAside, Moves, InPipe
  <2>2. \A q \in Slot : \A e \in Ends : (Closes(q, e)' <=> Closes(q, e)) /\ (HasEnd(q, e)' <=> HasEnd(q, e))
    BY <1>2, <2>1 DEF Closes, HasEnd
  <2>3. \A e \in Ends : EndOpen(e)' <=> EndOpen(e)
    BY <1>2 DEF EndOpen, PipeAside, pipeVars
  <2> QED
    BY <1>2, <2>1, <2>2, <2>3 DEF EndsInv
<1>3. ASSUME NEW p \in Slot, PipeStep(p) PROVE EndsInv'
  <2>1. CASE sys_pipe(p)
    <3>1. ~pipe.used /\ pipe' = NewPipe /\ ofile' = [ofile EXCEPT ![p] = {"r", "w"}] /\ UNCHANGED <<pc, loc>>
      BY <2>1 DEF sys_pipe, NewPipe
    <3>2. pipe'.readopen /\ pipe'.writeopen
      BY <1>0, <3>1, PipeRecs
    <3>3. \A e \in Ends : EndOpen(e)'
      BY <3>2 DEF EndOpen
    <3>4. \A q \in Slot : \A e \in Ends : ~HasEnd(q, e)
      BY <3>1 DEF EndsInv, PipeInv, EndOpen
    <3>5. \A q \in Slot : pc[q] # "pipeclose"
      BY <3>4 DEF EndsInv, HasEnd, Closes, Flag, Ends
    <3>6. \A q \in Slot : pc[q] \notin {"pipewrite", "pipewrite_sleep"}
      BY <3>4 DEF EndsInv, HasEnd, Ends
    <3> QED
      BY <3>1, <3>3, <3>5, <3>6 DEF EndsInv, Closes
  <2>2. CASE \E n \in IOSizes : sys_write(p, n) \/ sys_read(p, n)
    <3>1. /\ pc[p] = "user" /\ UNCHANGED <<ofile, pipe>>
          /\ \/ Goto(p, "pipewrite") /\ "w" \in ofile[p]
             \/ Goto(p, "piperead")
          /\ \E n : loc' = [loc EXCEPT ![p] = n]
      BY <2>2 DEF sys_write, sys_read, InUser, pipeVars
    <3>2. /\ \A q \in Slot \ {p} : pc'[q] = pc[q] /\ loc'[q] = loc[q]
          /\ pc'[p] = "piperead" \/ (pc'[p] = "pipewrite" /\ "w" \in ofile[p])
      BY <1>0, <3>1 DEF Goto, TableType
    <3>3. \A e \in Ends : EndOpen(e) => EndOpen(e)'
      BY <3>1 DEF EndOpen
    <3> QED
      BY <1>1, <3>1, <3>2, <3>3, EndsSame
  <2>3. CASE pipewrite(p)
    <3>1. /\ pc[p] = "pipewrite" /\ ofile' = ofile /\ pipe' = Wrote(p)
          /\ \/ Return(p)
             \/ /\ \E k : loc' = [loc EXCEPT ![p].i = k]
                /\ Goto(p, "pipewrite_sleep")
      BY <1>0, <2>3, WriteIs
    <3>2. /\ \A q \in Slot \ {p} : pc'[q] = pc[q] /\ loc'[q] = loc[q]
          /\ pc'[p] \in {"user", "pipewrite_sleep"}
      BY <1>0, <3>1 DEF Goto, Return, TableType
    <3>3. \A e \in Ends : EndOpen(e) => EndOpen(e)'
      BY <1>0, <3>1, WroteIs DEF EndOpen
    <3>4. "w" \in ofile[p]
      BY <3>1 DEF EndsInv
    <3> QED
      BY <1>1, <3>1, <3>2, <3>3, <3>4, EndsSame
  <2>4. CASE pipewrite_sleep(p) \/ piperead_sleep(p)
    <3>1. /\ UNCHANGED <<ofile, loc, pipe>>
          /\ \/ pc[p] = "pipewrite_sleep" /\ Goto(p, "pipewrite")
             \/ pc[p] = "piperead_sleep" /\ Goto(p, "piperead")
      BY <2>4 DEF pipewrite_sleep, piperead_sleep, pipeVars
    <3>2. /\ \A q \in Slot \ {p} : pc'[q] = pc[q] /\ loc'[q] = loc[q]
          /\ \/ pc'[p] = "piperead"
             \/ pc[p] = "pipewrite_sleep" /\ pc'[p] = "pipewrite"
      BY <1>0, <3>1 DEF Goto, TableType
    <3>3. \A e \in Ends : EndOpen(e) => EndOpen(e)'
      BY <3>1 DEF EndOpen
    <3>4. pc'[p] = "pipewrite" => "w" \in ofile[p]
      BY <3>2 DEF EndsInv
    <3> QED
      BY <1>1, <3>1, <3>2, <3>3, <3>4, EndsSame
  <2>5. CASE piperead(p)
    <3>1. /\ pc[p] = "piperead" /\ ofile' = ofile
          /\ Return(p) \/ (Goto(p, "piperead_sleep") /\ loc' = loc)
          /\ pipe' = pipe \/ \E k : pipe' = [pipe EXCEPT !.nread = (@ + k) % UINT]
      BY <1>0, <2>5, ReadPipeIs DEF pipeVars
    <3>2. /\ \A q \in Slot \ {p} : pc'[q] = pc[q] /\ loc'[q] = loc[q]
          /\ pc'[p] \in {"user", "piperead_sleep"}
      BY <1>0, <3>1 DEF Goto, Return, TableType
    <3>3. pipe'.readopen = pipe.readopen /\ pipe'.writeopen = pipe.writeopen
      BY <1>0, <3>1, TookIs
    <3>4. \A e \in Ends : EndOpen(e) => EndOpen(e)'
      BY <3>3 DEF EndOpen
    <3> QED
      BY <1>1, <3>1, <3>2, <3>4, EndsSame
  <2>6. CASE \E e \in {"r", "w"} : fileclose(p, e)
    <3>1. PICK e \in Ends : fileclose(p, e)
      BY <2>6 DEF Ends
    <3>2. /\ pc[p] \in {"user", "exit"} /\ e \in ofile[p] /\ UNCHANGED pipe
          /\ ofile' = [ofile EXCEPT ![p] = @ \ {e}]
          /\ IF \E q \in Slot \ {p} : e \in ofile[q] THEN UNCHANGED <<pc, loc>>
             ELSE /\ Goto(p, "pipeclose")
                  /\ \E m : loc' = [loc EXCEPT ![p] = [np |-> 0, i |-> Flag(e), n |-> m]]
      BY <3>1 DEF fileclose, InUser, pipeVars, Flag
    <3>3. /\ ofile'[p] = ofile[p] \ {e} /\ \A q \in Slot \ {p} : ofile'[q] = ofile[q]
      BY <1>0, <3>2 DEF TableType
    <3>4. \A d \in Ends : EndOpen(d)' <=> EndOpen(d)
      BY <3>2 DEF EndOpen
    <3>5. \A q \in Slot \ {p} : pc'[q] = pc[q] /\ loc'[q] = loc[q]
      BY <1>0, <3>2 DEF Goto, TableType
    <3>6. CASE \E q \in Slot \ {p} : e \in ofile[q]
      <4>1. UNCHANGED <<pc, loc>>
        BY <3>2, <3>6
      <4>2. \A q \in Slot : \A d \in Ends : (Closes(q, d)' <=> Closes(q, d)) /\ (HasEnd(q, d)' => HasEnd(q, d))
        BY <3>3, <4>1 DEF Closes, HasEnd
      <4>3. \A q \in Slot : pc'[q] \in {"pipewrite", "pipewrite_sleep"} => "w" \in ofile'[q]
        BY <3>2, <3>3, <4>1 DEF EndsInv
      <4> QED
        BY <3>3, <3>4, <4>1, <4>2, <4>3 DEF EndsInv
    <3>7. CASE ~ \E q \in Slot \ {p} : e \in ofile[q]
      <4>1. pc'[p] = "pipeclose" /\ loc'[p].i = Flag(e) /\ Flag(e) \in {0, 1}
        BY <1>0, <3>2, <3>7 DEF Goto, TableType, Flag
      <4>2. \A d \in Ends : Closes(p, d)' <=> d = e
        BY <4>1 DEF Closes, Flag, Ends
      <4>3. \A q \in Slot \ {p} : \A d \in Ends :
               (Closes(q, d)' <=> Closes(q, d)) /\ (HasEnd(q, d)' <=> HasEnd(q, d))
        BY <3>3, <3>5 DEF Closes, HasEnd
      <4>4. \A d \in Ends : HasEnd(p, d)' <=> d = e \/ d \in ofile[p]
        BY <3>3, <4>2 DEF HasEnd
      <4>5. HasEnd(p, e) /\ \A d \in Ends : d \in ofile[p] => HasEnd(p, d)
        BY <3>2 DEF HasEnd
      <4>6. \A q \in Slot \ {p} : ~HasEnd(q, e)
        BY <3>7, <4>5 DEF EndsInv, HasEnd
      <4>7. \A q \in Slot : \A d \in Ends : HasEnd(q, d)' => EndOpen(d)'
        BY <3>4, <4>3, <4>4, <4>5 DEF EndsInv
      <4>8. \A q \in Slot : pc'[q] = "pipeclose" => loc'[q].i \in {0, 1}
        BY <3>5, <4>1 DEF EndsInv
      <4>9. ASSUME NEW q \in Slot, NEW d \in Ends, Closes(q, d)'
            PROVE  d \notin ofile'[q] /\ \A r \in Slot \ {q} : ~HasEnd(r, d)'
        <5>1. CASE q = p
          BY <5>1, <3>3, <4>2, <4>3, <4>6, <4>9
        <5>2. CASE q # p
          <6>1. Closes(q, d) /\ HasEnd(q, d)
            BY <5>2, <4>3, <4>9 DEF HasEnd
          <6>2. d # e
            BY <5>2, <6>1, <4>6
          <6>3. d \notin ofile[q] /\ \A r \in Slot \ {q} : ~HasEnd(r, d)
            BY <6>1 DEF EndsInv
          <6>4. \A r \in Slot \ {q} : ~HasEnd(r, d)'
            BY <6>2, <6>3, <4>3, <4>4, <4>5
          <6> QED
            BY <5>2, <6>3, <6>4, <3>3
        <5> QED
          BY <5>1, <5>2
      <4>10. \A q \in Slot : pc'[q] \in {"pipewrite", "pipewrite_sleep"} => "w" \in ofile'[q]
        BY <3>3, <3>5, <4>1 DEF EndsInv
      <4> QED
        BY <4>7, <4>8, <4>9, <4>10 DEF EndsInv
    <3> QED
      BY <3>6, <3>7
  <2>7. CASE pipeclose(p)
    <3>1. /\ pc[p] = "pipeclose" /\ UNCHANGED ofile /\ pipe' = Closed(p)
          /\ Goto(p, IF loc[p].n = 1 THEN "exit" ELSE "user")
          /\ loc' = [loc EXCEPT ![p] = NoLoc]
      BY <2>7, CloseIs
    <3>2. /\ pc'[p] \in {"user", "exit"} /\ \A q \in Slot \ {p} : pc'[q] = pc[q] /\ loc'[q] = loc[q]
      BY <1>0, <3>1 DEF Goto, TableType
    <3>3. PICK e \in Ends : loc[p].i = Flag(e)
      BY <3>1 DEF EndsInv, Ends, Flag
    <3>4. /\ ~NoPipe.readopen /\ ~NoPipe.writeopen
          /\ Closing(p).readopen = (pipe.readopen /\ loc[p].i = 1)
          /\ Closing(p).writeopen = (pipe.writeopen /\ loc[p].i # 1)
      BY <1>0, PipeRecs
    <3>5. \A d \in Ends \ {e} : EndOpen(d) => EndOpen(d)'
      <4>1. CASE e = "w"
        <5>1. loc[p].i = 1
          BY <3>3, <4>1 DEF Flag
        <5>2. pipe.readopen => Closing(p).readopen
          BY <3>4, <5>1, Zenon
        <5>3. pipe.readopen => pipe'.readopen
          BY <3>1, <5>2 DEF Closed
        <5> QED
          BY <4>1, <5>3 DEF EndOpen, Ends
      <4>2. CASE e = "r"
        <5>1. loc[p].i # 1
          BY <3>3, <4>2 DEF Flag
        <5>2. pipe.writeopen => Closing(p).writeopen
          BY <3>4, <5>1, Zenon
        <5>3. pipe.writeopen => pipe'.writeopen
          BY <3>1, <5>2 DEF Closed
        <5> QED
          BY <4>2, <5>3 DEF EndOpen, Ends
      <4> QED
        BY <4>1, <4>2 DEF Ends
    <3>6. Closes(p, e) /\ e \notin ofile[p] /\ \A q \in Slot \ {p} : ~HasEnd(q, e)
      <4>1. Closes(p, e)
        BY <3>1, <3>3 DEF Closes
      <4> QED
        BY <4>1 DEF EndsInv
    <3>7. \A q \in Slot \ {p} : \A d \in Ends :
              (Closes(q, d)' <=> Closes(q, d)) /\ (HasEnd(q, d)' <=> HasEnd(q, d))
      BY <3>1, <3>2 DEF Closes, HasEnd
    <3>8. \A d \in Ends : ~Closes(p, d)' /\ (HasEnd(p, d)' <=> d \in ofile[p])
      BY <3>1, <3>2 DEF Closes, HasEnd
    <3>9. ASSUME NEW q \in Slot, NEW d \in Ends, HasEnd(q, d)' PROVE EndOpen(d)'
      <4>1. d # e /\ HasEnd(q, d)
        BY <3>6, <3>7, <3>8, <3>9 DEF HasEnd
      <4> QED
        BY <4>1, <3>5 DEF EndsInv
    <3>10. \A q \in Slot : pc'[q] = "pipeclose" => loc'[q].i \in {0, 1}
      BY <3>2 DEF EndsInv
    <3>11. ASSUME NEW q \in Slot, NEW d \in Ends, Closes(q, d)'
           PROVE  d \notin ofile'[q] /\ \A r \in Slot \ {q} : ~HasEnd(r, d)'
      <4>1. q # p /\ Closes(q, d)
        BY <3>7, <3>8, <3>11
      <4>2. d \notin ofile[q] /\ \A r \in Slot \ {q} : ~HasEnd(r, d)
        BY <4>1 DEF EndsInv
      <4>3. d \notin ofile[p]
        BY <4>1, <4>2 DEF HasEnd
      <4> QED
        BY <3>1, <3>7, <3>8, <4>2, <4>3
    <3>12. \A q \in Slot : pc'[q] \in {"pipewrite", "pipewrite_sleep"} => "w" \in ofile'[q]
      BY <3>1, <3>2 DEF EndsInv
    <3> QED
      BY <3>9, <3>10, <3>11, <3>12 DEF EndsInv
  <2> QED
    BY <1>3, <2>1, <2>2, <2>3, <2>4, <2>5, <2>6, <2>7 DEF PipeStep
<1> QED
  BY <1>2, <1>3, OfileKept

\* An end that some process has, through pipe() or fork(), is open, and is closed by the last one only.
THEOREM EndsInvariant == Spec => []EndsInv
<1>1. ASSUME Init PROVE EndsInv
  <2> SUFFICES ASSUME load = "pipe" PROVE EndsInv
    BY DEF EndsInv
  <2>1. pipe = [NoPipe EXCEPT !.used = TRUE, !.readopen = TRUE, !.writeopen = TRUE] /\ Forked
    BY <1>1 DEF Init
  <2>2. pipe.readopen /\ pipe.writeopen
    BY <2>1 DEF NoPipe
  <2>3. \A p \in Slot : pc[p] \in {"user", "wait"}
    BY <2>1 DEF Forked
  <2> QED
    BY <2>2, <2>3 DEF EndsInv, EndOpen, Closes
<1>2. Types /\ PipeInv /\ EndsInv /\ [Next]_vars => EndsInv'
  BY EndsKeeps
<1> QED
  BY <1>1, <1>2, TypesInvariant, PipeInvariant, PTL DEF Spec

-----------------------------------------------------------------------------
(* The pipe is a stream of bytes                                           *)

\* Counting around the uints and then around the ring is counting around the ring.
LEMMA Cell ==
  ASSUME NEW a \in Int, NEW b \in Int
  PROVE  /\ (a % UINT) % PIPESIZE = a % PIPESIZE
         /\ ((a % UINT) + b) % PIPESIZE = (a + b) % PIPESIZE
<1>1. UINT \in Nat \ {0} /\ PIPESIZE \in Nat \ {0} /\ UINT % PIPESIZE = 0
  BY SlotFacts, PipeAssumption
<1>2. (a % UINT) % PIPESIZE = a % PIPESIZE
  BY <1>1, ModMod
<1> DEFINE q == a \div UINT
           r == a % UINT
           x == UINT \div PIPESIZE
<1>3. q \in Int /\ r \in Int /\ a = UINT * q + r
  BY <1>1, ModDiv
<1>4. x \in Int /\ UINT = PIPESIZE * x
  BY <1>1, ModDiv
<1> HIDE DEF q, r, x
<1> DEFINE y == -(x * q)
<1>5. y \in Int
  BY <1>3, <1>4
<1>6. r + b = (a + b) + PIPESIZE * y
  <2>1. UINT * q = PIPESIZE * (x * q)
    BY <1>1, <1>3, <1>4
  <2>2. PIPESIZE * y = -(PIPESIZE * (x * q))
    BY <1>1, <1>3, <1>4
  <2> DEFINE t == PIPESIZE * (x * q)
             u == PIPESIZE * y
             v == UINT * q
  <2>3. t \in Int /\ u = -t /\ v = t /\ a = v + r
    BY <1>1, <1>3, <1>4, <2>1, <2>2
  <2> HIDE DEF t, u, v
  <2>4. r + b = (a + b) + u
    BY <1>3, <2>3
  <2> QED
    BY <2>4 DEF u
<1> HIDE DEF y
<1>7. ((a + b) + PIPESIZE * y) % PIPESIZE = (a + b) % PIPESIZE
  <2> DEFINE c == a + b
  <2>1. c \in Int
    OBVIOUS
  <2> HIDE DEF c
  <2>2. (c + PIPESIZE * y) % PIPESIZE = c % PIPESIZE
    BY <1>1, <1>5, <2>1, ModShift
  <2> QED
    BY <2>2 DEF c
<1> QED
  BY <1>2, <1>6, <1>7 DEF r

\* Where the ring begins and where the next byte goes.
LEMMA Places ==
  ASSUME PipeType
  PROVE  /\ pipe.nread \in Nat /\ Count \in Nat
         /\ \A i \in Int : ((pipe.nread + i - 1) % UINT) % PIPESIZE = (pipe.nread + i - 1) % PIPESIZE
         /\ \A i \in Int : ((pipe.nwrite + i) % UINT) % PIPESIZE = (pipe.nread + Count + i) % PIPESIZE
<1> DEFINE r == pipe.nread
           w == pipe.nwrite
           c == Count
<1>1. r \in 0..(UINT - 1) /\ w \in 0..(UINT - 1) /\ c \in Nat /\ UINT \in Nat \ {0}
  BY CountIs, SlotFacts DEF PipeType, PipeRec
<1>2. c = IF r <= w THEN w - r ELSE w - r + UINT
  BY CountIs
<1> HIDE DEF r, w, c
<1>3. w = (r + c) % UINT
  <2> DEFINE s == r + c
  <2>1. s \in Int /\ -UINT <= s /\ s < 2 * UINT /\ ~ (s < 0) /\ (s = w \/ s = w + UINT)
    BY <1>1, <1>2
  <2> HIDE DEF s
  <2>2. s % UINT = IF s < 0 THEN s + UINT ELSE IF s < UINT THEN s ELSE s - UINT
    BY <1>1, <2>1, ModNear
  <2>3. s % UINT = w
    BY <1>1, <2>1, <2>2
  <2> QED
    BY <2>3 DEF s
<1>4. ASSUME NEW i \in Int PROVE ((r + i - 1) % UINT) % PIPESIZE = (r + i - 1) % PIPESIZE
  <2> DEFINE a == r + i - 1
  <2>1. a \in Int
    BY <1>1
  <2> HIDE DEF a
  <2>2. (a % UINT) % PIPESIZE = a % PIPESIZE
    BY <2>1, Cell
  <2> QED
    BY <2>2 DEF a
<1>5. ASSUME NEW i \in Int PROVE ((w + i) % UINT) % PIPESIZE = (r + c + i) % PIPESIZE
  <2> DEFINE a == w + i
             s == r + c
  <2>1. a \in Int /\ s \in Int
    BY <1>1
  <2>2. w = s % UINT
    BY <1>3
  <2> HIDE DEF s
  <2>3. ((s % UINT) + i) % PIPESIZE = (s + i) % PIPESIZE
    BY <2>1, Cell
  <2>4. a % PIPESIZE = (s + i) % PIPESIZE
    BY <2>2, <2>3
  <2> HIDE DEF a
  <2>5. (a % UINT) % PIPESIZE = a % PIPESIZE
    BY <2>1, Cell
  <2> QED
    BY <2>4, <2>5 DEF a, s
<1> QED
  BY <1>1, <1>4, <1>5 DEF r, w, c

\* The bytes under way.
LEMMA RingIs ==
  ASSUME PipeType
  PROVE  /\ Ring(Count) \in Seq(Nat) /\ Len(Ring(Count)) = Count
         /\ \A i \in 1..Count : Ring(Count)[i] = pipe.data[(pipe.nread + i - 1) % PIPESIZE]
<1> DEFINE c == Count
           r == pipe.nread
<1>1. c \in Nat /\ r \in Nat /\ PIPESIZE \in Nat \ {0} /\ pipe.data \in [0..(PIPESIZE - 1) -> Nat]
  BY Places, PipeAssumption DEF PipeType, PipeRec
<1>2. \A i \in 1..c : ((r + i - 1) % UINT) % PIPESIZE = (r + i - 1) % PIPESIZE
  BY Places
<1>3. Ring(Count) = [i \in 1..c |-> pipe.data[((r + i - 1) % UINT) % PIPESIZE]]
  BY DEF Ring
<1> HIDE DEF c, r
<1>4. Ring(Count) = [i \in 1..c |-> pipe.data[(r + i - 1) % PIPESIZE]]
  BY <1>2, <1>3
<1>5. \A i \in 1..c : pipe.data[(r + i - 1) % PIPESIZE] \in Nat
  <2> TAKE i \in 1..c
  <2> DEFINE a == r + i - 1
  <2>1. a \in Int
    BY <1>1
  <2> HIDE DEF a
  <2>2. a % PIPESIZE \in 0..(PIPESIZE - 1)
    BY <1>1, <2>1, ModDiv
  <2>3. pipe.data[a % PIPESIZE] \in Nat
    BY <1>1, <2>2
  <2> QED
    BY <2>3 DEF a
<1>6. Ring(Count) \in Seq(Nat) /\ Len(Ring(Count)) = c
  <2>1. Ring(Count) \in [1..c -> Nat]
    BY <1>4, <1>5
  <2> QED
    BY <1>1, <2>1
<1> QED
  BY <1>4, <1>6 DEF c, r

\* pipewrite puts its bytes behind those under way and touches no other.
LEMMA FilledIs ==
  ASSUME PipeType, NEW k \in Nat, Count + k <= PIPESIZE
  PROVE  /\ \A i \in 0..(k - 1) :
              Filled(pipe.data, sent, k)[(pipe.nread + Count + i) % PIPESIZE] = (sent + i) % (2 * PIPESIZE)
         /\ \A i \in 1..Count :
              Filled(pipe.data, sent, k)[(pipe.nread + i - 1) % PIPESIZE] = pipe.data[(pipe.nread + i - 1) % PIPESIZE]
<1> DEFINE D == 0..(PIPESIZE - 1)
           r == pipe.nread
           c == Count
           F == Filled(pipe.data, sent, k)
           hits(j) == {i \in 0..(k - 1) : (r + c + i) % PIPESIZE = j}
<1>1. r \in Nat /\ c \in Nat /\ c + k <= PIPESIZE /\ PIPESIZE \in Nat \ {0} /\ DOMAIN pipe.data = D
  BY Places, PipeAssumption DEF PipeType, PipeRec
<1>2. F = [j \in D |-> IF hits(j) = {} THEN pipe.data[j] ELSE (sent + Max(hits(j))) % (2 * PIPESIZE)]
  <2>1. \A j : hits(j) = {i \in 0..(k - 1) : ((pipe.nwrite + i) % UINT) % PIPESIZE = j}
    <3>1. \A i \in 0..(k - 1) : ((pipe.nwrite + i) % UINT) % PIPESIZE = (r + c + i) % PIPESIZE
      BY Places
    <3> QED
      BY <3>1
  <2> DEFINE old(j) == {i \in 0..(k - 1) : ((pipe.nwrite + i) % UINT) % PIPESIZE = j}
  <2>2. F = [j \in D |-> IF old(j) = {} THEN pipe.data[j] ELSE (sent + Max(old(j))) % (2 * PIPESIZE)]
    BY <1>1 DEF Filled
  <2>3. \A j : old(j) = hits(j)
    BY <2>1
  <2> HIDE DEF old, hits, F, D
  <2> QED
    BY <2>2, <2>3
<1>3. \A i \in Int : (r + i) % PIPESIZE \in D
  <2> TAKE i \in Int
  <2> DEFINE a == r + i
  <2>1. a \in Int
    BY <1>1
  <2> HIDE DEF a
  <2>2. a % PIPESIZE \in D
    BY <1>1, <2>1, ModDiv
  <2> QED
    BY <2>2 DEF a
<1> HIDE DEF F, r, c
<1>4. ASSUME NEW a \in Int, NEW b \in Int, a < b, b < a + PIPESIZE
      PROVE  (r + a) % PIPESIZE # (r + b) % PIPESIZE
  <2> DEFINE x == r + a
             y == r + b
  <2>1. x \in Int /\ y \in Int /\ x < y /\ y < x + PIPESIZE
    BY <1>1, <1>4
  <2> HIDE DEF x, y
  <2>2. x % PIPESIZE # y % PIPESIZE
    BY <1>1, <2>1, ModApart
  <2> QED
    BY <2>2 DEF x, y
<1>5. ASSUME NEW i \in 0..(k - 1)
      PROVE  F[(r + c + i) % PIPESIZE] = (sent + i) % (2 * PIPESIZE)
  <2> DEFINE j == (r + c + i) % PIPESIZE
             a == c + i
  <2>1. a \in Int /\ i \in Int /\ r + c + i = r + a
    BY <1>1, <1>5
  <2>2. j \in D
    <3> HIDE DEF a, D
    <3>1. (r + a) % PIPESIZE \in D
      BY <1>3, <2>1
    <3> QED
      BY <2>1, <3>1
  <2>3. ASSUME NEW h \in hits(j) PROVE h = i
    <3> DEFINE b == c + h
    <3>1. h \in 0..(k - 1) /\ (r + c + h) % PIPESIZE = j
      BY <2>3
    <3>2. b \in Int /\ r + c + h = r + b /\ b < a + PIPESIZE /\ a < b + PIPESIZE
      BY <1>1, <1>5, <3>1
    <3>3. (r + b) % PIPESIZE = (r + a) % PIPESIZE
      BY <2>1, <3>1, <3>2
    <3>4. ~ (a < b) /\ ~ (b < a)
      <4> HIDE DEF a, b, j
      <4> QED
        BY <1>4, <2>1, <3>2, <3>3
    <3> QED
      BY <1>1, <2>1, <3>1, <3>4
  <2>4. i \in hits(j)
    BY <1>5
  <2>5. hits(j) = {i}
    BY <2>3, <2>4
  <2>6. Max({i}) = i
    <3>1. i \in Nat /\ {i} \in SUBSET (0..i) /\ {i} # {}
      BY <1>5
    <3>2. Max({i}) \in {i}
      BY <3>1, MaxIs
    <3> QED
      BY <3>2
  <2> HIDE DEF hits, D, j
  <2>7. F[j] = (sent + Max(hits(j))) % (2 * PIPESIZE)
    BY <1>2, <2>2, <2>5
  <2> QED
    BY <2>5, <2>6, <2>7 DEF j
<1>6. ASSUME NEW i \in 1..c
      PROVE  F[(r + i - 1) % PIPESIZE] = pipe.data[(r + i - 1) % PIPESIZE]
  <2> DEFINE j == (r + i - 1) % PIPESIZE
             a == i - 1
  <2>1. a \in Int /\ i \in Int /\ r + i - 1 = r + a
    BY <1>1, <1>6
  <2>2. j \in D
    <3> HIDE DEF a, D
    <3>1. (r + a) % PIPESIZE \in D
      BY <1>3, <2>1
    <3> QED
      BY <2>1, <3>1
  <2>3. ASSUME NEW h \in hits(j) PROVE FALSE
    <3> DEFINE b == c + h
    <3>1. h \in 0..(k - 1) /\ (r + c + h) % PIPESIZE = j
      BY <2>3
    <3>2. b \in Int /\ r + c + h = r + b /\ a < b /\ b < a + PIPESIZE
      BY <1>1, <1>6, <3>1
    <3>3. (r + b) % PIPESIZE = (r + a) % PIPESIZE
      BY <2>1, <3>1, <3>2
    <3> HIDE DEF a, b, j
    <3> QED
      BY <1>4, <2>1, <3>2, <3>3
  <2>4. hits(j) = {}
    BY <2>3
  <2> HIDE DEF hits, D, j
  <2>5. F[j] = pipe.data[j]
    BY <1>2, <2>2, <2>4
  <2> QED
    BY <2>5 DEF j
<1> QED
  BY <1>5, <1>6 DEF F, r, c

\* The abstract pipe's open ends.
Open == (IF pipe.readopen THEN {"r"} ELSE {}) \cup (IF pipe.writeopen THEN {"w"} ELSE {})

\* The numbers of the bytes that pipewrite puts in.
LEMMA NumbersIs ==
  ASSUME PipeType, NEW k \in Nat
  PROVE  /\ Stream!Numbers(sent, k) \in Seq(Nat) /\ Len(Stream!Numbers(sent, k)) = k
         /\ \A i \in 1..k : Stream!Numbers(sent, k)[i] = (sent + i - 1) % (2 * PIPESIZE)
<1>1. PIPESIZE \in Nat \ {0} /\ sent \in Nat
  BY PipeAssumption DEF PipeType
<1> DEFINE N == Stream!Numbers(sent, k)
<1>2. N = [i \in 1..k |-> (sent + i - 1) % (2 * PIPESIZE)]
  BY DEF Stream!Numbers
<1>3. \A i \in 1..k : (sent + i - 1) % (2 * PIPESIZE) \in Nat
  <2> TAKE i \in 1..k
  <2> DEFINE a == sent + i - 1
             n == 2 * PIPESIZE
  <2>1. a \in Int /\ n \in Nat \ {0}
    BY <1>1
  <2> HIDE DEF a, n
  <2>2. a % n \in 0..(n - 1)
    BY <2>1, ModDiv
  <2>3. a % n \in Nat
    BY <2>1, <2>2
  <2> QED
    BY <2>3 DEF a, n
<1>4. N \in [1..k -> Nat]
  <2> HIDE DEF N
  <2> QED
    BY <1>2, <1>3
<1> HIDE DEF N
<1>5. N \in Seq(Nat) /\ Len(N) = k
  BY <1>4
<1> QED
  BY <1>2, <1>5 DEF N

\* pipewrite() appends to the ring, read from nread to nwrite.
LEMMA RingWrote ==
  ASSUME TableType, PipeType, PipeType', NEW p \in Slot, pipewrite(p)
  PROVE  Ring(Count)' = Ring(Count) \o Stream!Numbers(sent, Written(p))
<1> DEFINE k == Written(p)
           c == Count
           r == pipe.nread
           N == Stream!Numbers(sent, k)
           R == Ring(Count)
           S == Ring(Count)'
<1>1. k \in Nat /\ Count' = c + k /\ c + k <= PIPESIZE /\ c \in Nat /\ r \in Nat
  BY WriteCount, Places
<1>2. pipe'.nread = r /\ pipe'.data = Filled(pipe.data, sent, k)
  BY WriteIs, WroteIs
<1>3. R \in Seq(Nat) /\ Len(R) = c /\ \A i \in 1..c : R[i] = pipe.data[(r + i - 1) % PIPESIZE]
  BY RingIs
<1>4. N \in Seq(Nat) /\ Len(N) = k /\ \A i \in 1..k : N[i] = (sent + i - 1) % (2 * PIPESIZE)
  BY <1>1, NumbersIs
<1>5. /\ S \in Seq(Nat) /\ Len(S) = Count'
      /\ \A i \in 1..Count' : S[i] = pipe'.data[(pipe'.nread + i - 1) % PIPESIZE]
  <2>1. (PipeType => /\ Ring(Count) \in Seq(Nat) /\ Len(Ring(Count)) = Count
                     /\ \A i \in 1..Count : Ring(Count)[i] = pipe.data[(pipe.nread + i - 1) % PIPESIZE])'
    BY RingIs, PTL
  <2> QED
    BY <2>1
<1>6. /\ \A i \in 0..(k - 1) :
            Filled(pipe.data, sent, k)[(r + c + i) % PIPESIZE] = (sent + i) % (2 * PIPESIZE)
      /\ \A i \in 1..c :
            Filled(pipe.data, sent, k)[(r + i - 1) % PIPESIZE] = pipe.data[(r + i - 1) % PIPESIZE]
  BY <1>1, FilledIs
<1> HIDE DEF k, c, r, N, R, S
<1>7. /\ R \o N \in Seq(Nat) /\ Len(R \o N) = c + k
      /\ \A i \in 1..(c + k) : (R \o N)[i] = IF i <= c THEN R[i] ELSE N[i - c]
  BY <1>3, <1>4, ConcatProperties
<1>8. ASSUME NEW i \in 1..(c + k) PROVE S[i] = (R \o N)[i]
  <2>1. S[i] = Filled(pipe.data, sent, k)[(r + i - 1) % PIPESIZE]
    BY <1>1, <1>2, <1>5
  <2>2. CASE i <= c
    <3>1. i \in 1..c
      BY <1>1, <2>2
    <3> QED
      BY <2>1, <2>2, <3>1, <1>3, <1>6, <1>7
  <2>3. CASE ~ (i <= c)
    <3>1. i - c \in 1..k /\ (i - c) - 1 \in 0..(k - 1) /\ r + i - 1 = r + c + ((i - c) - 1)
      BY <1>1, <2>3
    <3>2. sent + (i - c) - 1 = sent + ((i - c) - 1)
      BY <1>1 DEF PipeType
    <3> DEFINE j == (i - c) - 1
    <3>3. Filled(pipe.data, sent, k)[(r + c + j) % PIPESIZE] = (sent + j) % (2 * PIPESIZE)
      BY <1>6, <3>1
    <3>4. N[i - c] = (sent + (i - c) - 1) % (2 * PIPESIZE)
      BY <1>4, <3>1
    <3> QED
      BY <2>1, <2>3, <3>1, <3>2, <3>3, <3>4, <1>7
  <2> QED
    BY <2>2, <2>3
<1>9. S = R \o N
  BY <1>1, <1>5, <1>7, <1>8, SeqEqual
<1> QED
  BY <1>9 DEF S, R, N, k

\* piperead() removes from the front of the ring.
LEMMA RingTook ==
  ASSUME PipeType, PipeType', NEW k \in Nat, k <= Count, Count' = Count - k,
         pipe' = [pipe EXCEPT !.nread = (@ + k) % UINT]
  PROVE  Ring(Count)' = SubSeq(Ring(Count), k + 1, Len(Ring(Count)))
<1> DEFINE c == Count
           r == pipe.nread
           R == Ring(Count)
           S == Ring(Count)'
<1>1. c \in Nat /\ r \in Nat /\ k <= c /\ Count' = c - k
  BY Places
<1>2. pipe'.nread = (r + k) % UINT /\ pipe'.data = pipe.data
  BY TookIs
<1>3. R \in Seq(Nat) /\ Len(R) = c /\ \A i \in 1..c : R[i] = pipe.data[(r + i - 1) % PIPESIZE]
  BY RingIs
<1>4. /\ S \in Seq(Nat) /\ Len(S) = Count'
      /\ \A i \in 1..Count' : S[i] = pipe'.data[(pipe'.nread + i - 1) % PIPESIZE]
  <2>1. (PipeType => /\ Ring(Count) \in Seq(Nat) /\ Len(Ring(Count)) = Count
                     /\ \A i \in 1..Count : Ring(Count)[i] = pipe.data[(pipe.nread + i - 1) % PIPESIZE])'
    BY RingIs, PTL
  <2> QED
    BY <2>1
<1> HIDE DEF c, r, R, S
<1>5. /\ SubSeq(R, k + 1, c) \in Seq(Nat) /\ Len(SubSeq(R, k + 1, c)) = c - k
      /\ \A i \in 1..(c - k) : SubSeq(R, k + 1, c)[i] = R[k + i]
  <2>1. k + 1 \in Int /\ c \in Int /\ \A i \in (k + 1)..c : R[i] \in Nat
    BY <1>1, <1>3
  <2>2. /\ SubSeq(R, k + 1, c) \in Seq(Nat)
        /\ Len(SubSeq(R, k + 1, c)) = IF k + 1 <= c THEN c - (k + 1) + 1 ELSE 0
        /\ \A i \in 1..(c - (k + 1) + 1) : SubSeq(R, k + 1, c)[i] = R[(k + 1) + i - 1]
    BY <2>1, SubSeqProperties
  <2>3. c - (k + 1) + 1 = c - k /\ \A i \in 1..(c - k) : (k + 1) + i - 1 = k + i
    BY <1>1
  <2>4. Len(SubSeq(R, k + 1, c)) = c - k
    BY <1>1, <2>2
  <2>5. \A i \in 1..(c - k) : SubSeq(R, k + 1, c)[i] = R[k + i]
    BY <2>2, <2>3
  <2> QED
    BY <2>2, <2>4, <2>5
<1>6. ASSUME NEW i \in 1..(c - k) PROVE S[i] = R[k + i]
  <2> DEFINE a == r + k
             b == i - 1
  <2>1. a \in Int /\ b \in Int /\ k + i \in 1..c /\ a + b = r + (k + i) - 1
    BY <1>1, <1>6
  <2>2. S[i] = pipe.data[((a % UINT) + b) % PIPESIZE]
    <3>1. S[i] = pipe.data[((a % UINT) + i - 1) % PIPESIZE]
      BY <1>1, <1>2, <1>4
    <3>2. a % UINT \in Int
      BY <2>1, SlotFacts, ModDiv
    <3>3. ((a % UINT) + i) - 1 = (a % UINT) + b
      <4> DEFINE m == a % UINT
      <4>1. m \in Int
        BY <3>2
      <4> HIDE DEF m
      <4>2. (m + i) - 1 = m + b
        BY <1>1, <1>6, <4>1
      <4> QED
        BY <4>2 DEF m
    <3> QED
      BY <3>1, <3>3
  <2> HIDE DEF a, b
  <2>3. ((a % UINT) + b) % PIPESIZE = (a + b) % PIPESIZE
    BY <2>1, Cell
  <2>4. R[k + i] = pipe.data[(r + (k + i) - 1) % PIPESIZE]
    BY <1>3, <2>1
  <2> QED
    BY <2>1, <2>2, <2>3, <2>4
<1>7. S = SubSeq(R, k + 1, c)
  BY <1>1, <1>4, <1>5, <1>6, SeqEqual
<1> QED
  BY <1>3, <1>7 DEF S, R, c

\* The actions of ByteStream under the refinement mapping.
LEMMA StreamIs ==
  /\ Stream!streamVars = <<Open, Ring(Count), sent>>
  /\ Stream!Create <=> /\ Open = {} /\ Open' = {"r", "w"}
                       /\ Ring(Count)' = <<>> /\ sent' = 0
  /\ \A k : Stream!Put(k) <=> /\ Open # {} /\ k <= PIPESIZE - Len(Ring(Count))
                              /\ Ring(Count)' = Ring(Count) \o Stream!Numbers(sent, k)
                              /\ sent' = (sent + k) % (2 * PIPESIZE) /\ Open' = Open
  /\ \A k : Stream!Take(k) <=> /\ k <= Len(Ring(Count))
                               /\ Ring(Count)' = SubSeq(Ring(Count), k + 1, Len(Ring(Count)))
                               /\ Open' = Open /\ sent' = sent
  /\ \A e : Stream!Close(e) <=> /\ e \in Open /\ Open' = Open \ {e}
                                /\ IF Open' = {} THEN Ring(Count)' = <<>> /\ sent' = 0
                                   ELSE Ring(Count)' = Ring(Count) /\ sent' = sent
  BY DEF Open, Stream!streamVars, Stream!Create, Stream!Put, Stream!Take, Stream!Close

\* A ring without bytes is the empty sequence.
LEMMA EmptyRing ==
  ASSUME PipeType, Count = 0
  PROVE  Ring(Count) = <<>>
<1>1. Ring(Count) \in Seq(Nat) /\ Len(Ring(Count)) = 0
  BY RingIs
<1> QED
  BY <1>1, EmptySeq

\* Every step of the kernel is a step of the byte stream or leaves it alone.
LEMMA StreamStep ==
  ASSUME Types, Types', PipeInv, EndsInv, [Next]_vars
  PROVE  [Stream!StreamNext]_(Stream!streamVars)
<1> DEFINE Still == Open' = Open /\ Ring(Count)' = Ring(Count) /\ sent' = sent
           Goal == Still \/ Stream!StreamNext
<1>0. TableType /\ PipeType /\ PipeType' /\ PIPESIZE \in Nat \ {0}
  BY PipeAssumption DEF Types, TableInv
<1>1. ASSUME UNCHANGED pipeVars PROVE Still
  BY <1>1 DEF pipeVars, Open, Ring, Count
<1>2. ASSUME NEW p \in Slot, PipeStep(p) PROVE Goal
  <2>0. load = "pipe"
    BY <1>2 DEF PipeStep
  <2>1. CASE sys_pipe(p)
    <3>1. ~pipe.used /\ pipe' = NewPipe /\ sent' = 0
      BY <2>1 DEF sys_pipe, NewPipe
    <3>2. pipe'.readopen /\ pipe'.writeopen /\ pipe'.nread = 0 /\ pipe'.nwrite = 0
      BY <1>0, <3>1, PipeRecs
    <3>3. Open = {} /\ Open' = {"r", "w"}
      BY <3>1, <3>2 DEF Open, PipeInv
    <3>4. Count' = 0
      BY <3>2, SlotFacts DEF Count
    <3>5. Ring(Count)' = <<>>
      <4>1. (PipeType /\ Count = 0 => Ring(Count) = <<>>)'
        BY EmptyRing, PTL
      <4> QED
        BY <1>0, <3>4, <4>1
    <3>6. Stream!Create
      BY <3>1, <3>3, <3>5, StreamIs
    <3> QED
      BY <3>6 DEF Stream!StreamNext
  <2>2. CASE pipewrite(p)
    <3> DEFINE k == Written(p)
    <3>1. /\ pc[p] = "pipewrite" /\ pipe' = Wrote(p)
          /\ sent' = (sent + k) % (2 * PIPESIZE)
      BY <1>0, <2>2, WriteIs
    <3>2. k \in Nat /\ Count' = Count + k /\ Count' <= PIPESIZE
      BY <1>0, <2>2, WriteCount
    <3>3. Count \in Nat /\ Len(Ring(Count)) = Count
      BY <1>0, Places, RingIs
    <3>4. Open' = Open
      BY <1>0, <3>1, WroteIs DEF Open
    <3>5. Ring(Count)' = Ring(Count) \o Stream!Numbers(sent, k)
      BY <1>0, <2>2, RingWrote
    <3>6. "w" \in Open
      <4>1. "w" \in ofile[p]
        BY <2>0, <3>1 DEF EndsInv
      <4>2. HasEnd(p, "w")
        BY <4>1 DEF HasEnd
      <4>3. pipe.writeopen
        BY <2>0, <4>2 DEF EndsInv, EndOpen, Ends
      <4> QED
        BY <4>3 DEF Open
    <3> HIDE DEF k
    <3>7. k <= PIPESIZE - Len(Ring(Count)) /\ (k = 0 \/ k \in 1..PIPESIZE)
      BY <1>0, <3>2, <3>3
    <3>8. Stream!Put(k)
      BY <3>1, <3>4, <3>5, <3>6, <3>7, StreamIs DEF k
    <3>9. CASE k = 0
      <4>1. sent' = sent
        <5> DEFINE n == 2 * PIPESIZE
        <5>1. sent \in Int /\ n \in Nat \ {0} /\ -n <= sent /\ sent < n /\ ~ (sent < 0) /\ sent < 2 * n
          BY <1>0 DEF PipeType
        <5>2. sent' = sent % n
          BY <3>1, <3>9, <5>1 DEF k
        <5> HIDE DEF n
        <5>3. sent % n = sent
          BY <5>1, ModNear
        <5> QED
          BY <5>2, <5>3
      <4>2. Ring(Count)' = Ring(Count)
        <5>1. Stream!Numbers(sent, k) \in Seq(Nat) /\ Len(Stream!Numbers(sent, k)) = 0
          BY <1>0, <3>9, NumbersIs
        <5>2. Stream!Numbers(sent, k) = <<>>
          BY <5>1, EmptySeq
        <5>3. Ring(Count) \in Seq(Nat)
          BY <1>0, RingIs
        <5> QED
          BY <3>5, <5>2, <5>3, ConcatEmptySeq
      <4> QED
        BY <3>4, <4>1, <4>2
    <3> QED
      BY <3>7, <3>8, <3>9 DEF Stream!StreamNext
  <2>3. CASE piperead(p)
    <3>1. CASE UNCHANGED pipeVars
      BY <1>1, <3>1
    <3>2. ASSUME NEW k \in Nat, k <= Count, pipe' = [pipe EXCEPT !.nread = (@ + k) % UINT],
                 Count' = Count - k, sent' = sent
          PROVE  Goal
      <4>1. Ring(Count)' = SubSeq(Ring(Count), k + 1, Len(Ring(Count)))
        BY <1>0, <3>2, RingTook
      <4>2. Open' = Open
        BY <1>0, <3>2, TookIs DEF Open
      <4>3. Count \in Nat /\ Len(Ring(Count)) = Count /\ Count <= PIPESIZE
        BY <1>0, Places, RingIs DEF PipeType
      <4>4. Stream!Take(k)
        BY <3>2, <4>1, <4>2, <4>3, StreamIs
      <4>5. CASE k = 0
        <5>1. Ring(Count) \in Seq(Nat)
          BY <1>0, RingIs
        <5>2. SubSeq(Ring(Count), 1, Len(Ring(Count))) = Ring(Count)
          BY <5>1, SubSeqFull
        <5>3. 0 + 1 = 1
          OBVIOUS
        <5> QED
          BY <3>2, <4>1, <4>2, <4>5, <5>2, <5>3
      <4>6. k = 0 \/ k \in 1..PIPESIZE
        BY <1>0, <3>2, <4>3
      <4> QED
        BY <4>4, <4>5, <4>6 DEF Stream!StreamNext
    <3> QED
      BY <1>0, <2>3, <3>1, <3>2, ReadPipeIs
  <2>4. CASE pipeclose(p)
    <3>1. /\ pc[p] = "pipeclose" /\ pipe' = Closed(p)
          /\ IF ~Closing(p).readopen /\ ~Closing(p).writeopen THEN sent' = 0 ELSE sent' = sent
      BY <2>4, CloseIs
    <3>2. PICK e \in Ends : loc[p].i = Flag(e)
      BY <2>0, <3>1 DEF EndsInv, Ends, Flag
    <3>3. EndOpen(e)
      BY <2>0, <3>1, <3>2 DEF EndsInv, HasEnd, Closes
    <3>4. /\ NoPipe.nread = 0 /\ NoPipe.nwrite = 0 /\ ~NoPipe.readopen /\ ~NoPipe.writeopen
          /\ Closing(p).nread = pipe.nread /\ Closing(p).nwrite = pipe.nwrite
          /\ Closing(p).data = pipe.data
          /\ Closing(p).readopen = (pipe.readopen /\ loc[p].i = 1)
          /\ Closing(p).writeopen = (pipe.writeopen /\ loc[p].i # 1)
      BY <1>0, PipeRecs
    <3>5. /\ Closing(p).readopen <=> pipe.readopen /\ e = "w"
          /\ Closing(p).writeopen <=> pipe.writeopen /\ e = "r"
      <4>1. loc[p].i = 1 <=> e = "w"
        BY <3>2 DEF Flag, Ends
      <4>2. e = "r" <=> ~ (e = "w")
        BY DEF Ends
      <4> QED
        BY <3>4, <4>1, <4>2, Zenon
    <3>6. e \in Open
      BY <3>3 DEF Open, EndOpen, Ends
    <3>7. /\ Closing(p).readopen <=> "r" \in Open \ {e}
          /\ Closing(p).writeopen <=> "w" \in Open \ {e}
      BY <3>5 DEF Open, Ends
    <3>8. CASE ~Closing(p).readopen /\ ~Closing(p).writeopen
      <4>1. pipe' = NoPipe /\ sent' = 0
        BY <3>1, <3>8 DEF Closed
      <4>2. Open' = {} /\ Open \ {e} = {}
        BY <3>4, <3>7, <3>8, <4>1 DEF Open
      <4>3. Count' = 0
        BY <3>4, <4>1, SlotFacts DEF Count
      <4>4. (PipeType /\ Count = 0 => Ring(Count) = <<>>)'
        BY EmptyRing, PTL
      <4>5. Stream!Close(e)
        BY <1>0, <3>6, <4>1, <4>2, <4>3, <4>4, StreamIs
      <4> QED
        BY <4>5 DEF Stream!StreamNext, Ends
    <3>9. CASE Closing(p).readopen \/ Closing(p).writeopen
      <4>1. pipe' = Closing(p) /\ sent' = sent
        BY <3>1, <3>9 DEF Closed
      <4>2. Open' = Open \ {e} /\ Open' # {}
        <5>1. Open' \subseteq Ends /\ Open \subseteq Ends
          BY DEF Open, Ends
        <5>2. ("r" \in Open' <=> "r" \in Open \ {e}) /\ ("w" \in Open' <=> "w" \in Open \ {e})
          BY <3>7, <4>1 DEF Open
        <5> QED
          BY <3>7, <3>9, <5>1, <5>2 DEF Ends
      <4>3. Ring(Count)' = Ring(Count)
        BY <3>4, <4>1 DEF Ring, Count
      <4>4. Stream!Close(e)
        BY <3>6, <4>1, <4>2, <4>3, StreamIs
      <4> QED
        BY <4>4 DEF Stream!StreamNext, Ends
    <3> QED
      BY <3>8, <3>9
  <2>5. CASE \/ pipewrite_sleep(p) \/ piperead_sleep(p)
             \/ \E n \in IOSizes : sys_write(p, n) \/ sys_read(p, n)
             \/ \E e \in {"r", "w"} : fileclose(p, e)
    BY <1>1, <2>5 DEF pipewrite_sleep, piperead_sleep, sys_write, sys_read, fileclose
  <2> QED
    BY <1>2, <2>1, <2>2, <2>3, <2>4, <2>5 DEF PipeStep
<1>3. Goal
  BY <1>1, <1>2, Frames DEF PipeAside
<1> QED
  BY <1>3 DEF Stream!streamVars, Open

\* The pipe implements a byte stream: for any number of processes, any PIPESIZE and any width of the
\* counters, bytes come out in the order they went in, none lost, doubled or made up, and
\* only while the ends allow it.
THEOREM PipeImplementsStream == Spec => ImplementsStream
<1>1. ASSUME Init PROVE Stream!StreamInit
  <2>1. pipe.nread = 0 /\ pipe.nwrite = 0 /\ sent = 0 /\ (pipe.readopen <=> pipe.writeopen)
    <3>1. CASE load = "pipe"
      <4>1. pipe = [NoPipe EXCEPT !.used = TRUE, !.readopen = TRUE, !.writeopen = TRUE] /\ sent = 0
        BY <1>1, <3>1 DEF Init
      <4> QED
        BY <4>1 DEF NoPipe
    <3>2. CASE load # "pipe"
      <4>1. pipe = NoPipe /\ sent = 0
        BY <1>1, <3>2 DEF Init, PipeInit
      <4> QED
        BY <4>1 DEF NoPipe
    <3> QED
      BY <3>1, <3>2
  <2>2. PipeType
    BY <1>1, InitTypes DEF Types
  <2>3. Count = 0
    BY <2>1, SlotFacts DEF Count
  <2>4. Ring(Count) = <<>>
    BY <2>2, <2>3, EmptyRing
  <2>5. Open \in {{}, {"r", "w"}}
    BY <2>1 DEF Open
  <2> QED
    BY <2>1, <2>4, <2>5 DEF Stream!StreamInit, Open
<1>2. Types /\ Types' /\ PipeInv /\ EndsInv /\ [Next]_vars => [Stream!StreamNext]_(Stream!streamVars)
  BY StreamStep
<1> QED
  BY <1>1, <1>2, TypesInvariant, PipeInvariant, EndsInvariant, PTL
  DEF Spec, ImplementsStream, Stream!StreamSpec

-----------------------------------------------------------------------------
(* Memory                                                                  *)

\* What a slot of the table owns.  An unused one owns nothing, a process has a kernel stack
\* and an address space with no page at or above its size; allocuvm(), exec() and copyuvm()
\* have mapped nothing beyond the page they have come to, and nobody else sees their work.
MemInv(p) ==
    /\ state[p] = "UNUSED" => p \notin kstack /\ vm[p] = NoSpace
    /\ pc[p] # "exec" => spare[p] = NoSpace
    /\ Live(p) => p \in kstack /\ vm[p].dir
    /\ Live(p) /\ pc[p] # "allocuvm" => \A g \in Page : vm[p].pte[g] # "none" => g * PGSIZE < sz[p]
    /\ pc[p] = "allocuvm" =>
          /\ sz[p] <= loc[p].n /\ FirstPage(sz[p]) <= loc[p].i
          /\ \A g \in Page : g < loc[p].i => g * PGSIZE < loc[p].n
          /\ \A g \in Page : vm[p].pte[g] # "none" => g < loc[p].i
    /\ pc[p] = "exec" =>
          /\ spare[p].dir /\ loc[p].i <= ExecPages + 2
          /\ \A g \in Page : spare[p].pte[g] # "none" => g < loc[p].i
    /\ pc[p] = "fork_kstack" => loc[p].np \notin kstack /\ vm[loc[p].np] = NoSpace
    /\ pc[p] = "fork_setupkvm" => loc[p].np \in kstack /\ vm[loc[p].np] = NoSpace
    /\ pc[p] = "copyuvm" =>
          /\ loc[p].np \in kstack /\ vm[loc[p].np].dir
          /\ \A g \in Page : vm[loc[p].np].pte[g] # "none" => g < loc[p].i /\ g * PGSIZE < sz[p]
    /\ load = "memory" /\ pc[p] = "user" => loc[p].i = 0

-----------------------------------------------------------------------------
(* Sums over the process table                                             *)

\* A sum over a set of slots: an element, whichever, and the sum over the rest.  The books of
\* PagesAccounted are such a sum.
AnyOf(s) == CHOOSE x \in s : TRUE
Sum1(f, w, s) == IF s = {} THEN 0 ELSE w[AnyOf(s)] + f[s \ {AnyOf(s)}]
SumsUp(f, w) == f = [s \in SUBSET Slot |-> Sum1(f, w, s)]

\* Taking an element away makes a set smaller.
LEMMA OneLess ==
  ASSUME NEW s \in SUBSET Slot, s # {}
  PROVE  /\ AnyOf(s) \in s /\ AnyOf(s) \in Slot /\ s \ {AnyOf(s)} \in SUBSET Slot
         /\ Cardinality(s) \in Nat
         /\ Cardinality(s \ {AnyOf(s)}) \in Nat
         /\ Cardinality(s \ {AnyOf(s)}) < Cardinality(s)
<1>1. AnyOf(s) \in s
  BY DEF AnyOf
<1>2. IsFiniteSet(s)
  BY SlotFacts, FS_Subset
<1>3. Cardinality(s) \in Nat
  BY <1>2, FS_CardinalityType
<1>4. Cardinality(s \ {AnyOf(s)}) = Cardinality(s) - 1 /\ IsFiniteSet(s \ {AnyOf(s)})
  BY <1>1, <1>2, FS_RemoveElement
<1>5. Cardinality(s \ {AnyOf(s)}) \in Nat
  BY <1>4, FS_CardinalityType
<1> QED
  BY <1>1, <1>3, <1>4, <1>5

\* Every table of numbers has a sum.
LEMMA SumExists ==
  ASSUME NEW w \in [Slot -> Nat]
  PROVE  \E f \in [SUBSET Slot -> Nat] : SumsUp(f, w)
<1> DEFINE Upto(f, n) == \A s \in SUBSET Slot : Cardinality(s) <= n => f[s] = Sum1(f, w, s)
           Good(n) == \E f \in [SUBSET Slot -> Nat] : Upto(f, n)
           Bad == {n \in Nat : ~ Good(n)}
<1>1. \A s \in SUBSET Slot : Cardinality(s) \in Nat /\ Cardinality(s) <= NPROC
  <2> SUFFICES ASSUME NEW s \in SUBSET Slot
               PROVE  Cardinality(s) \in Nat /\ Cardinality(s) <= NPROC
    OBVIOUS
  <2>1. IsFiniteSet(s) /\ Cardinality(s) <= Cardinality(Slot)
    BY SlotFacts, FS_Subset
  <2>2. Cardinality(Slot) = NPROC
    BY SlotFacts, FS_Interval DEF Slot
  <2> QED
    BY <2>1, <2>2, FS_CardinalityType
<1>2. Good(0)
  <2> DEFINE z == [s \in SUBSET Slot |-> 0]
  <2>1. z \in [SUBSET Slot -> Nat]
    OBVIOUS
  <2>2. ASSUME NEW s \in SUBSET Slot, Cardinality(s) <= 0
        PROVE  z[s] = Sum1(z, w, s)
    <3>1. ASSUME s # {}
          PROVE  FALSE
      <4>1. /\ Cardinality(s) \in Nat /\ Cardinality(s \ {AnyOf(s)}) \in Nat
            /\ Cardinality(s \ {AnyOf(s)}) < Cardinality(s)
        BY <3>1, OneLess
      <4> QED
        BY <2>2, <4>1
    <3> QED
      BY <3>1 DEF Sum1
  <2> QED
    BY <2>1, <2>2
<1>3. ASSUME NEW n \in Nat, Good(n)
      PROVE  Good(n + 1)
  <2>1. PICK f \in [SUBSET Slot -> Nat] : Upto(f, n)
    BY <1>3
  <2> DEFINE h == [s \in SUBSET Slot |-> IF Cardinality(s) = n + 1 THEN Sum1(f, w, s) ELSE f[s]]
  <2>2. \A s \in SUBSET Slot : Sum1(f, w, s) \in Nat
    <3> SUFFICES ASSUME NEW s \in SUBSET Slot
                 PROVE  Sum1(f, w, s) \in Nat
      OBVIOUS
    <3>1. CASE s = {}
      BY <3>1 DEF Sum1
    <3>2. CASE s # {}
      <4>1. w[AnyOf(s)] \in Nat /\ f[s \ {AnyOf(s)}] \in Nat
        BY <3>2, OneLess
      <4> QED
        BY <3>2, <4>1 DEF Sum1
    <3> QED
      BY <3>1, <3>2
  <2>3. h \in [SUBSET Slot -> Nat]
    BY <2>2
  <2>4. ASSUME NEW s \in SUBSET Slot, Cardinality(s) <= n + 1
        PROVE  h[s] = Sum1(h, w, s)
    <3>1. CASE s = {}
      <4>1. Cardinality(s) = 0
        BY <3>1, FS_EmptySet
      <4>2. h[s] = f[s] /\ f[s] = Sum1(f, w, s)
        BY <2>1, <4>1
      <4> QED
        BY <3>1, <4>2 DEF Sum1
    <3>2. CASE s # {}
      <4> DEFINE t == s \ {AnyOf(s)}
      <4>1. t \in SUBSET Slot /\ Cardinality(t) \in Nat /\ Cardinality(t) < n + 1 /\ Cardinality(t) # n + 1
        BY <1>1, <2>4, <3>2, OneLess
      <4>2. h[t] = f[t]
        <5> HIDE DEF t
        <5> QED
          BY <4>1
      <4>3. Sum1(h, w, s) = Sum1(f, w, s)
        <5> HIDE DEF h
        <5> QED
          BY <3>2, <4>2 DEF Sum1
      <4>4. h[s] = Sum1(f, w, s)
        <5>1. CASE Cardinality(s) = n + 1
          BY <5>1
        <5>2. CASE Cardinality(s) # n + 1
          <6>1. Cardinality(s) <= n
            BY <1>1, <2>4, <5>2
          <6> QED
            BY <2>1, <5>2, <6>1
        <5> QED
          BY <5>1, <5>2
      <4> QED
        BY <4>3, <4>4
    <3> QED
      BY <3>1, <3>2
  <2> QED
    <3> HIDE DEF h
    <3> QED
      BY <2>3, <2>4
<1> HIDE DEF Good
<1>4. Bad = {}
  <2> SUFFICES ASSUME Bad # {}
               PROVE  FALSE
    OBVIOUS
  <2>1. Bad \in SUBSET Nat
    OBVIOUS
  <2> DEFINE m == Min(Bad)
  <2>2. m \in Bad /\ \A y \in Bad : m <= y
    <3> HIDE DEF Bad
    <3> QED
      BY <2>1, MinIs
  <2> HIDE DEF m
  <2>3. m \in Nat /\ ~ Good(m)
    BY <2>2
  <2>4. m # 0
    BY <1>2, <2>3
  <2>5. m - 1 \in Nat /\ Good(m - 1)
    BY <2>2, <2>3, <2>4
  <2>6. Good((m - 1) + 1)
    BY <1>3, <2>5
  <2>7. (m - 1) + 1 = m
    BY <2>3
  <2> QED
    BY <2>3, <2>6, <2>7
<1>5. Good(NPROC)
  BY <1>4, SlotFacts
<1>6. PICK f \in [SUBSET Slot -> Nat] : Upto(f, NPROC)
  BY <1>5 DEF Good
<1>7. \A s \in SUBSET Slot : f[s] = Sum1(f, w, s)
  BY <1>1, <1>6
<1> QED
  BY <1>7 DEF SumsUp

\* When one number changes, the sum changes as much.
LEMMA SumChanges ==
  ASSUME NEW w \in [Slot -> Nat], NEW v \in [Slot -> Nat], NEW p \in Slot,
         \A q \in Slot : q # p => v[q] = w[q],
         NEW f, SumsUp(f, w), NEW g, SumsUp(g, v)
  PROVE  f[Slot] \in Nat /\ g[Slot] \in Nat /\ g[Slot] + w[p] = f[Slot] + v[p]
<1> DEFINE a(s) == IF p \in s THEN w[p] ELSE 0
           b(s) == IF p \in s THEN v[p] ELSE 0
           P(s) == f[s] \in Nat /\ g[s] \in Nat /\ g[s] + a(s) = f[s] + b(s)
           Bad == {s \in SUBSET Slot : ~ P(s)}
           Sizes == {Cardinality(s) : s \in Bad}
<1>1. \A s \in SUBSET Slot : f[s] = Sum1(f, w, s) /\ g[s] = Sum1(g, v, s)
  <2> DEFINE F(s) == Sum1(f, w, s)
             G(s) == Sum1(g, v, s)
  <2>1. f = [s \in SUBSET Slot |-> F(s)] /\ g = [s \in SUBSET Slot |-> G(s)]
    BY DEF SumsUp
  <2> HIDE DEF F, G
  <2>2. \A s \in SUBSET Slot : f[s] = F(s) /\ g[s] = G(s)
    BY <2>1
  <2> QED
    BY <2>2 DEF F, G
<1>2. ASSUME NEW s \in SUBSET Slot, s # {}, P(s \ {AnyOf(s)})
      PROVE  P(s)
  <2> DEFINE x == AnyOf(s)
             t == s \ {x}
  <2>1. x \in s /\ x \in Slot
    BY <1>2, OneLess
  <2>2. f[s] = w[x] + f[t] /\ g[s] = v[x] + g[t]
    BY <1>1, <1>2 DEF Sum1
  <2>3. P(t)
    BY <1>2
  <2>4. w[x] \in Nat /\ v[x] \in Nat /\ w[p] \in Nat /\ v[p] \in Nat
    BY <2>1
  <2>5. f[s] \in Nat /\ g[s] \in Nat
    BY <2>2, <2>3, <2>4
  <2>6. CASE x = p
    <3>1. a(s) = w[p] /\ b(s) = v[p] /\ a(t) = 0 /\ b(t) = 0
      BY <2>1, <2>6
    <3> HIDE DEF a, b, x, t
    <3> QED
      BY <2>2, <2>3, <2>4, <2>5, <2>6, <3>1
  <2>7. CASE x # p
    <3>1. a(s) = a(t) /\ b(s) = b(t) /\ v[x] = w[x]
      BY <2>1, <2>7
    <3>2. a(s) \in Nat /\ b(s) \in Nat
      BY <2>4
    <3> HIDE DEF a, b, x, t
    <3> QED
      BY <2>2, <2>3, <2>4, <2>5, <3>1, <3>2
  <2> QED
    BY <2>6, <2>7
<1>3. P({})
  <2>1. f[{}] = 0 /\ g[{}] = 0
    BY <1>1 DEF Sum1
  <2>2. a({}) = 0 /\ b({}) = 0
    OBVIOUS
  <2> HIDE DEF a, b
  <2> QED
    BY <2>1, <2>2
<1> HIDE DEF P
<1>4. Bad = {}
  <2> SUFFICES ASSUME Bad # {}
               PROVE  FALSE
    OBVIOUS
  <2>1. Sizes \in SUBSET Nat /\ Sizes # {}
    <3>1. \A s \in SUBSET Slot : Cardinality(s) \in Nat
      BY SlotFacts, FS_Subset, FS_CardinalityType
    <3> QED
      BY <3>1
  <2> DEFINE m == Min(Sizes)
  <2>2. m \in Sizes /\ \A y \in Sizes : m <= y
    <3> HIDE DEF Sizes
    <3> QED
      BY <2>1, MinIs
  <2> HIDE DEF m
  <2>3. PICK s \in Bad : m = Cardinality(s)
    BY <2>2
  <2>4. s \in SUBSET Slot /\ ~ P(s) /\ s # {}
    BY <1>3, <2>3
  <2> DEFINE t == s \ {AnyOf(s)}
  <2>5. t \in SUBSET Slot /\ Cardinality(t) \in Nat /\ Cardinality(s) \in Nat /\ Cardinality(t) < Cardinality(s)
    BY <2>4, OneLess
  <2>6. ~ P(t)
    BY <1>2, <2>4
  <2>7. Cardinality(t) \in Sizes
    <3> HIDE DEF t
    <3> QED
      BY <2>5, <2>6
  <2> HIDE DEF t, Sizes
  <2> QED
    BY <2>2, <2>3, <2>5, <2>7
<1>5. P(Slot)
  BY <1>4
<1> QED
  BY <1>5 DEF P

\* The pages of all address spaces, as PagesAccounted adds them up.
Total == MapThenSumSet(LAMBDA p : Pages(vm[p]) + Pages(spare[p]), Slot)

\* The total of PagesAccounted is the sum of any function that adds up the slots one by one.
LEMMA TotalIs ==
  ASSUME NEW w \in [Slot -> Nat], \A p \in Slot : w[p] = Pages(vm[p]) + Pages(spare[p])
  PROVE  \E f : SumsUp(f, w) /\ Total = f[Slot]
<1> DEFINE e(p) == Pages(vm[p]) + Pages(spare[p])
           Body(f) == [s \in SUBSET Slot |->
                         IF s = {} THEN 0 ELSE e(AnyOf(s)) + f[s \ {AnyOf(s)}]]
           iter == CHOOSE f : f = Body(f)
<1>1. Total = iter[Slot]
  BY DEF Total, MapThenSumSet, MapThenFoldSet, AnyOf
<1>2. \A f : Body(f) = [s \in SUBSET Slot |-> Sum1(f, w, s)]
  <2> SUFFICES ASSUME NEW f
               PROVE  Body(f) = [s \in SUBSET Slot |-> Sum1(f, w, s)]
    OBVIOUS
  <2>1. \A s \in SUBSET Slot :
          (IF s = {} THEN 0 ELSE e(AnyOf(s)) + f[s \ {AnyOf(s)}]) = Sum1(f, w, s)
    BY OneLess DEF Sum1
  <2> QED
    BY <2>1
<1> HIDE DEF e, Body
<1>3. \E f : f = Body(f)
  BY <1>2, SumExists DEF SumsUp
<1>4. iter = Body(iter)
  BY <1>3
<1> QED
  BY <1>1, <1>2, <1>4 DEF SumsUp

-----------------------------------------------------------------------------
(* The pages of an address space                                           *)

\* What an address space costs: its pages, and its directory.
Mapped(s) == {g \in Page : IsMapped(s, g)}
DirPages(s) == IF s.dir THEN KVM ELSE 0

\* The quotient of two numbers is a number no larger than the first.
LEMMA DivSmaller ==
  ASSUME NEW a \in Nat, NEW n \in Nat \ {0}
  PROVE  a \div n \in 0..a
<1> DEFINE q == a \div n
           r == a % n
<1>1. q \in Int /\ r \in 0..(n - 1) /\ a = n * q + r
  BY ModDiv
<1> HIDE DEF q, r
<1>2. ASSUME q < 0
      PROVE  FALSE
  <2>1. n * q <= n * (-1)
    BY <1>1, <1>2
  <2> QED
    BY <1>1, <2>1
<1>3. n * q >= 1 * q
  BY <1>1, <1>2
<1> QED
  BY <1>1, <1>2, <1>3 DEF q

\* Address spaces are finite.
LEMMA PagesIs ==
  ASSUME NEW s \in Space
  PROVE  /\ IsFiniteSet(s.pt) /\ Cardinality(s.pt) \in Nat
         /\ IsFiniteSet(Mapped(s)) /\ Cardinality(Mapped(s)) \in Nat
         /\ DirPages(s) \in Nat
         /\ Pages(s) = DirPages(s) + Cardinality(s.pt) + Cardinality(Mapped(s))
         /\ Pages(s) \in Nat
<1>1. \A g \in Page : Region(g) \in 0..(MAXPG - 1)
  <2> SUFFICES ASSUME NEW g \in Page
               PROVE  Region(g) \in 0..(MAXPG - 1)
    OBVIOUS
  <2>1. g \in Nat /\ g <= MAXPG - 1 /\ MAXPG \in Nat \ {0}
    BY MemFacts DEF Page
  <2>2. g \div PTSPAN \in 0..g
    BY <2>1, MemoryAssumption, DivSmaller
  <2> QED
    BY <2>1, <2>2 DEF Region
<1>2. s.pt \subseteq 0..(MAXPG - 1)
  BY <1>1 DEF Space
<1>3. IsFiniteSet(0..(MAXPG - 1))
  BY MemFacts, FS_Interval
<1>4. IsFiniteSet(s.pt) /\ IsFiniteSet(Mapped(s))
  <2>1. Mapped(s) \subseteq Page
    BY DEF Mapped
  <2> QED
    BY <1>2, <1>3, <2>1, MemFacts, FS_Subset
<1>5. Cardinality(s.pt) \in Nat /\ Cardinality(Mapped(s)) \in Nat
  BY <1>4, FS_CardinalityType
<1>6. DirPages(s) \in Nat
  BY MemFacts DEF DirPages
<1>7. Pages(s) = DirPages(s) + Cardinality(s.pt) + Cardinality(Mapped(s))
  BY DEF Pages, Mapped, DirPages
<1> QED
  BY <1>4, <1>5, <1>6, <1>7

\* setupkvm() takes KVM pages.
LEMMA FreshPages ==
  /\ Pages(NoSpace) = 0
  /\ Pages(setupkvm) = KVM /\ setupkvm.dir
  /\ \A g \in Page : NoSpace.pte[g] = "none" /\ setupkvm.pte[g] = "none"
<1>1. setupkvm = [dir |-> TRUE, pt |-> {}, pte |-> [g \in Page |-> "none"]]
  <2> DEFINE z == [g \in Page |-> "none"]
  <2>1. NoSpace = [dir |-> FALSE, pt |-> {}, pte |-> z]
    BY DEF NoSpace
  <2>2. NoSpace \in Space /\ NoSpace.pt = {} /\ NoSpace.pte = z
    BY <2>1, SpaceFacts
  <2>3. setupkvm = [NoSpace EXCEPT !.dir = TRUE]
    BY DEF setupkvm
  <2> HIDE DEF z
  <2>4. setupkvm = [dir |-> TRUE, pt |-> NoSpace.pt, pte |-> NoSpace.pte]
    BY <2>2, <2>3 DEF Space
  <2> QED
    BY <2>2, <2>4 DEF z
<1>2. Mapped(NoSpace) = {} /\ Mapped(setupkvm) = {}
  BY <1>1 DEF NoSpace, Mapped, IsMapped
<1>3. NoSpace.pt = {} /\ setupkvm.pt = {} /\ NoSpace.dir = FALSE /\ setupkvm.dir = TRUE
  BY <1>1 DEF NoSpace
<1>4. Cardinality({}) = 0
  BY FS_EmptySet
<1>5. DirPages(NoSpace) = 0 /\ DirPages(setupkvm) = KVM
  BY <1>3 DEF DirPages
<1>6. NoSpace \in Space /\ setupkvm \in Space
  BY SpaceFacts
<1>7. Pages(NoSpace) = 0 /\ Pages(setupkvm) = KVM
  <2>1. \A s \in Space : Pages(s) = DirPages(s) + Cardinality(s.pt) + Cardinality(Mapped(s))
    BY PagesIs
  <2>2. /\ Pages(NoSpace) = DirPages(NoSpace) + Cardinality(NoSpace.pt) + Cardinality(Mapped(NoSpace))
        /\ Pages(setupkvm) = DirPages(setupkvm) + Cardinality(setupkvm.pt) + Cardinality(Mapped(setupkvm))
    BY <1>6, <2>1
  <2>3. Pages(NoSpace) = 0 + 0 + 0 /\ Pages(setupkvm) = KVM + 0 + 0
    BY <1>2, <1>3, <1>4, <1>5, <2>2
  <2> QED
    BY <2>3, MemFacts
<1>8. \A g \in Page : NoSpace.pte[g] = "none" /\ setupkvm.pte[g] = "none"
  BY <1>1 DEF NoSpace
<1> QED
  BY <1>3, <1>7, <1>8

\* Mapping an absent page takes the page, unless it is only reserved, and a page table
\* where there is none.
LEMMA MapPages ==
  ASSUME NEW s \in Space, NEW g \in Page, NEW v \in {"ssu", "present", "guard"}, s.pte[g] = "none"
  PROVE  /\ PtNeeded(s, g) \in {0, 1}
         /\ Map(s, g, v) \in Space /\ Map(s, g, v).dir = s.dir
         /\ Map(s, g, v).pte[g] = v
         /\ \A h \in Page : h # g => Map(s, g, v).pte[h] = s.pte[h]
         /\ Pages(Map(s, g, v)) = Pages(s) + PtNeeded(s, g) + (IF v = "ssu" THEN 0 ELSE 1)
<1> DEFINE t == Map(s, g, v)
           k == IF v = "ssu" THEN 0 ELSE 1
<1>1. t = [dir |-> s.dir, pt |-> s.pt \cup {Region(g)}, pte |-> [s.pte EXCEPT ![g] = v]]
  BY MapIs
<1>2. t \in Space
  BY SpaceFacts
<1>3. t.dir = s.dir /\ t.pt = s.pt \cup {Region(g)} /\ t.pte = [s.pte EXCEPT ![g] = v]
  BY <1>1
<1> HIDE DEF t
<1>4. s.pte \in [Page -> {"none", "ssu", "present", "guard"}]
  BY DEF Space
<1>5. t.pte[g] = v /\ \A h \in Page : h # g => t.pte[h] = s.pte[h]
  BY <1>3, <1>4
<1>6. DirPages(t) = DirPages(s)
  BY <1>3 DEF DirPages
<1>7. Cardinality(t.pt) = Cardinality(s.pt) + PtNeeded(s, g)
  <2>1. IsFiniteSet(s.pt) /\ Cardinality(s.pt) \in Nat
    BY PagesIs
  <2>2. Cardinality(s.pt \cup {Region(g)}) = IF Region(g) \in s.pt THEN Cardinality(s.pt) ELSE Cardinality(s.pt) + 1
    BY <2>1, FS_AddElement
  <2> QED
    BY <1>3, <2>1, <2>2 DEF PtNeeded
<1>8. Cardinality(Mapped(t)) = Cardinality(Mapped(s)) + k
  <2>1. IsFiniteSet(Mapped(s)) /\ Cardinality(Mapped(s)) \in Nat
    BY PagesIs
  <2>2. g \notin Mapped(s)
    BY DEF Mapped, IsMapped
  <2>3. CASE v = "ssu"
    <3>1. Mapped(t) = Mapped(s)
      BY <1>5, <2>3 DEF Mapped, IsMapped
    <3> QED
      BY <2>1, <2>3, <3>1
  <2>4. CASE v # "ssu"
    <3>1. v \in {"present", "guard"}
      BY <2>4
    <3>2. Mapped(t) = Mapped(s) \cup {g}
      BY <1>5, <3>1 DEF Mapped, IsMapped
    <3>3. Cardinality(Mapped(s) \cup {g}) = Cardinality(Mapped(s)) + 1
      BY <2>1, <2>2, FS_AddElement
    <3> QED
      BY <2>4, <3>2, <3>3
  <2> QED
    BY <2>3, <2>4
<1>9. PtNeeded(s, g) \in {0, 1} /\ k \in {0, 1}
  BY DEF PtNeeded
<1> HIDE DEF k
<1>10. Pages(t) = Pages(s) + PtNeeded(s, g) + k
  <2>1. Pages(s) = DirPages(s) + Cardinality(s.pt) + Cardinality(Mapped(s))
    BY PagesIs
  <2>2. Pages(t) = DirPages(t) + Cardinality(t.pt) + Cardinality(Mapped(t))
    BY <1>2, PagesIs
  <2>3. DirPages(s) \in Nat /\ Cardinality(s.pt) \in Nat /\ Cardinality(Mapped(s)) \in Nat
    BY PagesIs
  <2> QED
    BY <1>6, <1>7, <1>8, <1>9, <2>1, <2>2, <2>3
<1> QED
  BY <1>2, <1>3, <1>5, <1>9, <1>10 DEF t, k

\* deallocuvm() gives back pages, never tables, and no page that it leaves is at or above the
\* new size unless it was above the old one.
LEMMA DeallocPages ==
  ASSUME NEW s \in Space, NEW old \in Nat, NEW new \in Nat
  PROVE  /\ deallocuvm(s, old, new) \in Space /\ deallocuvm(s, old, new).dir = s.dir
         /\ \A g \in Page : deallocuvm(s, old, new).pte[g] =
                               IF g >= FirstPage(new) /\ g * PGSIZE < old THEN "none" ELSE s.pte[g]
         /\ Pages(deallocuvm(s, old, new)) <= Pages(s)
<1> DEFINE t == deallocuvm(s, old, new)
           f == [g \in Page |-> IF g >= FirstPage(new) /\ g * PGSIZE < old THEN "none" ELSE s.pte[g]]
<1>1. t \in Space
  BY SpaceFacts
<1>2. t = [s EXCEPT !.pte = f]
  BY DEF deallocuvm
<1>3. \A g \in Page : f[g] = IF g >= FirstPage(new) /\ g * PGSIZE < old THEN "none" ELSE s.pte[g]
  OBVIOUS
<1> HIDE DEF f, t
<1>4. t.dir = s.dir /\ t.pt = s.pt /\ t.pte = f
  BY <1>2 DEF Space
<1>5. Mapped(t) \subseteq Mapped(s)
  BY <1>3, <1>4 DEF Mapped, IsMapped
<1>6. Cardinality(Mapped(t)) <= Cardinality(Mapped(s))
  BY <1>5, PagesIs, FS_Subset
<1>7. DirPages(t) = DirPages(s) /\ DirPages(s) \in Nat
  BY <1>4, PagesIs DEF DirPages
<1>8. Pages(t) <= Pages(s)
  <2>1. Pages(s) = DirPages(s) + Cardinality(s.pt) + Cardinality(Mapped(s))
    BY PagesIs
  <2>2. Pages(t) = DirPages(t) + Cardinality(t.pt) + Cardinality(Mapped(t))
    BY <1>1, PagesIs
  <2>3. Cardinality(s.pt) \in Nat /\ Cardinality(Mapped(s)) \in Nat /\ Cardinality(Mapped(t)) \in Nat
    BY <1>1, PagesIs
  <2> QED
    BY <1>4, <1>6, <1>7, <2>1, <2>2, <2>3
<1> QED
  BY <1>1, <1>3, <1>4, <1>8 DEF t

\* A reserved page that is touched takes one page.
LEMMA TouchPages ==
  ASSUME NEW s \in Space, NEW g \in Page, s.pte[g] = "ssu", NEW t, t = [s EXCEPT !.pte[g] = "present"]
  PROVE  /\ t.dir = s.dir /\ Pages(t) = Pages(s) + 1
         /\ \A h \in Page : t.pte[h] # "none" => s.pte[h] # "none"
<1> DEFINE f == [s.pte EXCEPT ![g] = "present"]
<1>1. s.pte \in [Page -> {"none", "ssu", "present", "guard"}]
  BY DEF Space
<1>2. f \in [Page -> {"none", "ssu", "present", "guard"}]
      /\ f[g] = "present" /\ \A h \in Page : h # g => f[h] = s.pte[h]
  BY <1>1
<1>3. t = [s EXCEPT !.pte = f]
  OBVIOUS
<1> HIDE DEF f
<1>4. t \in Space /\ t.dir = s.dir /\ t.pt = s.pt /\ t.pte = f
  BY <1>2, <1>3 DEF Space
<1>5. IsFiniteSet(Mapped(s)) /\ g \notin Mapped(s)
  BY PagesIs DEF Mapped, IsMapped
<1>6. Mapped(t) = Mapped(s) \cup {g}
  BY <1>2, <1>4 DEF Mapped, IsMapped
<1>7. Cardinality(Mapped(t)) = Cardinality(Mapped(s)) + 1
  BY <1>5, <1>6, FS_AddElement
<1>8. DirPages(t) = DirPages(s) /\ DirPages(s) \in Nat
  BY <1>4, PagesIs DEF DirPages
<1>9. Pages(t) = Pages(s) + 1
  <2>1. Pages(s) = DirPages(s) + Cardinality(s.pt) + Cardinality(Mapped(s))
    BY PagesIs
  <2>2. Pages(t) = DirPages(t) + Cardinality(t.pt) + Cardinality(Mapped(t))
    BY <1>4, PagesIs
  <2>3. Cardinality(s.pt) \in Nat /\ Cardinality(Mapped(s)) \in Nat
    BY PagesIs
  <2> QED
    BY <1>4, <1>7, <1>8, <2>1, <2>2, <2>3
<1>10. \A h \in Page : t.pte[h] # "none" => s.pte[h] # "none"
  <2> SUFFICES ASSUME NEW h \in Page, t.pte[h] # "none"
               PROVE  s.pte[h] # "none"
    OBVIOUS
  <2>1. CASE h = g
    BY <2>1
  <2>2. CASE h # g
    BY <1>2, <1>4, <2>2
  <2> QED
    BY <2>1, <2>2
<1> QED
  BY <1>4, <1>9, <1>10

\* The page tables that ssualloc() gets before memory runs out are no more than there are
\* free pages.
LEMMA GotTables ==
  ASSUME NEW n \in Nat, NEW b \in Nat, NEW T \in SUBSET (0..b),
         NEW got, got = {r \in T : Cardinality({t \in T : t < r}) < n}
  PROVE  Cardinality(got) \in Nat /\ Cardinality(got) <= n
<1>1. IsFiniteSet(T) /\ got \in SUBSET T /\ got \in SUBSET (0..b)
  <2>1. IsFiniteSet(0..b)
    BY FS_Interval
  <2> QED
    BY <2>1, FS_Subset
<1>2. IsFiniteSet(got) /\ Cardinality(got) \in Nat
  BY <1>1, FS_Subset, FS_CardinalityType
<1>3. CASE got = {}
  <2>1. Cardinality(got) = 0
    BY <1>3, FS_EmptySet
  <2> QED
    BY <2>1
<1>4. CASE got # {}
  <2> DEFINE m == Max(got)
             L == {t \in T : t < m}
  <2>1. m \in got /\ \A y \in got : y <= m
    BY <1>1, <1>4, MaxIs
  <2>2. Cardinality(L) < n /\ m \in 0..b
    BY <1>1, <2>1
  <2> HIDE DEF m
  <2>3. got \ {m} \subseteq L
    BY <1>1, <2>1, <2>2
  <2>4. IsFiniteSet(L)
    BY <1>1, FS_Subset
  <2>5. Cardinality(got \ {m}) <= Cardinality(L) /\ Cardinality(L) \in Nat
    BY <2>3, <2>4, FS_Subset, FS_CardinalityType
  <2>6. Cardinality(got \ {m}) = Cardinality(got) - 1
    BY <1>2, <2>1, FS_RemoveElement
  <2> HIDE DEF L
  <2> QED
    BY <1>2, <2>2, <2>5, <2>6
<1> QED
  BY <1>2, <1>3, <1>4

-----------------------------------------------------------------------------
(* What a step has to account for                                          *)

\* The total as a fact that can be primed.
LEMMA TotalAll ==
  \A u \in [Slot -> Nat] : (\A r \in Slot : u[r] = Pages(vm[r]) + Pages(spare[r]))
                            => \E f : SumsUp(f, u) /\ Total = f[Slot]
  BY TotalIs

\* Where the address spaces of one slot change, the total changes as much.
LEMMA Account ==
  ASSUME MemType, MemType', NEW q \in Slot,
         \A r \in Slot : r # q => vm'[r] = vm[r] /\ spare'[r] = spare[r]
  PROVE  /\ Total \in Nat /\ Total' \in Nat
         /\ Total' + (Pages(vm[q]) + Pages(spare[q])) = Total + (Pages(vm'[q]) + Pages(spare'[q]))
<1> DEFINE w == [r \in Slot |-> Pages(vm[r]) + Pages(spare[r])]
           v == [r \in Slot |-> Pages(vm'[r]) + Pages(spare'[r])]
<1>1. \A r \in Slot : /\ vm[r] \in Space /\ spare[r] \in Space
                      /\ vm'[r] \in Space /\ spare'[r] \in Space
  BY DEF MemType
<1>2. \A r \in Slot : /\ Pages(vm[r]) \in Nat /\ Pages(spare[r]) \in Nat
                      /\ Pages(vm'[r]) \in Nat /\ Pages(spare'[r]) \in Nat
  BY <1>1, PagesIs
<1>3. w \in [Slot -> Nat] /\ \A r \in Slot : w[r] = Pages(vm[r]) + Pages(spare[r])
  BY <1>2
<1>4. v \in [Slot -> Nat] /\ \A r \in Slot : v[r] = Pages(vm'[r]) + Pages(spare'[r])
  BY <1>2
<1>5. \A r \in Slot : r # q => v[r] = w[r]
  OBVIOUS
<1>6. \A u \in [Slot -> Nat] : (\A r \in Slot : u[r] = Pages(vm[r]) + Pages(spare[r]))
                                 => \E f : SumsUp(f, u) /\ Total = f[Slot]
  BY TotalAll
<1>7. (\A u \in [Slot -> Nat] : (\A r \in Slot : u[r] = Pages(vm[r]) + Pages(spare[r]))
                                 => \E f : SumsUp(f, u) /\ Total = f[Slot])'
  BY TotalAll, PTL
<1> HIDE DEF w, v
<1>8. PICK f : SumsUp(f, w) /\ Total = f[Slot]
  BY <1>3, <1>6
<1>9. PICK g : SumsUp(g, v) /\ Total' = g[Slot]
  <2>1. \E g : SumsUp(g, v) /\ Total' = g[Slot]
    BY <1>4, <1>7
  <2> QED
    BY <2>1
<1>10. /\ f[Slot] \in Nat /\ g[Slot] \in Nat
       /\ g[Slot] + w[q] = f[Slot] + v[q]
  BY <1>3, <1>4, <1>5, <1>8, <1>9, SumChanges
<1> QED
  BY <1>3, <1>4, <1>8, <1>9, <1>10

\* Every slot of the table.
AllMem == \A q \in Slot : MemInv(q)

\* A slot whose process and memory stay as they are, the child under construction too.
LEMMA MemSame ==
  ASSUME NEW q \in Slot, MemInv(q), load' = load,
         state'[q] = "UNUSED" => state[q] = "UNUSED", Live(q)' => Live(q),
         pc'[q] = pc[q], loc'[q] = loc[q],
         q \in kstack' <=> q \in kstack,
         vm'[q] = vm[q], sz'[q] = sz[q], spare'[q] = spare[q],
         pc[q] \in Forking => /\ loc[q].np \in kstack' <=> loc[q].np \in kstack
                              /\ vm'[loc[q].np] = vm[loc[q].np]
  PROVE  MemInv(q)'
<1>1. /\ ((state[q] = "UNUSED")' => state[q] = "UNUSED") /\ (Live(q)' => Live(q))
      /\ pc[q]' = pc[q] /\ loc[q]' = loc[q] /\ vm[q]' = vm[q] /\ sz[q]' = sz[q] /\ spare[q]' = spare[q]
  OBVIOUS
<1>2. CASE pc[q] \in Forking
  <2>1. PICK n : n = loc[q].np
    OBVIOUS
  <2>2. n \in kstack' <=> n \in kstack
    BY <1>2, <2>1
  <2>3. vm'[n] = vm[n]
    BY <1>2, <2>1
  <2> QED
    BY <2>1, <2>2, <2>3 DEF MemInv
<1>3. CASE pc[q] \notin Forking
  BY <1>3 DEF MemInv, Forking
<1> QED
  BY <1>2, <1>3

\* A process outside fork(), exec() and allocuvm().
LEMMA MemOutside ==
  ASSUME NEW q \in Slot, MemInv(q), load' = load,
         state'[q] = "UNUSED" => state[q] = "UNUSED", Live(q)' => Live(q),
         pc[q] \notin InMemory, pc'[q] \notin InMemory,
         load = "memory" /\ pc'[q] = "user" => loc'[q].i = 0,
         q \in kstack' <=> q \in kstack,
         vm'[q] = vm[q], sz'[q] = sz[q], spare'[q] = spare[q]
  PROVE  MemInv(q)'
  BY DEF MemInv, InMemory, Forking

\* A step that leaves all memory alone.
LEMMA MemAside ==
  ASSUME AllMem, load' = load, UNCHANGED <<kstack, vm, sz, spare>>,
         \A q \in Slot : (state'[q] = "UNUSED" => state[q] = "UNUSED") /\ (Live(q)' => Live(q)),
         \A q \in Slot : \/ pc'[q] = pc[q] /\ loc'[q] = loc[q]
                         \/ /\ pc[q] \notin InMemory /\ pc'[q] \notin InMemory
                            /\ load = "memory" /\ pc'[q] = "user" => loc'[q].i = 0
  PROVE  AllMem'
<1> SUFFICES ASSUME NEW q \in Slot
             PROVE  MemInv(q)'
  BY DEF AllMem
<1>1. MemInv(q) /\ (state'[q] = "UNUSED" => state[q] = "UNUSED") /\ (Live(q)' => Live(q))
  BY DEF AllMem
<1>2. CASE pc'[q] = pc[q] /\ loc'[q] = loc[q]
  BY <1>1, <1>2, MemSame
<1>3. CASE /\ pc[q] \notin InMemory /\ pc'[q] \notin InMemory
           /\ load = "memory" /\ pc'[q] = "user" => loc'[q].i = 0
  BY <1>1, <1>3, MemOutside
<1> QED
  BY <1>2, <1>3

\* A step of the pipe, the console, the clock or the disk.
LEMMA ForeignMem ==
  ASSUME TableType, AllMem, load' = load, load # "memory", UNCHANGED <<kstack, vm, sz, spare>>,
         NEW L, NEW K, Foreign(L, K), L \cap InMemory = {}
  PROVE  AllMem'
<1>1. \A q \in Slot : state'[q] = state[q] \/ (state[q] \in Alive /\ state'[q] \in Alive)
  BY DEF Foreign, StateStep
<1>2. \A q \in Slot : (state'[q] = "UNUSED" => state[q] = "UNUSED") /\ (Live(q)' => Live(q))
  BY <1>1 DEF Live, Alive
<1>3. Moves(L)
  BY DEF Foreign, PcStep
<1>4. \A q \in Slot : \/ pc'[q] = pc[q] /\ loc'[q] = loc[q]
                      \/ /\ pc[q] \notin InMemory /\ pc'[q] \notin InMemory
                         /\ load = "memory" /\ pc'[q] = "user" => loc'[q].i = 0
  BY <1>3 DEF Moves
<1> QED
  BY <1>2, <1>4, MemAside

\* The scheduler, yield(), kill() and exit(): a zombie keeps what it owns.
LEMMA ProcMem ==
  ASSUME TableInv, AllMem, load' = load, NEW p \in Slot, ProcStep(p)
  PROVE  AllMem'
<1>0. TableType
  BY DEF TableInv
<1>1. UNCHANGED <<kstack, vm, sz, spare>>
  BY DEF ProcStep, memVars
<1>2. \A q \in Slot : (state'[q] = "UNUSED" => state[q] = "UNUSED") /\ (Live(q)' => Live(q))
  <2>1. CASE yield(p) \/ scheduler(p)
    <3>1. \A q \in Slot : state'[q] = state[q] \/ (state[q] \in Alive /\ state'[q] \in Alive)
      BY <1>0, <2>1 DEF yield, scheduler, Running, TableType, Alive
    <3> QED
      BY <3>1 DEF Live, Alive
  <2>2. CASE trap_killed(p) \/ sys_exit(p) \/ exit_init(p)
    <3>1. state' = state
      BY <2>2 DEF trap_killed, sys_exit, exit_init, ptable
    <3> QED
      BY <3>1 DEF Live
  <2>3. CASE exit(p)
    <3> DEFINE woken == wakeup1(state, <<"wait", parent[p]>>)
               told == IF \E q \in Orphans(p) : state[q] = "ZOMBIE"
                       THEN wakeup1(woken, <<"wait", initproc>>) ELSE woken
    <3>1. state[p] = "RUNNING" /\ state' = [told EXCEPT ![p] = "ZOMBIE"]
      BY <2>3 DEF exit, Running
    <3>2. \A q \in Slot : woken[q] = state[q] \/ (state[q] = "SLEEPING" /\ woken[q] = "RUNNABLE")
      BY DEF wakeup1
    <3>3. \A q \in Slot : told[q] = state[q] \/ (state[q] = "SLEEPING" /\ told[q] = "RUNNABLE")
      <4> HIDE DEF woken
      <4>1. \A q \in Slot : \/ wakeup1(woken, <<"wait", initproc>>)[q] = woken[q]
                            \/ woken[q] = "SLEEPING" /\ wakeup1(woken, <<"wait", initproc>>)[q] = "RUNNABLE"
        BY DEF wakeup1
      <4>2. \A q \in Slot : told[q] = woken[q] \/ told[q] = wakeup1(woken, <<"wait", initproc>>)[q]
        OBVIOUS
      <4> HIDE DEF told
      <4> QED
        BY <3>2, <4>1, <4>2
    <3>4. told \in [Slot -> {told[q] : q \in Slot}]
      BY <1>0 DEF wakeup1
    <3> HIDE DEF told, woken
    <3>5. \A q \in Slot : state'[q] = IF q = p THEN "ZOMBIE" ELSE told[q]
      BY <3>1, <3>4
    <3>6. \A q \in Slot : \/ state'[q] = state[q]
                          \/ state[q] = "SLEEPING" /\ state'[q] = "RUNNABLE"
                          \/ state[q] = "RUNNING" /\ state'[q] = "ZOMBIE"
      BY <3>1, <3>3, <3>5
    <3> QED
      BY <3>6 DEF Live
  <2>4. CASE \E n \in Targets : kill(p, n)
    <3>1. PICK n \in Targets : kill(p, n)
      BY <2>4
    <3> DEFINE hits == {q \in Slot : pid[q] = n}
               q == Min(hits)
    <3>2. CASE hits = {}
      <4>1. state' = state
        BY <3>1, <3>2 DEF kill
      <4> QED
        BY <4>1 DEF Live
    <3>3. CASE hits # {}
      <4>1. q \in Slot
        BY <3>3, SlotFacts, MinIs
      <4>2. state' = [state EXCEPT ![q] = IF @ = "SLEEPING" THEN "RUNNABLE" ELSE @]
        BY <3>1, <3>3 DEF kill
      <4> HIDE DEF q
      <4>3. \A r \in Slot : state'[r] = state[r] \/ (state[r] = "SLEEPING" /\ state'[r] = "RUNNABLE")
        BY <1>0, <4>1, <4>2 DEF TableType
      <4> QED
        BY <4>3 DEF Live
    <3> QED
      BY <3>2, <3>3
  <2> QED
    BY <2>1, <2>2, <2>3, <2>4 DEF ProcStep
<1>3. \A q \in Slot : \/ pc'[q] = pc[q] /\ loc'[q] = loc[q]
                      \/ /\ pc[q] \notin InMemory /\ pc'[q] \notin InMemory
                         /\ load = "memory" /\ pc'[q] = "user" => loc'[q].i = 0
  <2>1. ASSUME UNCHANGED <<pc, loc>>
        PROVE  \A q \in Slot : pc'[q] = pc[q] /\ loc'[q] = loc[q]
    BY <2>1
  <2>2. ASSUME NEW l \in {"exit", "none"}, pc[p] \in {"user", "exit"}, loc' = loc, Goto(p, l)
        PROVE  \A q \in Slot : \/ pc'[q] = pc[q] /\ loc'[q] = loc[q]
                               \/ /\ pc[q] \notin InMemory /\ pc'[q] \notin InMemory
                                  /\ pc'[q] # "user"
    <3>1. \A q \in Slot : pc'[q] = IF q = p THEN l ELSE pc[q]
      BY <1>0, <2>2 DEF Goto, TableType
    <3> QED
      BY <2>2, <3>1 DEF InMemory, Forking
  <2>3. CASE yield(p) \/ scheduler(p) \/ exit_init(p)
    <3>1. UNCHANGED <<pc, loc>>
      BY <2>3 DEF yield, scheduler, exit_init
    <3> QED
      BY <2>1, <3>1
  <2>4. CASE \E n \in Targets : kill(p, n)
    <3>1. PICK n \in Targets : kill(p, n)
      BY <2>4
    <3>2. UNCHANGED <<pc, loc>>
      BY <3>1 DEF kill
    <3> QED
      BY <2>1, <3>2
  <2>5. CASE trap_killed(p) \/ sys_exit(p)
    <3>1. pc[p] = "user" /\ loc' = loc /\ Goto(p, "exit")
      BY <2>5 DEF trap_killed, sys_exit, InUser
    <3> QED
      BY <2>2, <3>1
  <2>6. CASE exit(p)
    <3>1. pc[p] = "exit" /\ loc' = loc /\ Goto(p, "none")
      BY <2>6 DEF exit
    <3> QED
      BY <2>2, <3>1
  <2> QED
    BY <2>3, <2>4, <2>5, <2>6 DEF ProcStep
<1> QED
  BY <1>1, <1>2, <1>3, MemAside

-----------------------------------------------------------------------------
(* fork and wait                                                           *)

\* What a step takes from the free list, the stacks and the address spaces gain.
Balanced == /\ nfree' \in Nat
            /\ nfree' + Cardinality(kstack') + Total' = nfree + Cardinality(kstack) + Total

\* The books balance when those of one slot do.
LEMMA Balance ==
  ASSUME MemType, MemType', NEW q \in Slot, nfree \in Nat, nfree' \in Nat,
         \A r \in Slot : r # q => vm'[r] = vm[r] /\ spare'[r] = spare[r],
         kstack' \in {kstack, kstack \cup {q}, kstack \ {q}},
         NEW a \in {0, 1}, q \in kstack => a = 1, q \notin kstack => a = 0,
         NEW b \in {0, 1}, q \in kstack' => b = 1, q \notin kstack' => b = 0,
         nfree' + b + (Pages(vm'[q]) + Pages(spare'[q])) = nfree + a + (Pages(vm[q]) + Pages(spare[q]))
  PROVE  Balanced
<1>1. /\ Total \in Nat /\ Total' \in Nat
      /\ Total' + (Pages(vm[q]) + Pages(spare[q])) = Total + (Pages(vm'[q]) + Pages(spare'[q]))
  BY Account
<1>2. /\ vm[q] \in Space /\ spare[q] \in Space /\ vm'[q] \in Space /\ spare'[q] \in Space
      /\ kstack \subseteq Slot /\ kstack' \subseteq Slot
  BY DEF MemType
<1>3. /\ Pages(vm[q]) \in Nat /\ Pages(spare[q]) \in Nat
      /\ Pages(vm'[q]) \in Nat /\ Pages(spare'[q]) \in Nat
  BY <1>2, PagesIs
<1>4. IsFiniteSet(kstack) /\ IsFiniteSet(kstack')
  BY <1>2, SlotFacts, FS_Subset
<1>5. Cardinality(kstack) \in Nat /\ Cardinality(kstack') \in Nat
  BY <1>4, FS_CardinalityType
<1> DEFINE c == Cardinality(kstack)
           d == Cardinality(kstack')
<1>6. d + a = c + b
  <2> DEFINE e == Cardinality(kstack \ {q})
  <2>1. e = IF q \in kstack THEN c - 1 ELSE c
    BY <1>4, FS_RemoveElement
  <2>2. Cardinality(kstack' \ {q}) = IF q \in kstack' THEN d - 1 ELSE d
    BY <1>4, FS_RemoveElement
  <2>3. kstack' \ {q} = kstack \ {q}
    OBVIOUS
  <2>4. e = IF q \in kstack' THEN d - 1 ELSE d
    BY <2>2, <2>3
  <2>5. c \in Nat /\ d \in Nat
    BY <1>5
  <2> HIDE DEF c, d, e
  <2>6. e = c - a
    <3>1. CASE q \in kstack
      BY <2>1, <3>1
    <3>2. CASE q \notin kstack
      BY <2>1, <2>5, <3>2
    <3> QED
      BY <3>1, <3>2
  <2>7. e = d - b
    <3>1. CASE q \in kstack'
      BY <2>4, <3>1
    <3>2. CASE q \notin kstack'
      BY <2>4, <2>5, <3>2
    <3> QED
      BY <3>1, <3>2
  <2> QED
    BY <2>5, <2>6, <2>7
<1> QED
  <2> DEFINE x == Pages(vm[q]) + Pages(spare[q])
             y == Pages(vm'[q]) + Pages(spare'[q])
             t == Total
             u == Total'
  <2>1. x \in Nat /\ y \in Nat /\ t \in Nat /\ u \in Nat /\ c \in Nat /\ d \in Nat
    BY <1>1, <1>3, <1>5
  <2>2. nfree' + b + y = nfree + a + x /\ u + x = t + y
    BY <1>1
  <2>3. ASSUME nfree' + d + u = nfree + c + t
        PROVE  Balanced
    BY <2>3 DEF Balanced
  <2> DEFINE m == nfree
             n == nfree'
  <2>4. /\ a \in Nat /\ b \in Nat /\ m \in Nat /\ n \in Nat
        /\ n + b + y = m + a + x /\ d + a = c + b /\ u + x = t + y
    BY <1>6, <2>2
  <2> HIDE DEF x, y, t, u, c, d, m, n
  <2>5. n + d + u = m + c + t
    BY <2>1, <2>4
  <2> QED
    BY <2>3, <2>5 DEF m, n

\* The books balance when no page changes hands.
LEMMA BalanceSame ==
  ASSUME MemType, MemType', nfree \in Nat, UNCHANGED <<nfree, kstack, vm, spare>>
  PROVE  Balanced
<1>1. initproc \in Slot
  BY SlotFacts
<1>2. vm[initproc] \in Space /\ spare[initproc] \in Space
  BY <1>1 DEF MemType
<1>3. Pages(vm[initproc]) \in Nat /\ Pages(spare[initproc]) \in Nat
  BY <1>2, PagesIs
<1>4. PICK a \in {0, 1} : (initproc \in kstack => a = 1) /\ (initproc \notin kstack => a = 0)
  OBVIOUS
<1>5. /\ vm' = vm /\ spare' = spare /\ kstack' = kstack /\ nfree' = nfree
  OBVIOUS
<1>6. nfree' + a + (Pages(vm'[initproc]) + Pages(spare'[initproc]))
        = nfree + a + (Pages(vm[initproc]) + Pages(spare[initproc]))
  BY <1>5
<1> QED
  BY <1>1, <1>4, <1>5, <1>6, Balance

\* The slots that a step on p and n does not touch.
LEMMA MemOthers ==
  ASSUME AllMem, load' = load, NEW p \in Slot, NEW n \in Slot,
         \A r \in Slot : r # p /\ r # n =>
            /\ state'[r] = state[r] /\ pc'[r] = pc[r] /\ loc'[r] = loc[r]
            /\ vm'[r] = vm[r] /\ sz'[r] = sz[r] /\ spare'[r] = spare[r]
            /\ r \in kstack' <=> r \in kstack,
         \A r \in Slot : r # p /\ r # n /\ pc[r] \in Forking =>
            loc[r].np \in Slot /\ loc[r].np # p /\ loc[r].np # n
  PROVE  \A r \in Slot : r # p /\ r # n => MemInv(r)'
<1> SUFFICES ASSUME NEW r \in Slot, r # p, r # n
             PROVE  MemInv(r)'
  OBVIOUS
<1>1. MemInv(r)
  BY DEF AllMem
<1>2. state'[r] = state[r] /\ (Live(r)' => Live(r))
  BY DEF Live
<1>3. pc[r] \in Forking => /\ loc[r].np \in kstack' <=> loc[r].np \in kstack
                           /\ vm'[loc[r].np] = vm[loc[r].np]
  OBVIOUS
<1> QED
  BY <1>1, <1>2, <1>3, MemSame

\* The child of a fork() in progress is an EMBRYO that does nothing itself.
LEMMA ChildIs ==
  ASSUME TableInv, AllMem, NEW r \in Slot, pc[r] \in Forking
  PROVE  /\ loc[r].np \in Slot /\ state[loc[r].np] = "EMBRYO" /\ pc[loc[r].np] = "none"
         /\ spare[loc[r].np] = NoSpace
         /\ \A q \in Slot : q # r /\ pc[q] \in Forking => loc[q].np # loc[r].np
<1>1. loc[r].np \in Slot /\ state[loc[r].np] = "EMBRYO"
  BY DEF TableInv, ForkInv
<1>2. \A q \in Slot : q # r /\ pc[q] \in Forking => loc[q].np # loc[r].np
  BY DEF TableInv, ForkInv
<1>3. pc[loc[r].np] = "none"
  BY <1>1 DEF TableInv, PcInv, Alive
<1>4. spare[loc[r].np] = NoSpace
  BY <1>1, <1>3 DEF AllMem, MemInv
<1> QED
  BY <1>1, <1>2, <1>3, <1>4

\* A slot that is neither free nor a process.
LEMMA MemIdle ==
  ASSUME NEW q \in Slot, state'[q] \in {"EMBRYO"}, pc'[q] = "none", spare'[q] = NoSpace
  PROVE  MemInv(q)'
  BY DEF MemInv, Live

\* A slot that was given back.
LEMMA MemFreed ==
  ASSUME NEW q \in Slot, state'[q] = "UNUSED", pc'[q] = "none", spare'[q] = NoSpace,
         q \notin kstack', vm'[q] = NoSpace
  PROVE  MemInv(q)'
  BY DEF MemInv, Live

\* What a step on memory must keep.
MemGoal == AllMem' /\ Balanced

\* A system call that did nothing to memory returns.
LEMMA MemReturn ==
  ASSUME TableType, NEW p \in Slot, Return(p)
  PROVE  /\ pc'[p] = "user" /\ loc'[p].i = 0
         /\ \A r \in Slot : r # p => pc'[r] = pc[r] /\ loc'[r] = loc[r]
  BY NoLocIs DEF Return, Goto, TableType

\* wait() gives back all that the zombie owns, once.
LEMMA WaitMem ==
  ASSUME Types, Types', AllMem, nfree \in Nat, load' = load, NEW p \in Slot, wait(p)
  PROVE  MemGoal
<1>0. TableInv /\ TableType /\ MemType /\ MemType'
  BY DEF Types, TableInv
<1>1. state[p] = "RUNNING" /\ pc[p] \in {"wait", "user"}
  BY DEF wait, Running, InUser
<1>2. CASE Zombies(p) # {}
  <2>2. Zombies(p) \in SUBSET Nat /\ Zombies(p) \in SUBSET Slot
    BY SlotFacts DEF Zombies, Children
  <2>3. Min(Zombies(p)) \in Zombies(p)
    BY <1>2, <2>2, MinIs
  <2>0. PICK q \in Slot : q = Min(Zombies(p))
    BY <2>2, <2>3
  <2>1. /\ nfree' = nfree + Owned(q) /\ kstack' = kstack \ {q}
        /\ vm' = [vm EXCEPT ![q] = NoSpace] /\ sz' = [sz EXCEPT ![q] = 0]
        /\ state' = [state EXCEPT ![q] = "UNUSED"] /\ spare' = spare /\ Return(p)
    BY <1>2, <2>0 DEF wait
  <2>4. q \in Slot /\ state[q] = "ZOMBIE" /\ q # p
    BY <1>1, <2>0, <2>3 DEF Zombies, Children
  <2>5. pc[q] = "none" /\ spare[q] = NoSpace
    <3>1. pc[q] = "none"
      BY <1>0, <2>4 DEF TableInv, PcInv, Alive
    <3> QED
      BY <2>4, <3>1 DEF AllMem, MemInv
  <2>6. /\ pc'[p] = "user" /\ loc'[p].i = 0
        /\ \A r \in Slot : r # p => pc'[r] = pc[r] /\ loc'[r] = loc[r]
    BY <1>0, <2>1, MemReturn
  <2>7. /\ \A r \in Slot : r # q => state'[r] = state[r] /\ vm'[r] = vm[r] /\ sz'[r] = sz[r]
                                     /\ (r \in kstack' <=> r \in kstack)
        /\ state'[q] = "UNUSED" /\ vm'[q] = NoSpace /\ q \notin kstack'
    BY <1>0, <2>1, <2>4 DEF TableType, MemType
  <2>8. \A r \in Slot : r # p /\ r # q /\ pc[r] \in Forking =>
            loc[r].np \in Slot /\ loc[r].np # p /\ loc[r].np # q
    BY <1>0, <1>1, <2>4, ChildIs
  <2>9. \A r \in Slot : r # p /\ r # q => MemInv(r)'
    BY <2>1, <2>4, <2>6, <2>7, <2>8, MemOthers
  <2>10. MemInv(q)'
    BY <2>1, <2>4, <2>5, <2>6, <2>7, MemFreed
  <2>11. MemInv(p)'
    <3>1. MemInv(p) /\ pc[p] \notin InMemory /\ pc'[p] \notin InMemory
      BY <1>1, <2>6 DEF AllMem, InMemory, Forking
    <3>2. state'[p] = state[p] /\ (Live(p)' => Live(p))
      BY <2>4, <2>7 DEF Live
    <3> QED
      BY <2>1, <2>4, <2>6, <2>7, <3>1, <3>2, MemOutside
  <2>12. Balanced
    <3>1. PICK a \in {0, 1} : (q \in kstack => a = 1) /\ (q \notin kstack => a = 0)
      OBVIOUS
    <3>2. Owned(q) = a + Pages(vm[q])
      BY <3>1 DEF Owned
    <3>3. Pages(vm[q]) \in Nat
      BY <1>0, <2>4, PagesIs DEF MemType
    <3>4. Pages(NoSpace) = 0
      BY FreshPages
    <3>5. nfree' + 0 + (Pages(vm'[q]) + Pages(spare'[q])) = nfree + a + (Pages(vm[q]) + Pages(spare[q]))
      BY <2>1, <2>5, <2>7, <3>2, <3>3, <3>4
    <3>6. nfree' \in Nat
      BY <2>1, <3>2, <3>3
    <3> QED
      BY <1>0, <2>1, <2>4, <2>7, <3>1, <3>5, <3>6, Balance
  <2> QED
    BY <2>9, <2>10, <2>11, <2>12 DEF MemGoal, AllMem
<1>3. CASE Zombies(p) = {}
  <2>1. /\ UNCHANGED <<nfree, kstack, vm, sz, spare>>
        /\ \/ Return(p) /\ state' = state
           \/ sleep(p, <<"wait", p>>) /\ Goto(p, "wait") /\ loc' = loc
    BY <1>3 DEF wait, memVars, ptable
  <2>2. Balanced
    BY <1>0, <2>1, BalanceSame
  <2>3. CASE Return(p) /\ state' = state
    <3>1. /\ pc'[p] = "user" /\ loc'[p].i = 0
          /\ \A r \in Slot : r # p => pc'[r] = pc[r] /\ loc'[r] = loc[r]
      BY <1>0, <2>3, MemReturn
    <3>2. \A q \in Slot : (state'[q] = "UNUSED" => state[q] = "UNUSED") /\ (Live(q)' => Live(q))
      BY <2>3 DEF Live
    <3>3. \A q \in Slot : \/ pc'[q] = pc[q] /\ loc'[q] = loc[q]
                          \/ /\ pc[q] \notin InMemory /\ pc'[q] \notin InMemory
                             /\ load = "memory" /\ pc'[q] = "user" => loc'[q].i = 0
      BY <1>1, <3>1 DEF InMemory, Forking
    <3> QED
      BY <2>1, <2>2, <3>2, <3>3, MemAside DEF MemGoal
  <2>4. CASE sleep(p, <<"wait", p>>) /\ Goto(p, "wait") /\ loc' = loc
    <3>1. \A r \in Slot : state'[r] = IF r = p THEN "SLEEPING" ELSE state[r]
      BY <1>0, <2>4 DEF sleep, TableType
    <3>2. \A q \in Slot : (state'[q] = "UNUSED" => state[q] = "UNUSED") /\ (Live(q)' => Live(q))
      BY <1>1, <3>1 DEF Live
    <3>3. \A r \in Slot : pc'[r] = IF r = p THEN "wait" ELSE pc[r]
      BY <1>0, <2>4 DEF Goto, TableType
    <3>4. \A q \in Slot : \/ pc'[q] = pc[q] /\ loc'[q] = loc[q]
                          \/ /\ pc[q] \notin InMemory /\ pc'[q] \notin InMemory
                             /\ load = "memory" /\ pc'[q] = "user" => loc'[q].i = 0
      BY <1>1, <2>4, <3>3 DEF InMemory, Forking
    <3> QED
      BY <2>1, <2>2, <3>2, <3>4, MemAside DEF MemGoal
  <2> QED
    BY <2>1, <2>3, <2>4
<1> QED
  BY <1>2, <1>3

\* fork() finds a slot that owns nothing.
LEMMA ForkMem ==
  ASSUME Types, Types', AllMem, nfree \in Nat, load' = load, NEW p \in Slot, fork(p)
  PROVE  MemGoal
<1>0. TableInv /\ TableType /\ MemType /\ MemType'
  BY DEF Types, TableInv
<1> DEFINE unused == {q \in Slot : state[q] = "UNUSED"}
<1>a. unused # {} /\ unused \in SUBSET Nat
  BY SlotFacts DEF fork
<1>2. Min(unused) \in unused
  BY <1>a, MinIs
<1>b. PICK np \in Slot : np = Min(unused)
  BY <1>2
<1> DEFINE x == [NoLoc EXCEPT !.np = np]
<1>1. /\ state[p] = "RUNNING" /\ pc[p] = "user" /\ unused # {}
      /\ state' = [state EXCEPT ![np] = "EMBRYO"]
      /\ loc' = [loc EXCEPT ![p] = x] /\ Goto(p, "fork_kstack")
      /\ UNCHANGED <<nfree, kstack, vm, sz, spare>>
  BY <1>b DEF fork, InUser, Running, memVars
<1>3. np \in Slot /\ state[np] = "UNUSED" /\ np # p
  BY <1>1, <1>2, <1>b
<1>4. x.np = np
  BY DEF NoLoc
<1> HIDE DEF x, unused
<1>5. /\ \A r \in Slot : r # np => state'[r] = state[r]
      /\ state'[np] = "EMBRYO"
      /\ pc'[p] = "fork_kstack" /\ loc'[p] = x
      /\ \A r \in Slot : r # p => pc'[r] = pc[r] /\ loc'[r] = loc[r]
  BY <1>0, <1>1, <1>3 DEF Goto, TableType
<1>6. \A r \in Slot : r # p /\ r # np /\ pc[r] \in Forking =>
            loc[r].np \in Slot /\ loc[r].np # p /\ loc[r].np # np
  BY <1>0, <1>1, <1>3, ChildIs
<1>7. \A r \in Slot : r # p /\ r # np => MemInv(r)'
  BY <1>1, <1>3, <1>5, <1>6, MemOthers
<1>8. pc[np] = "none" /\ np \notin kstack /\ vm[np] = NoSpace /\ spare[np] = NoSpace
  <2>1. pc[np] = "none"
    BY <1>0, <1>3 DEF TableInv, PcInv, Alive
  <2> QED
    BY <1>3, <2>1 DEF AllMem, MemInv
<1>9. MemInv(np)'
  BY <1>1, <1>3, <1>5, <1>8, MemIdle
<1>10. MemInv(p)'
  <2>1. MemInv(p) /\ Live(p)
    BY <1>1 DEF AllMem, Live
  <2>2. /\ p \in kstack /\ vm[p].dir /\ spare[p] = NoSpace
        /\ \A g \in Page : vm[p].pte[g] # "none" => g * PGSIZE < sz[p]
    BY <1>1, <2>1 DEF MemInv
  <2>3. state'[p] = "RUNNING" /\ loc'[p].np \notin kstack' /\ vm'[loc'[p].np] = NoSpace
    BY <1>1, <1>3, <1>4, <1>5, <1>8
  <2>4. vm' = vm /\ sz' = sz /\ spare' = spare /\ kstack' = kstack
    BY <1>1
  <2> QED
    BY <1>5, <2>2, <2>3, <2>4 DEF MemInv
<1>11. Balanced
  BY <1>0, <1>1, BalanceSame
<1> QED
  BY <1>7, <1>9, <1>10, <1>11 DEF MemGoal, AllMem

\* The caller of a fork() that has ended.
LEMMA MemBack ==
  ASSUME NEW p \in Slot, MemInv(p), pc[p] \in Forking, pc'[p] = "user", loc'[p].i = 0,
         state'[p] = state[p], p \in kstack' <=> p \in kstack,
         vm'[p] = vm[p], sz'[p] = sz[p], spare'[p] = spare[p]
  PROVE  MemInv(p)'
<1>1. Live(p)' <=> Live(p)
  BY DEF Live
<1> QED
  BY <1>1 DEF MemInv, Forking

\* fork() that fails gives back the stack and the address space it has built so far.
LEMMA AbandonMem ==
  ASSUME Types, Types', AllMem, nfree \in Nat, load' = load, NEW p \in Slot,
         state[p] = "RUNNING", pc[p] \in Forking, Abandon(p)
  PROVE  MemGoal
<1>0. TableInv /\ TableType /\ MemType /\ MemType'
  BY DEF Types, TableInv
<1>1. /\ loc[p].np \in Slot /\ state[loc[p].np] = "EMBRYO" /\ pc[loc[p].np] = "none"
      /\ spare[loc[p].np] = NoSpace
      /\ \A q \in Slot : q # p /\ pc[q] \in Forking => loc[q].np # loc[p].np
  BY <1>0, ChildIs
<1>2. PICK n \in Slot : n = loc[p].np
  BY <1>1
<1>3. /\ state' = [state EXCEPT ![n] = "UNUSED"] /\ nfree' = nfree + Owned(n)
      /\ kstack' = kstack \ {n} /\ vm' = [vm EXCEPT ![n] = NoSpace] /\ Return(p)
      /\ sz' = sz /\ spare' = spare
  BY <1>2 DEF Abandon
<1>4. n # p /\ pc[n] = "none" /\ spare[n] = NoSpace
  BY <1>1, <1>2
<1>5. /\ pc'[p] = "user" /\ loc'[p].i = 0
      /\ \A r \in Slot : r # p => pc'[r] = pc[r] /\ loc'[r] = loc[r]
  BY <1>0, <1>3, MemReturn
<1>6. /\ \A r \in Slot : r # n => state'[r] = state[r] /\ vm'[r] = vm[r] /\ (r \in kstack' <=> r \in kstack)
      /\ state'[n] = "UNUSED" /\ vm'[n] = NoSpace /\ n \notin kstack'
  BY <1>0, <1>3 DEF TableType, MemType
<1>7. \A r \in Slot : r # p /\ r # n /\ pc[r] \in Forking =>
            loc[r].np \in Slot /\ loc[r].np # p /\ loc[r].np # n
  <2>1. \A r \in Slot : pc[r] \in Forking => loc[r].np \in Slot /\ state[loc[r].np] = "EMBRYO"
    BY <1>0, ChildIs
  <2> QED
    BY <1>1, <1>2, <2>1
<1>8. \A r \in Slot : r # p /\ r # n => MemInv(r)'
  BY <1>3, <1>5, <1>6, <1>7, MemOthers
<1>9. MemInv(n)'
  BY <1>3, <1>4, <1>5, <1>6, MemFreed
<1>10. MemInv(p)'
  <2>1. MemInv(p)
    BY DEF AllMem
  <2> QED
    BY <1>3, <1>4, <1>5, <1>6, <2>1, MemBack
<1>11. Balanced
  <2>1. PICK a \in {0, 1} : (n \in kstack => a = 1) /\ (n \notin kstack => a = 0)
    OBVIOUS
  <2>2. Owned(n) = a + Pages(vm[n])
    BY <2>1 DEF Owned
  <2>3. Pages(vm[n]) \in Nat
    BY <1>0, PagesIs DEF MemType
  <2>4. Pages(NoSpace) = 0
    BY FreshPages
  <2>5. nfree' + 0 + (Pages(vm'[n]) + Pages(spare'[n])) = nfree + a + (Pages(vm[n]) + Pages(spare[n]))
    BY <1>3, <1>4, <1>6, <2>2, <2>3, <2>4
  <2>6. nfree' \in Nat
    BY <1>3, <2>2, <2>3
  <2> QED
    BY <1>0, <1>3, <1>6, <2>1, <2>5, <2>6, Balance
<1> QED
  BY <1>8, <1>9, <1>10, <1>11 DEF MemGoal, AllMem

\* fork() builds the child's address space: one more allocation has succeeded.
LEMMA ChildMem ==
  ASSUME Types, Types', AllMem, nfree \in Nat, nfree' \in Nat, load' = load, NEW p \in Slot,
         state[p] = "RUNNING", pc[p] \in Forking, NEW n \in Slot, n = loc[p].np,
         UNCHANGED <<state, sz, spare>>,
         \A r \in Slot : r # p => pc'[r] = pc[r] /\ loc'[r] = loc[r],
         \A r \in Slot : r # n => vm'[r] = vm[r],
         kstack' \in {kstack, kstack \cup {n}},
         NEW a \in {0, 1}, n \in kstack => a = 1, n \notin kstack => a = 0,
         NEW b \in {0, 1}, n \in kstack' => b = 1, n \notin kstack' => b = 0,
         nfree' + b + Pages(vm'[n]) = nfree + a + Pages(vm[n]),
         pc'[p] \in Forking, loc'[p].np = n,
         pc'[p] = "fork_kstack" => n \notin kstack' /\ vm'[n] = NoSpace,
         pc'[p] = "fork_setupkvm" => n \in kstack' /\ vm'[n] = NoSpace,
         pc'[p] = "copyuvm" =>
            /\ n \in kstack' /\ vm'[n].dir
            /\ \A g \in Page : vm'[n].pte[g] # "none" => g < loc'[p].i /\ g * PGSIZE < sz[p]
  PROVE  MemGoal
<1>0. TableInv /\ TableType /\ MemType /\ MemType'
  BY DEF Types, TableInv
<1>1. /\ state[n] = "EMBRYO" /\ pc[n] = "none" /\ spare[n] = NoSpace
      /\ \A q \in Slot : q # p /\ pc[q] \in Forking => loc[q].np # n
  BY <1>0, ChildIs
<1>2. n # p /\ sz' = sz /\ spare' = spare /\ state' = state
  BY <1>1
<1>3. \A r \in Slot : r # p /\ r # n /\ pc[r] \in Forking =>
            loc[r].np \in Slot /\ loc[r].np # p /\ loc[r].np # n
  <2>1. \A r \in Slot : pc[r] \in Forking => loc[r].np \in Slot /\ state[loc[r].np] = "EMBRYO"
    BY <1>0, ChildIs
  <2> QED
    BY <1>1, <2>1
<1>4. \A r \in Slot : r # n => (r \in kstack' <=> r \in kstack)
  OBVIOUS
<1>5. \A r \in Slot : r # p /\ r # n => MemInv(r)'
  BY <1>2, <1>3, <1>4, MemOthers
<1>6. MemInv(n)'
  BY <1>1, <1>2, MemIdle
<1>7. MemInv(p)'
  <2>1. MemInv(p) /\ Live(p)
    BY DEF AllMem, Live
  <2>2. pc[p] \notin {"exec", "allocuvm", "user"} /\ pc'[p] \notin {"exec", "allocuvm", "user"}
    BY DEF Forking
  <2>3. /\ p \in kstack /\ vm[p].dir /\ spare[p] = NoSpace
        /\ \A g \in Page : vm[p].pte[g] # "none" => g * PGSIZE < sz[p]
    BY <2>1, <2>2 DEF MemInv
  <2>4. p \in kstack' /\ vm'[p] = vm[p] /\ state'[p] = "RUNNING"
    BY <1>2, <1>4, <2>3
  <2> QED
    BY <1>2, <2>2, <2>3, <2>4 DEF MemInv
<1>8. Balanced
  <2>1. Pages(vm[n]) \in Nat /\ Pages(vm'[n]) \in Nat
    BY <1>0, PagesIs DEF MemType
  <2>2. Pages(NoSpace) = 0 /\ spare[n] = NoSpace /\ spare'[n] = NoSpace
    BY <1>1, <1>2, FreshPages
  <2>3. nfree' + b + (Pages(vm'[n]) + Pages(spare'[n])) = nfree + a + (Pages(vm[n]) + Pages(spare[n]))
    BY <2>1, <2>2
  <2>4. \A r \in Slot : r # n => vm'[r] = vm[r] /\ spare'[r] = spare[r]
    BY <1>2
  <2> QED
    BY <1>0, <2>3, <2>4, Balance
<1> QED
  BY <1>5, <1>6, <1>7, <1>8 DEF MemGoal, AllMem

\* The kernel stack, the page directory and the pages of the child.
LEMMA ForkStepsMem ==
  ASSUME Types, Types', AllMem, nfree \in Nat, load' = load, NEW p \in Slot,
         fork_kstack(p) \/ fork_setupkvm(p) \/ copyuvm(p)
  PROVE  MemGoal
<1>0. TableInv /\ TableType /\ MemType /\ MemType'
  BY DEF Types, TableInv
<1>1. state[p] = "RUNNING" /\ pc[p] \in Forking
  BY DEF fork_kstack, fork_setupkvm, copyuvm, Running, Forking
<1>2. PICK n \in Slot : n = loc[p].np
  BY <1>0, <1>1, ChildIs
<1>3. MemInv(p)
  BY DEF AllMem
<1>4. CASE Abandon(p)
  BY <1>1, <1>4, AbandonMem
<1>5. CASE fork_kstack(p) /\ ~Abandon(p)
  <2>1. /\ pc[p] = "fork_kstack" /\ nfree # 0
        /\ nfree' = nfree - 1 /\ kstack' = kstack \cup {n} /\ Goto(p, "fork_setupkvm")
        /\ UNCHANGED <<state, loc, vm, sz, spare>>
    BY <1>2, <1>5 DEF fork_kstack, ptable
  <2>2. nfree' \in Nat
    BY <2>1
  <2>3. /\ pc'[p] = "fork_setupkvm" /\ loc'[p] = loc[p] /\ vm' = vm
        /\ \A r \in Slot : r # p => pc'[r] = pc[r] /\ loc'[r] = loc[r]
    BY <1>0, <2>1 DEF Goto, TableType
  <2>4. n \notin kstack /\ vm[n] = NoSpace
    BY <1>2, <1>3, <2>1 DEF MemInv
  <2>5. n \in kstack' /\ vm'[n] = NoSpace /\ pc'[p] \in Forking
    BY <2>1, <2>3, <2>4 DEF Forking
  <2>6. nfree' + 1 + Pages(vm'[n]) = nfree + 0 + Pages(vm[n])
    <3>1. Pages(vm[n]) = 0 /\ Pages(vm'[n]) = 0
      BY <2>4, <2>5, FreshPages
    <3> QED
      BY <2>1, <3>1
  <2>7. \A r \in Slot : r # n => vm'[r] = vm[r]
    BY <2>3
  <2> QED
    BY <1>1, <1>2, <2>1, <2>2, <2>3, <2>4, <2>5, <2>6, <2>7, ChildMem
<1>6. CASE fork_setupkvm(p) /\ ~Abandon(p)
  <2>1. /\ pc[p] = "fork_setupkvm" /\ ~(nfree < KVM)
        /\ nfree' = nfree - KVM /\ vm' = [vm EXCEPT ![n] = setupkvm] /\ Goto(p, "copyuvm")
        /\ UNCHANGED <<state, loc, kstack, sz, spare>>
    BY <1>2, <1>6 DEF fork_setupkvm, ptable
  <2>2. nfree' \in Nat
    BY <2>1, MemFacts
  <2>3. /\ pc'[p] = "copyuvm" /\ loc'[p] = loc[p]
        /\ \A r \in Slot : r # p => pc'[r] = pc[r] /\ loc'[r] = loc[r]
    BY <1>0, <2>1 DEF Goto, TableType
  <2>4. n \in kstack /\ vm[n] = NoSpace
    BY <1>2, <1>3, <2>1 DEF MemInv
  <2>5. /\ n \in kstack' /\ vm'[n] = setupkvm /\ pc'[p] \in Forking
        /\ \A r \in Slot : r # n => vm'[r] = vm[r]
    BY <1>0, <2>1, <2>3, <2>4 DEF Forking, MemType
  <2>6. nfree' + 1 + Pages(vm'[n]) = nfree + 1 + Pages(vm[n])
    <3>1. Pages(vm[n]) = 0 /\ Pages(vm'[n]) = KVM
      BY <2>4, <2>5, FreshPages
    <3> QED
      BY <2>1, <3>1, MemFacts
  <2>7. vm'[n].dir /\ \A g \in Page : vm'[n].pte[g] = "none"
    BY <2>5, FreshPages
  <2> QED
    BY <1>1, <1>2, <2>1, <2>2, <2>3, <2>4, <2>5, <2>6, <2>7, ChildMem
<1>7. CASE copyuvm(p) /\ ~Abandon(p)
  <2> DEFINE g == loc[p].i
             v == vm[p].pte[g]
             cost == (IF v = "ssu" THEN 0 ELSE 1) + PtNeeded(vm[n], g)
  <2>1. /\ pc[p] = "copyuvm" /\ g * PGSIZE < sz[p] /\ (v = "none" \/ cost <= nfree)
        /\ vm' = IF v = "none" THEN vm ELSE [vm EXCEPT ![n] = Map(@, g, v)]
        /\ nfree' = IF v = "none" THEN nfree ELSE nfree - cost
        /\ loc' = [loc EXCEPT ![p].i = @ + 1]
        /\ UNCHANGED <<state, pc, kstack, sz, spare>>
    BY <1>2, <1>7 DEF copyuvm, ptable
  <2>2. /\ n \in kstack /\ vm[n].dir
        /\ \A h \in Page : vm[n].pte[h] # "none" => h < g /\ h * PGSIZE < sz[p]
    BY <1>2, <1>3, <2>1 DEF MemInv
  <2>3. g \in Nat /\ g \in Page
    <3>1. g \in Nat /\ sz[p] \in 0..KERNBASE
      BY <1>0 DEF TableType, Locals, MemType
    <3>2. g * PGSIZE < KERNBASE
      BY <2>1, <3>1, MemFacts
    <3> QED
      BY <3>1, <3>2, MemFacts
  <2>4. /\ loc'[p].i = g + 1 /\ loc'[p].np = n
        /\ \A r \in Slot : r # p => loc'[r] = loc[r]
    <3>1. loc' = [loc EXCEPT ![p].i = g + 1]
      BY <2>1
    <3>2. loc[p] \in Locals
      BY <1>0 DEF TableType
    <3> HIDE DEF g
    <3> QED
      BY <1>0, <1>2, <2>3, <3>1, <3>2 DEF TableType, Locals
  <2>5. vm[p] \in Space /\ vm[n] \in Space /\ v \in {"none", "ssu", "present", "guard"}
    <3>1. vm[p] \in Space /\ vm[n] \in Space
      BY <1>0 DEF MemType
    <3> QED
      BY <2>3, <3>1 DEF Space
  <2>6. vm[n].pte[g] = "none"
    BY <2>2, <2>3
  <2> HIDE DEF g, v
  <2>7. CASE v = "none"
    <3>1. vm' = vm /\ nfree' = nfree /\ kstack' = kstack /\ pc' = pc
      BY <2>1, <2>7
    <3>2. \A h \in Page : vm'[n].pte[h] # "none" => h < loc'[p].i /\ h * PGSIZE < sz[p]
      BY <2>2, <2>3, <2>4, <3>1, MemFacts
    <3>3. n \in kstack' /\ vm'[n].dir /\ pc'[p] = "copyuvm" /\ pc'[p] \in Forking
      BY <2>1, <2>2, <3>1 DEF Forking
    <3>4. nfree' + 1 + Pages(vm'[n]) = nfree + 1 + Pages(vm[n]) /\ nfree' \in Nat
      BY <3>1
    <3>5. /\ \A r \in Slot : r # n => vm'[r] = vm[r]
          /\ \A r \in Slot : r # p => pc'[r] = pc[r] /\ loc'[r] = loc[r]
      BY <2>4, <3>1
    <3> QED
      BY <1>1, <1>2, <2>1, <2>2, <2>4, <3>1, <3>2, <3>3, <3>4, <3>5, ChildMem
  <2>8. CASE v # "none"
    <3>1. v \in {"ssu", "present", "guard"}
      BY <2>5, <2>8
    <3> DEFINE m == Map(vm[n], g, v)
    <3>2. /\ PtNeeded(vm[n], g) \in {0, 1} /\ m.dir = vm[n].dir /\ m.pte[g] = v
          /\ \A h \in Page : h # g => m.pte[h] = vm[n].pte[h]
          /\ Pages(m) = Pages(vm[n]) + PtNeeded(vm[n], g) + (IF v = "ssu" THEN 0 ELSE 1)
      BY <2>3, <2>5, <2>6, <3>1, MapPages
    <3>3. /\ nfree' = nfree - cost /\ cost <= nfree /\ vm' = [vm EXCEPT ![n] = m]
          /\ kstack' = kstack /\ pc' = pc
      BY <2>1, <2>8
    <3> HIDE DEF m
    <3>4. vm'[n] = m /\ \A r \in Slot : r # n => vm'[r] = vm[r]
      BY <1>0, <3>3 DEF MemType
    <3>5. cost \in Nat /\ Pages(m) = Pages(vm[n]) + cost /\ Pages(vm[n]) \in Nat
      BY <2>5, <3>2, PagesIs
    <3> HIDE DEF cost
    <3>6. nfree' \in Nat /\ nfree' + 1 + Pages(vm'[n]) = nfree + 1 + Pages(vm[n])
      BY <3>3, <3>4, <3>5
    <3>7. \A h \in Page : vm'[n].pte[h] # "none" => h < loc'[p].i /\ h * PGSIZE < sz[p]
      <4> SUFFICES ASSUME NEW h \in Page, m.pte[h] # "none"
                   PROVE  h < loc'[p].i /\ h * PGSIZE < sz[p]
        BY <3>4
      <4>1. CASE h = g
        BY <2>1, <2>3, <2>4, <4>1
      <4>2. CASE h # g
        <5>1. h < g /\ h * PGSIZE < sz[p] /\ h \in Nat
          BY <2>2, <3>2, <4>2, MemFacts
        <5> QED
          BY <2>3, <2>4, <5>1
      <4> QED
        BY <4>1, <4>2
    <3>8. n \in kstack' /\ vm'[n].dir /\ pc'[p] = "copyuvm" /\ pc'[p] \in Forking
      BY <2>1, <2>2, <3>2, <3>3, <3>4 DEF Forking
    <3>9. \A r \in Slot : r # p => pc'[r] = pc[r] /\ loc'[r] = loc[r]
      BY <2>4, <3>3
    <3> QED
      BY <1>1, <1>2, <2>1, <2>2, <2>4, <3>3, <3>4, <3>6, <3>7, <3>8, <3>9, ChildMem
  <2> QED
    BY <2>7, <2>8
<1> QED
  BY <1>4, <1>5, <1>6, <1>7

\* The child begins with as much as its parent has, below the same size.
LEMMA ForkReturnMem ==
  ASSUME Types, Types', AllMem, nfree \in Nat, load' = load, NEW p \in Slot, fork_return(p)
  PROVE  MemGoal
<1>0. TableInv /\ TableType /\ MemType /\ MemType'
  BY DEF Types, TableInv
<1>1. state[p] = "RUNNING" /\ pc[p] = "copyuvm" /\ pc[p] \in Forking
  BY DEF fork_return, Running, Forking
<1>2. /\ loc[p].np \in Slot /\ state[loc[p].np] = "EMBRYO" /\ pc[loc[p].np] = "none"
      /\ spare[loc[p].np] = NoSpace
      /\ \A q \in Slot : q # p /\ pc[q] \in Forking => loc[q].np # loc[p].np
  BY <1>0, <1>1, ChildIs
<1>3. PICK n \in Slot : n = loc[p].np
  BY <1>2
<1>4. /\ sz' = [sz EXCEPT ![n] = sz[p]] /\ state' = [state EXCEPT ![n] = "RUNNABLE"]
      /\ pc' = [pc EXCEPT ![p] = "user", ![n] = "user"]
      /\ loc' = [loc EXCEPT ![p] = NoLoc, ![n] = NoLoc]
      /\ nfree' = nfree /\ kstack' = kstack /\ vm' = vm /\ spare' = spare
  BY <1>3 DEF fork_return
<1>5. n # p /\ spare[n] = NoSpace
  BY <1>1, <1>2, <1>3
<1>6. /\ \A r \in Slot : r # n => sz'[r] = sz[r] /\ state'[r] = state[r]
      /\ sz'[n] = sz[p] /\ state'[n] = "RUNNABLE"
      /\ \A r \in Slot : r # p /\ r # n => pc'[r] = pc[r] /\ loc'[r] = loc[r]
      /\ pc'[p] = "user" /\ pc'[n] = "user" /\ loc'[p] = NoLoc /\ loc'[n] = NoLoc
  BY <1>0, <1>4, <1>5 DEF TableType, MemType
<1>7. \A r \in Slot : r # p /\ r # n /\ pc[r] \in Forking =>
            loc[r].np \in Slot /\ loc[r].np # p /\ loc[r].np # n
  <2>1. \A r \in Slot : pc[r] \in Forking => loc[r].np \in Slot /\ state[loc[r].np] = "EMBRYO"
    BY <1>0, ChildIs
  <2> QED
    BY <1>1, <1>2, <1>3, <2>1
<1>8. \A r \in Slot : r # p /\ r # n => MemInv(r)'
  <2>1. \A r \in Slot : r # p /\ r # n =>
            /\ state'[r] = state[r] /\ pc'[r] = pc[r] /\ loc'[r] = loc[r]
            /\ vm'[r] = vm[r] /\ sz'[r] = sz[r] /\ spare'[r] = spare[r]
            /\ r \in kstack' <=> r \in kstack
    BY <1>4, <1>6
  <2> QED
    BY <1>7, <2>1, MemOthers
<1>9. MemInv(p)
  BY DEF AllMem
<1>10. MemInv(p)'
  BY <1>1, <1>4, <1>5, <1>6, <1>9, MemBack, NoLocIs
<1>11. MemInv(n)'
  <2>1. /\ n \in kstack /\ vm[n].dir
        /\ \A g \in Page : vm[n].pte[g] # "none" => g < loc[p].i /\ g * PGSIZE < sz[p]
    BY <1>1, <1>3, <1>9 DEF MemInv
  <2>2. /\ n \in kstack' /\ vm'[n].dir /\ spare'[n] = NoSpace
        /\ \A g \in Page : vm'[n].pte[g] # "none" => g * PGSIZE < sz'[n]
    BY <1>4, <1>5, <1>6, <2>1
  <2> QED
    BY <1>6, <2>2, NoLocIs DEF MemInv
<1>12. Balanced
  BY <1>0, <1>4, BalanceSame
<1> QED
  BY <1>8, <1>10, <1>11, <1>12 DEF MemGoal, AllMem

\* A step of one process on its own address spaces, outside fork().
LEMMA OwnMem ==
  ASSUME Types, Types', AllMem, nfree \in Nat, nfree' \in Nat, load' = load, NEW p \in Slot,
         state[p] = "RUNNING", UNCHANGED <<state, kstack>>,
         \A r \in Slot : r # p => /\ pc'[r] = pc[r] /\ loc'[r] = loc[r]
                                  /\ vm'[r] = vm[r] /\ sz'[r] = sz[r] /\ spare'[r] = spare[r],
         nfree' + (Pages(vm'[p]) + Pages(spare'[p])) = nfree + (Pages(vm[p]) + Pages(spare[p])),
         MemInv(p)'
  PROVE  MemGoal
<1>0. TableInv /\ TableType /\ MemType /\ MemType'
  BY DEF Types, TableInv
<1>1. \A r \in Slot : r # p /\ r # p =>
            /\ state'[r] = state[r] /\ pc'[r] = pc[r] /\ loc'[r] = loc[r]
            /\ vm'[r] = vm[r] /\ sz'[r] = sz[r] /\ spare'[r] = spare[r]
            /\ r \in kstack' <=> r \in kstack
  OBVIOUS
<1>2. \A r \in Slot : pc[r] \in Forking => loc[r].np \in Slot /\ state[loc[r].np] = "EMBRYO"
  BY <1>0, ChildIs
<1>3. \A r \in Slot : r # p /\ r # p /\ pc[r] \in Forking =>
            loc[r].np \in Slot /\ loc[r].np # p /\ loc[r].np # p
  BY <1>2
<1>4. \A r \in Slot : r # p /\ r # p => MemInv(r)'
  BY <1>1, <1>3, MemOthers
<1>5. AllMem'
  BY <1>4 DEF AllMem
<1>6. Balanced
  <2>1. PICK a \in {0, 1} : (p \in kstack => a = 1) /\ (p \notin kstack => a = 0)
    OBVIOUS
  <2>2. vm[p] \in Space /\ spare[p] \in Space /\ vm'[p] \in Space /\ spare'[p] \in Space
    BY <1>0 DEF MemType
  <2>3. /\ Pages(vm[p]) \in Nat /\ Pages(spare[p]) \in Nat
        /\ Pages(vm'[p]) \in Nat /\ Pages(spare'[p]) \in Nat
    BY <2>2, PagesIs
  <2> DEFINE x == Pages(vm[p]) + Pages(spare[p])
             y == Pages(vm'[p]) + Pages(spare'[p])
             m == nfree
             n == nfree'
  <2>4. x \in Nat /\ y \in Nat /\ n + y = m + x /\ m \in Nat /\ n \in Nat
    BY <2>3
  <2> HIDE DEF x, y, m, n
  <2>5. n + a + y = m + a + x
    BY <2>4
  <2>6. nfree' + a + (Pages(vm'[p]) + Pages(spare'[p])) = nfree + a + (Pages(vm[p]) + Pages(spare[p]))
    BY <2>5 DEF x, y, m, n
  <2>7. /\ \A r \in Slot : r # p => vm'[r] = vm[r] /\ spare'[r] = spare[r]
        /\ kstack' = kstack
    OBVIOUS
  <2> QED
    BY <1>0, <2>1, <2>6, <2>7, Balance
<1> QED
  BY <1>5, <1>6 DEF MemGoal

\* The pages below FirstPage(x) are those that begin below x.
LEMMA FirstPageIs ==
  ASSUME NEW x \in Nat, NEW g \in Nat
  PROVE  /\ FirstPage(x) \in Nat
         /\ PGROUNDUP(x) = FirstPage(x) * PGSIZE
         /\ g < FirstPage(x) <=> g * PGSIZE < x
<1> DEFINE n == PGSIZE
           a == x + n - 1
           q == a \div n
           r == a % n
           y == q * n
<1>1. n \in Nat \ {0} /\ a \in Nat
  BY MemFacts
<1>2. q \in Nat /\ r \in 0..(n - 1) /\ a = n * q + r
  <2>1. a \div n \in Int /\ a % n \in 0..(n - 1) /\ a = n * (a \div n) + (a % n)
    BY <1>1, ModDiv
  <2>2. a \div n \in 0..a
    BY <1>1, DivSmaller
  <2> QED
    BY <1>1, <2>1, <2>2
<1>3. PGROUNDUP(x) = y /\ FirstPage(x) = y \div n
  BY DEF PGROUNDUP, FirstPage
<1>4. a = x + n - 1
  OBVIOUS
<1> HIDE DEF n, a, q, r
<1>5. y \in Nat
  BY <1>1, <1>2
<1>6. y \div n = q
  <2> DEFINE e == y \div n
             f == y % n
  <2>2. y = q * n
    OBVIOUS
  <2> HIDE DEF y
  <2>1. e \in Int /\ f \in 0..(n - 1) /\ y = n * e + f
    BY <1>1, <1>5, ModDiv
  <2> HIDE DEF e, f
  <2>3. n * (q - e) = f
    BY <1>1, <1>2, <2>1, <2>2
  <2>4. ASSUME q - e >= 1 PROVE FALSE
    <3>1. n * (q - e) >= n
      BY <1>1, <1>2, <2>1, <2>4
    <3> QED
      BY <1>1, <2>1, <2>3, <3>1
  <2>5. ASSUME q - e <= -1 PROVE FALSE
    <3>1. n * (q - e) <= -n
      BY <1>1, <1>2, <2>1, <2>5
    <3> QED
      BY <1>1, <2>1, <2>3, <3>1
  <2>6. e = q
    BY <1>2, <2>1, <2>4, <2>5
  <2> QED
    BY <2>6 DEF e
<1>7. g < q => g * n < x
  <2> SUFFICES ASSUME g + 1 <= q PROVE g * n < x
    BY <1>2
  <2>1. n * (g + 1) <= n * q
    BY <1>1, <1>2
  <2>2. n * (g + 1) = g * n + n /\ g * n \in Nat
    BY <1>1
  <2> QED
    BY <1>1, <1>2, <1>4, <2>1, <2>2
<1>8. g * n < x => g < q
  <2> SUFFICES ASSUME q <= g PROVE g * n >= x /\ g * n \in Nat
    BY <1>1, <1>2
  <2>1. g * n >= n * q /\ g * n \in Nat
    BY <1>1, <1>2
  <2> QED
    BY <1>1, <1>2, <1>4, <2>1
<1>9. FirstPage(x) = q
  BY <1>3, <1>6
<1> QED
  BY <1>2, <1>3, <1>7, <1>8, <1>9 DEF n

\* growproc() starts the loop of allocuvm() at the first page that the process has not got.
LEMMA GrowMem ==
  ASSUME Types, Types', AllMem, nfree \in Nat, load' = load, NEW p \in Slot,
         NEW k \in IOSizes, sbrk_grow(p, k)
  PROVE  MemGoal
<1>0. TableInv /\ TableType /\ MemType /\ MemType'
  BY DEF Types, TableInv
<1> DEFINE a == FirstPage(sz[p])
           m == sz[p] + k
<1>1. /\ state[p] = "RUNNING" /\ pc[p] = "user" /\ m < KERNBASE
      /\ loc' = [loc EXCEPT ![p] = [NoLoc EXCEPT !.i = a, !.n = m]]
      /\ Goto(p, "allocuvm")
      /\ UNCHANGED <<state, nfree, kstack, vm, sz, spare>>
  BY DEF sbrk_grow, InUser, Running, ptable, memVars
<1>2. sz[p] \in Nat /\ k \in Nat /\ vm[p] \in Space /\ spare[p] \in Space
  BY <1>0, PipeAssumption, MemFacts DEF MemType
<1>3. /\ a \in Nat /\ m \in Nat /\ sz[p] <= m
      /\ \A g \in Nat : g < a <=> g * PGSIZE < sz[p]
  BY <1>2, FirstPageIs
<1>4. loc' = [loc EXCEPT ![p] = [np |-> 0, i |-> a, n |-> m]]
  <2> HIDE DEF a, m
  <2> QED
    BY <1>1, <1>3, NoLocIs
<1> HIDE DEF a, m
<1>5. /\ pc'[p] = "allocuvm" /\ loc'[p].i = a /\ loc'[p].n = m
      /\ \A r \in Slot : r # p => pc'[r] = pc[r] /\ loc'[r] = loc[r]
  BY <1>0, <1>1, <1>4 DEF Goto, TableType
<1>6. /\ p \in kstack /\ vm[p].dir /\ spare[p] = NoSpace
      /\ \A g \in Page : vm[p].pte[g] # "none" => g * PGSIZE < sz[p]
  BY <1>1 DEF AllMem, MemInv, Live
<1>7. state' = state /\ kstack' = kstack /\ vm' = vm /\ sz' = sz /\ spare' = spare /\ nfree' = nfree
  BY <1>1
<1>8. \A g \in Page : g < a => g * PGSIZE < m
  <2> SUFFICES ASSUME NEW g \in Page, g < a PROVE g * PGSIZE < m
    OBVIOUS
  <2>1. g \in Nat /\ g * PGSIZE \in Nat
    BY MemFacts
  <2> QED
    BY <1>2, <1>3, <2>1
<1>9. \A g \in Page : vm[p].pte[g] # "none" => g < a
  BY <1>3, <1>6, MemFacts
<1>10. a = FirstPage(sz[p])
  BY DEF a
<1>11. MemInv(p)'
  <2>1. /\ sz'[p] <= loc'[p].n /\ FirstPage(sz'[p]) <= loc'[p].i
        /\ \A g \in Page : g < loc'[p].i => g * PGSIZE < loc'[p].n
        /\ \A g \in Page : vm'[p].pte[g] # "none" => g < loc'[p].i
    BY <1>3, <1>5, <1>7, <1>8, <1>9, <1>10
  <2>2. /\ p \in kstack' /\ vm'[p].dir /\ spare'[p] = NoSpace /\ state'[p] # "UNUSED"
    BY <1>1, <1>6, <1>7
  <2> QED
    BY <1>5, <2>1, <2>2 DEF MemInv
<1>12. nfree' + (Pages(vm'[p]) + Pages(spare'[p])) = nfree + (Pages(vm[p]) + Pages(spare[p]))
  BY <1>7
<1> QED
  BY <1>1, <1>5, <1>7, <1>11, <1>12, OwnMem

\* A process back in its program, with no page at or above its size.
LEMMA MemBelow ==
  ASSUME NEW p \in Slot, pc'[p] = "user", load' = "memory" => loc'[p].i = 0, state'[p] = "RUNNING",
         p \in kstack', vm'[p].dir, spare'[p] = NoSpace,
         \A g \in Page : vm'[p].pte[g] # "none" => g * PGSIZE < sz'[p]
  PROVE  MemInv(p)'
  BY DEF MemInv

\* allocuvm() maps the pages up to the new size or, when memory runs out, gives back all
\* that it has mapped.
LEMMA AllocMem ==
  ASSUME Types, Types', AllMem, nfree \in Nat, load' = load, NEW p \in Slot, allocuvm(p)
  PROVE  MemGoal
<1>0. TableInv /\ TableType /\ MemType /\ MemType'
  BY DEF Types, TableInv
<1> DEFINE cost == 1 + PtNeeded(vm[p], loc[p].i)
           undone == deallocuvm(vm[p], loc[p].n, sz[p])
<1>1. PICK g \in Nat, new \in Nat : g = loc[p].i /\ new = loc[p].n
  BY <1>0 DEF TableType, Locals
<1>2. state[p] = "RUNNING" /\ pc[p] = "allocuvm" /\ UNCHANGED <<state, kstack, spare>>
  BY DEF allocuvm, Running, ptable
<1>3. /\ sz[p] \in Nat /\ vm[p] \in Space /\ spare[p] \in Space /\ new < KERNBASE
      /\ KERNBASE \in Nat
  BY <1>0, <1>1, <1>2, MemFacts DEF MemType
<1>4. /\ p \in kstack /\ vm[p].dir /\ spare[p] = NoSpace
      /\ sz[p] <= new /\ FirstPage(sz[p]) <= g
      /\ \A h \in Page : h < g => h * PGSIZE < new
      /\ \A h \in Page : vm[p].pte[h] # "none" => h < g
  BY <1>1, <1>2 DEF AllMem, MemInv, Live
<1>5. state' = state /\ kstack' = kstack /\ spare' = spare
  BY <1>2
<1>6. Pages(vm[p]) \in Nat /\ Pages(spare[p]) = 0
  BY <1>3, <1>4, PagesIs, FreshPages
<1>7. CASE sz' = [sz EXCEPT ![p] = new] /\ Return(p) /\ nfree' = nfree /\ vm' = vm
  <2>1. /\ pc'[p] = "user" /\ loc'[p].i = 0
        /\ \A r \in Slot : r # p => pc'[r] = pc[r] /\ loc'[r] = loc[r]
    BY <1>0, <1>7, MemReturn
  <2>2. /\ sz'[p] = new /\ \A r \in Slot : r # p => sz'[r] = sz[r]
        /\ vm' = vm /\ nfree' = nfree
    BY <1>0, <1>7 DEF MemType
  <2>3. \A h \in Page : vm'[p].pte[h] # "none" => h * PGSIZE < sz'[p]
    BY <1>4, <2>2
  <2>4. MemInv(p)'
    BY <1>2, <1>4, <1>5, <2>1, <2>2, <2>3, MemBelow
  <2>5. nfree' + (Pages(vm'[p]) + Pages(spare'[p])) = nfree + (Pages(vm[p]) + Pages(spare[p]))
    BY <1>5, <2>2
  <2> QED
    BY <1>2, <1>5, <2>1, <2>2, <2>4, <2>5, OwnMem
<1>8. CASE /\ g * PGSIZE < new /\ cost <= nfree
           /\ vm' = [vm EXCEPT ![p] = Map(@, g, "present")]
           /\ nfree' = nfree - cost
           /\ loc' = [loc EXCEPT ![p].i = @ + 1] /\ pc' = pc /\ sz' = sz
  <2>1. g \in Page
    <3>1. g * PGSIZE \in Nat
      BY MemFacts
    <3> QED
      BY <1>3, <1>8, <3>1, MemFacts
  <2>2. vm[p].pte[g] = "none"
    BY <1>4, <2>1
  <2> DEFINE m == Map(vm[p], g, "present")
  <2>3. /\ PtNeeded(vm[p], g) \in {0, 1} /\ m.dir = vm[p].dir
        /\ \A h \in Page : h # g => m.pte[h] = vm[p].pte[h]
        /\ Pages(m) = Pages(vm[p]) + PtNeeded(vm[p], g) + 1
    BY <1>3, <2>1, <2>2, MapPages
  <2>4. vm' = [vm EXCEPT ![p] = m]
    BY <1>8
  <2> HIDE DEF m
  <2>5. vm'[p] = m /\ \A r \in Slot : r # p => vm'[r] = vm[r]
    BY <1>0, <2>4 DEF MemType
  <2>6. cost \in Nat /\ Pages(m) = Pages(vm[p]) + cost
    BY <1>1, <1>6, <2>3
  <2> HIDE DEF cost
  <2>7. nfree' \in Nat /\ nfree' + (Pages(vm'[p]) + Pages(spare'[p])) = nfree + (Pages(vm[p]) + Pages(spare[p]))
    BY <1>5, <1>6, <1>8, <2>5, <2>6
  <2>8. /\ loc'[p].i = g + 1 /\ loc'[p].n = new
        /\ \A r \in Slot : r # p => loc'[r] = loc[r]
    <3>1. loc' = [loc EXCEPT ![p].i = g + 1]
      BY <1>1, <1>8
    <3>2. loc[p] \in Locals
      BY <1>0 DEF TableType
    <3> QED
      BY <1>0, <1>1, <3>1, <3>2 DEF TableType, Locals
  <2>9. \A h \in Page : h < loc'[p].i => h * PGSIZE < loc'[p].n
    <3> SUFFICES ASSUME NEW h \in Page, h < g + 1 PROVE h * PGSIZE < new
      BY <2>8
    <3>1. h \in Nat
      BY MemFacts
    <3>2. CASE h = g
      BY <1>8, <3>2
    <3>3. CASE h < g
      BY <1>4, <3>3
    <3> QED
      BY <3>1, <3>2, <3>3
  <2>10. \A h \in Page : vm'[p].pte[h] # "none" => h < loc'[p].i
    <3> SUFFICES ASSUME NEW h \in Page, m.pte[h] # "none" PROVE h < g + 1
      BY <2>5, <2>8
    <3>1. h \in Nat
      BY MemFacts
    <3>2. CASE h # g
      BY <1>4, <2>3, <3>1, <3>2
    <3> QED
      BY <3>1, <3>2
  <2>11. sz'[p] <= loc'[p].n /\ FirstPage(sz'[p]) <= loc'[p].i
    <3>1. FirstPage(sz[p]) \in Nat
      BY <1>3, FirstPageIs
    <3> DEFINE f == FirstPage(sz[p])
    <3>2. f <= g + 1
      <4>1. f \in Nat /\ f <= g
        BY <1>4, <3>1
      <4> HIDE DEF f
      <4> QED
        BY <4>1
    <3>3. sz' = sz
      BY <1>8
    <3> QED
      BY <1>4, <2>8, <3>2, <3>3
  <2>12. MemInv(p)'
    <3>1. p \in kstack' /\ vm'[p].dir /\ spare'[p] = NoSpace /\ state'[p] # "UNUSED" /\ pc'[p] = "allocuvm"
      BY <1>2, <1>4, <1>5, <1>8, <2>3, <2>5
    <3> QED
      BY <2>9, <2>10, <2>11, <3>1 DEF MemInv
  <2> QED
    BY <1>2, <1>5, <1>8, <2>5, <2>7, <2>8, <2>12, OwnMem
<1>9. CASE /\ vm' = [vm EXCEPT ![p] = undone] /\ nfree' = nfree + Pages(vm[p]) - Pages(undone)
           /\ Return(p) /\ sz' = sz
  <2>1. /\ pc'[p] = "user" /\ loc'[p].i = 0
        /\ \A r \in Slot : r # p => pc'[r] = pc[r] /\ loc'[r] = loc[r]
    BY <1>0, <1>9, MemReturn
  <2>2. undone = deallocuvm(vm[p], new, sz[p])
    BY <1>1
  <2>3. /\ undone \in Space /\ undone.dir = vm[p].dir
        /\ \A h \in Page : undone.pte[h] =
                              IF h >= FirstPage(sz[p]) /\ h * PGSIZE < new THEN "none" ELSE vm[p].pte[h]
        /\ Pages(undone) <= Pages(vm[p])
    BY <1>3, <2>2, DeallocPages
  <2> HIDE DEF undone
  <2>4. vm'[p] = undone /\ (\A r \in Slot : r # p => vm'[r] = vm[r]) /\ sz' = sz
    BY <1>0, <1>9 DEF MemType
  <2>5. Pages(undone) \in Nat
    BY <2>3, PagesIs
  <2>6. nfree' \in Nat /\ nfree' + (Pages(vm'[p]) + Pages(spare'[p])) = nfree + (Pages(vm[p]) + Pages(spare[p]))
    BY <1>5, <1>6, <1>9, <2>3, <2>4, <2>5
  <2>7. \A h \in Page : vm'[p].pte[h] # "none" => h * PGSIZE < sz'[p]
    <3> SUFFICES ASSUME NEW h \in Page, undone.pte[h] # "none" PROVE h * PGSIZE < sz[p]
      BY <2>4
    <3>1. h \in Nat /\ FirstPage(sz[p]) \in Nat /\ (h < FirstPage(sz[p]) <=> h * PGSIZE < sz[p])
      BY <1>3, FirstPageIs, MemFacts
    <3>2. vm[p].pte[h] # "none" /\ ~ (h >= FirstPage(sz[p]) /\ h * PGSIZE < new)
      BY <2>3
    <3>3. h * PGSIZE < new
      BY <1>4, <3>2
    <3>4. h < FirstPage(sz[p])
      BY <3>1, <3>2, <3>3
    <3> QED
      BY <3>1, <3>4
  <2>8. MemInv(p)'
    BY <1>2, <1>4, <1>5, <2>1, <2>3, <2>4, <2>7, MemBelow
  <2> QED
    BY <1>2, <1>5, <2>1, <2>4, <2>6, <2>8, OwnMem
<1> QED
  BY <1>1, <1>7, <1>8, <1>9 DEF allocuvm

\* growproc() with a smaller size gives back the pages at or above it.
LEMMA ShrinkMem ==
  ASSUME Types, Types', AllMem, nfree \in Nat, load' = load, NEW p \in Slot,
         NEW k \in IOSizes, sbrk_shrink(p, k)
  PROVE  MemGoal
<1>0. TableInv /\ TableType /\ MemType /\ MemType'
  BY DEF Types, TableInv
<1>1. sz[p] \in Nat /\ k \in Nat /\ vm[p] \in Space /\ spare[p] \in Space
  BY <1>0, PipeAssumption, MemFacts DEF MemType
<1>2. k <= sz[p] /\ state[p] = "RUNNING" /\ pc[p] = "user"
  BY DEF sbrk_shrink, InUser, Running
<1>3. PICK new \in Nat : new = sz[p] - k
  BY <1>1, <1>2
<1> DEFINE freed == deallocuvm(vm[p], sz[p], new)
<1>4. /\ vm' = [vm EXCEPT ![p] = freed] /\ nfree' = nfree + Pages(vm[p]) - Pages(freed)
      /\ sz' = IF new = 0 THEN sz ELSE [sz EXCEPT ![p] = new]
      /\ state' = state /\ pc' = pc /\ loc' = loc /\ kstack' = kstack /\ spare' = spare
  BY <1>3 DEF sbrk_shrink, procVars, ptable
<1>5. /\ freed \in Space /\ freed.dir = vm[p].dir
      /\ \A h \in Page : freed.pte[h] =
                            IF h >= FirstPage(new) /\ h * PGSIZE < sz[p] THEN "none" ELSE vm[p].pte[h]
      /\ Pages(freed) <= Pages(vm[p])
  BY <1>1, DeallocPages
<1> HIDE DEF freed
<1>6. /\ p \in kstack /\ vm[p].dir /\ spare[p] = NoSpace /\ (load = "memory" => loc[p].i = 0)
      /\ \A h \in Page : vm[p].pte[h] # "none" => h * PGSIZE < sz[p]
  BY <1>2 DEF AllMem, MemInv, Live
<1>7. Pages(vm[p]) \in Nat /\ Pages(freed) \in Nat /\ Pages(spare[p]) = 0
  BY <1>1, <1>5, <1>6, PagesIs, FreshPages
<1>8. /\ vm'[p] = freed /\ (\A r \in Slot : r # p => vm'[r] = vm[r] /\ sz'[r] = sz[r])
      /\ sz'[p] = IF new = 0 THEN sz[p] ELSE new
  BY <1>0, <1>4 DEF MemType
<1>9. nfree' \in Nat /\ nfree' + (Pages(vm'[p]) + Pages(spare'[p])) = nfree + (Pages(vm[p]) + Pages(spare[p]))
  BY <1>4, <1>5, <1>7, <1>8
<1>10. \A h \in Page : vm'[p].pte[h] # "none" => h * PGSIZE < sz'[p]
  <2> SUFFICES ASSUME NEW h \in Page, freed.pte[h] # "none" PROVE h * PGSIZE < sz'[p]
    BY <1>8
  <2>1. h \in Nat /\ FirstPage(new) \in Nat /\ (h < FirstPage(new) <=> h * PGSIZE < new)
    BY FirstPageIs, MemFacts
  <2>2. vm[p].pte[h] # "none" /\ ~ (h >= FirstPage(new) /\ h * PGSIZE < sz[p])
    BY <1>5
  <2>3. h * PGSIZE < sz[p]
    BY <1>6, <2>2
  <2>4. h < FirstPage(new)
    BY <2>1, <2>2, <2>3
  <2> QED
    BY <1>8, <2>1, <2>3, <2>4
<1>11. MemInv(p)'
  BY <1>2, <1>4, <1>5, <1>6, <1>8, <1>10, MemBelow
<1> QED
  BY <1>2, <1>4, <1>8, <1>9, <1>11, OwnMem

\* Page faults: a reserved page takes one page, anything else none.
LEMMA FaultMem ==
  ASSUME Types, Types', AllMem, nfree \in Nat, load' = load, NEW p \in Slot,
         NEW g \in Page, trap_user(p, g) \/ trap_kernel(p, g)
  PROVE  MemGoal
<1>0. TableInv /\ TableType /\ MemType /\ MemType'
  BY DEF Types, TableInv
<1>1. /\ state[p] = "RUNNING" /\ pc[p] = "user" /\ state' = state /\ pc' = pc /\ loc' = loc
      /\ kstack' = kstack /\ sz' = sz /\ spare' = spare
      /\ allocssupage(p, g) \/ (nfree' = nfree /\ vm' = vm)
  BY DEF trap_user, trap_kernel, InUser, Running, ptable
<1>2. vm[p] \in Space /\ spare[p] \in Space
  BY <1>0 DEF MemType
<1>3. /\ p \in kstack /\ vm[p].dir /\ spare[p] = NoSpace /\ (load = "memory" => loc[p].i = 0)
      /\ \A h \in Page : vm[p].pte[h] # "none" => h * PGSIZE < sz[p]
  BY <1>1 DEF AllMem, MemInv, Live
<1>4. Pages(vm[p]) \in Nat /\ Pages(spare[p]) = 0
  BY <1>2, <1>3, PagesIs, FreshPages
<1>5. CASE nfree' = nfree /\ vm' = vm
  <2>1. MemInv(p)'
    BY <1>1, <1>3, <1>5, MemBelow
  <2>2. nfree' + (Pages(vm'[p]) + Pages(spare'[p])) = nfree + (Pages(vm[p]) + Pages(spare[p]))
    BY <1>1, <1>5
  <2> QED
    BY <1>1, <1>5, <2>1, <2>2, OwnMem
<1>6. CASE allocssupage(p, g)
  <2>1. /\ vm[p].pte[g] = "ssu" /\ nfree > 0 /\ nfree' = nfree - 1
        /\ vm' = [vm EXCEPT ![p].pte[g] = "present"]
    BY <1>6 DEF allocssupage
  <2>2. PICK t : t = [vm[p] EXCEPT !.pte[g] = "present"]
    OBVIOUS
  <2>3. /\ t.dir = vm[p].dir /\ Pages(t) = Pages(vm[p]) + 1
        /\ \A h \in Page : t.pte[h] # "none" => vm[p].pte[h] # "none"
    BY <1>2, <2>1, <2>2, TouchPages
  <2>4. vm' = [vm EXCEPT ![p] = t]
    BY <2>1, <2>2
  <2>5. vm'[p] = t /\ \A r \in Slot : r # p => vm'[r] = vm[r]
    BY <1>0, <2>4 DEF MemType
  <2>6. nfree' \in Nat /\ nfree' + (Pages(vm'[p]) + Pages(spare'[p])) = nfree + (Pages(vm[p]) + Pages(spare[p]))
    BY <1>1, <1>4, <2>1, <2>3, <2>5
  <2>7. \A h \in Page : vm'[p].pte[h] # "none" => h * PGSIZE < sz'[p]
    BY <1>1, <1>3, <2>3, <2>5
  <2>8. MemInv(p)'
    BY <1>1, <1>3, <2>3, <2>5, <2>7, MemBelow
  <2> QED
    BY <1>1, <2>5, <2>6, <2>8, OwnMem
<1> QED
  BY <1>1, <1>5, <1>6

\* ssualloc() pays for the page tables it adds; pages it reserves cost nothing yet.
LEMMA ReserveMem ==
  ASSUME Types, Types', AllMem, nfree \in Nat, load' = load, NEW p \in Slot,
         NEW k \in 1..(MAXPG - 1), sys_ssualloc(p, k)
  PROVE  MemGoal
<1>0. TableInv /\ TableType /\ MemType /\ MemType'
  BY DEF Types, TableInv
<1> DEFINE base == PGROUNDUP(sz[p])
           newsz == base + k * PGSIZE
           pages == {g \in Page : base <= g * PGSIZE /\ g * PGSIZE < newsz}
           tables == {Region(g) : g \in pages} \ vm[p].pt
           got == {r \in tables : Cardinality({t \in tables : t < r}) < nfree}
           ok == tables = got /\ \A g \in pages : vm[p].pte[g] = "none"
           pt == vm[p].pt \cup got
           f == [g \in Page |-> IF ok /\ g \in pages THEN "ssu" ELSE vm[p].pte[g]]
           s == [vm[p] EXCEPT !.pt = pt, !.pte = f]
<1>1. /\ state[p] = "RUNNING" /\ pc[p] = "user" /\ state' = state /\ pc' = pc /\ loc' = loc
      /\ kstack' = kstack /\ spare' = spare
      /\ nfree' = nfree - Cardinality(got)
      /\ vm' = [vm EXCEPT ![p] = [@ EXCEPT !.pt = pt, !.pte = f]]
      /\ sz' = IF ok THEN [sz EXCEPT ![p] = newsz] ELSE sz
  BY DEF sys_ssualloc, InUser, Running, procVars, ptable
<1>2. vm[p] \in Space /\ spare[p] \in Space /\ sz[p] \in Nat /\ vm'[p] \in Space
  BY <1>0, MemFacts DEF MemType
<1>3. /\ p \in kstack /\ vm[p].dir /\ spare[p] = NoSpace /\ (load = "memory" => loc[p].i = 0)
      /\ \A h \in Page : vm[p].pte[h] # "none" => h * PGSIZE < sz[p]
  BY <1>1 DEF AllMem, MemInv, Live
<1>4. vm' = [vm EXCEPT ![p] = s]
  BY <1>0, <1>1 DEF MemType
<1>5. base \in Nat /\ newsz \in Nat /\ sz[p] <= newsz
  <2>1. /\ FirstPage(sz[p]) \in Nat /\ base = FirstPage(sz[p]) * PGSIZE
        /\ ~ (FirstPage(sz[p]) * PGSIZE < sz[p])
    <3>1. FirstPage(sz[p]) \in Nat /\ base = FirstPage(sz[p]) * PGSIZE
      BY <1>2, FirstPageIs
    <3>2. FirstPage(sz[p]) < FirstPage(sz[p]) <=> FirstPage(sz[p]) * PGSIZE < sz[p]
      BY <1>2, <3>1, FirstPageIs
    <3> QED
      BY <3>1, <3>2
  <2>2. k \in Nat /\ k * PGSIZE \in Nat /\ base \in Nat
    BY <1>2, MemFacts, RoundUp
  <2> HIDE DEF base
  <2> QED
    BY <1>2, <2>1, <2>2
<1>6. pages \subseteq Page /\ \A h \in pages : h * PGSIZE < newsz
  OBVIOUS
<1>7. tables \in SUBSET (0..(MAXPG - 1)) /\ MAXPG - 1 \in Nat
  <2>1. \A h \in Page : Region(h) \in 0..(MAXPG - 1)
    <3> SUFFICES ASSUME NEW h \in Page PROVE Region(h) \in 0..(MAXPG - 1)
      OBVIOUS
    <3>1. h \in Nat /\ h <= MAXPG - 1 /\ MAXPG \in Nat
      BY MemFacts DEF Page
    <3>2. h \div PTSPAN \in 0..h
      BY <3>1, MemoryAssumption, DivSmaller
    <3> QED
      BY <3>1, <3>2 DEF Region
  <2> HIDE DEF pages
  <2> QED
    BY <1>6, <2>1, MemFacts
<1>8. got \subseteq tables /\ tables \cap vm[p].pt = {}
  OBVIOUS
<1>9. Cardinality(got) \in Nat /\ Cardinality(got) <= nfree
  <2>1. got = {r \in tables : Cardinality({t \in tables : t < r}) < nfree}
    OBVIOUS
  <2> HIDE DEF tables, got
  <2> QED
    BY <1>7, <2>1, GotTables
<1>10. IsFiniteSet(got)
  <2> HIDE DEF tables, got
  <2>1. IsFiniteSet(0..(MAXPG - 1))
    BY <1>7, FS_Interval
  <2> QED
    BY <1>7, <1>8, <2>1, FS_Subset
<1>11. ok => \A g \in pages : vm[p].pte[g] = "none"
  OBVIOUS
<1>12. /\ f \in [Page -> {"none", "ssu", "present", "guard"}]
       /\ \A g \in Page : f[g] = IF ok /\ g \in pages THEN "ssu" ELSE vm[p].pte[g]
  BY <1>2 DEF Space
<1> HIDE DEF got, tables, ok, pages, f
<1>13. s.dir = vm[p].dir /\ s.pt = pt /\ s.pte = f
  <2> HIDE DEF pt
  <2>1. s = [[vm[p] EXCEPT !.pt = pt] EXCEPT !.pte = f]
    BY <1>2
  <2>2. [vm[p] EXCEPT !.pt = pt] = [dir |-> vm[p].dir, pt |-> pt, pte |-> vm[p].pte]
    <3>1. \A t \in Space : [t EXCEPT !.pt = pt] = [dir |-> t.dir, pt |-> pt, pte |-> t.pte]
      BY DEF Space
    <3> QED
      BY <1>2, <3>1
  <2> HIDE DEF s
  <2> QED
    BY <2>1, <2>2
<1>14. pt = vm[p].pt \cup got
  OBVIOUS
<1> HIDE DEF s, pt
<1>15. vm'[p] = s /\ \A r \in Slot : r # p => vm'[r] = vm[r]
  BY <1>0, <1>4 DEF MemType
<1>16. Mapped(s) = Mapped(vm[p])
  <2>1. \A g \in Page : f[g] \in {"present", "guard"} <=> vm[p].pte[g] \in {"present", "guard"}
    BY <1>11, <1>12
  <2> QED
    BY <1>13, <2>1 DEF Mapped, IsMapped
<1>17. Pages(s) = Pages(vm[p]) + Cardinality(got)
  <2>1. s \in Space
    BY <1>2, <1>15
  <2>2. /\ Cardinality(s.pt) \in Nat
        /\ Pages(s) = DirPages(s) + Cardinality(s.pt) + Cardinality(Mapped(s))
    BY <2>1, PagesIs
  <2>3. /\ IsFiniteSet(vm[p].pt) /\ Cardinality(vm[p].pt) \in Nat
        /\ DirPages(vm[p]) \in Nat /\ Cardinality(Mapped(vm[p])) \in Nat
        /\ Pages(vm[p]) = DirPages(vm[p]) + Cardinality(vm[p].pt) + Cardinality(Mapped(vm[p]))
    BY <1>2, PagesIs
  <2>4. DirPages(s) = DirPages(vm[p])
    BY <1>13 DEF DirPages
  <2>5. Cardinality(pt) = Cardinality(vm[p].pt) + Cardinality(got) - Cardinality(vm[p].pt \cap got)
    BY <1>10, <1>14, <2>3, FS_Union
  <2>6. vm[p].pt \cap got = {}
    BY <1>8
  <2>7. Cardinality(vm[p].pt \cap got) = 0
    BY <2>6, FS_EmptySet
  <2>8. Cardinality(s.pt) = Cardinality(vm[p].pt) + Cardinality(got)
    BY <1>9, <1>13, <2>3, <2>5, <2>7
  <2> QED
    BY <1>9, <1>16, <2>2, <2>3, <2>4, <2>8
<1>18. Pages(vm[p]) \in Nat /\ Pages(spare[p]) = 0
  BY <1>2, <1>3, PagesIs, FreshPages
<1>19. nfree' \in Nat /\ nfree' + (Pages(vm'[p]) + Pages(spare'[p])) = nfree + (Pages(vm[p]) + Pages(spare[p]))
  BY <1>1, <1>9, <1>15, <1>17, <1>18
<1> HIDE DEF newsz
<1>20. /\ sz'[p] = IF ok THEN newsz ELSE sz[p]
       /\ \A r \in Slot : r # p => sz'[r] = sz[r]
  BY <1>0, <1>1 DEF MemType
<1>21. \A h \in Page : vm'[p].pte[h] # "none" => h * PGSIZE < sz'[p]
  <2> SUFFICES ASSUME NEW h \in Page, f[h] # "none" PROVE h * PGSIZE < sz'[p]
    BY <1>13, <1>15
  <2>1. CASE ok /\ h \in pages
    BY <1>6, <1>20, <2>1
  <2>2. CASE ~ (ok /\ h \in pages)
    <3>1. h * PGSIZE < sz[p] /\ h * PGSIZE \in Nat
      BY <1>3, <1>12, <2>2, MemFacts
    <3> QED
      BY <1>2, <1>5, <1>20, <3>1
  <2> QED
    BY <2>1, <2>2
<1>22. MemInv(p)'
  BY <1>1, <1>3, <1>13, <1>15, <1>21, MemBelow
<1> QED
  BY <1>1, <1>15, <1>19, <1>20, <1>22, OwnMem

\* exec() builds its address space beside the one in use, and gives back one of the two.
LEMMA ExecMem ==
  ASSUME Types, Types', AllMem, nfree \in Nat, load = "memory", load' = load, NEW p \in Slot,
         exec(p) \/ exec_page(p) \/ exec_bad(p) \/ exec_commit(p)
  PROVE  MemGoal
<1>0. TableInv /\ TableType /\ MemType /\ MemType'
  BY DEF Types, TableInv
<1>1. vm[p] \in Space /\ spare[p] \in Space /\ Pages(vm[p]) \in Nat /\ Pages(spare[p]) \in Nat
  BY <1>0, PagesIs DEF MemType
<1>2. Pages(NoSpace) = 0 /\ Pages(setupkvm) = KVM /\ KVM \in Nat
  BY FreshPages, MemFacts
<1>3. MemInv(p)
  BY DEF AllMem
<1>4. state[p] = "RUNNING" /\ pc[p] # "allocuvm" /\ state' = state /\ kstack' = kstack
  BY DEF exec, exec_page, exec_bad, exec_commit, InUser, Running, ptable
<1>5. /\ p \in kstack /\ vm[p].dir
      /\ \A h \in Page : vm[p].pte[h] # "none" => h * PGSIZE < sz[p]
  BY <1>3, <1>4 DEF MemInv, Live
<1>6. CASE exec(p)
  <2>1. /\ pc[p] = "user" /\ KVM <= nfree /\ nfree' = nfree - KVM
        /\ spare' = [spare EXCEPT ![p] = setupkvm] /\ Goto(p, "exec")
        /\ loc' = loc /\ vm' = vm /\ sz' = sz
    BY <1>6 DEF exec, InUser
  <2>2. spare[p] = NoSpace /\ loc[p].i = 0
    BY <1>3, <2>1 DEF MemInv
  <2>3. /\ spare'[p] = setupkvm /\ pc'[p] = "exec"
        /\ \A r \in Slot : r # p => spare'[r] = spare[r] /\ pc'[r] = pc[r]
    BY <1>0, <2>1 DEF MemType, TableType, Goto
  <2>4. nfree' \in Nat /\ nfree' + (Pages(vm'[p]) + Pages(spare'[p])) = nfree + (Pages(vm[p]) + Pages(spare[p]))
    BY <1>1, <1>2, <2>1, <2>2, <2>3
  <2>5. /\ spare'[p].dir /\ loc'[p].i <= ExecPages + 2
        /\ \A g \in Page : spare'[p].pte[g] # "none" => g < loc'[p].i
    BY <2>1, <2>2, <2>3, FreshPages, MemFacts
  <2>6. MemInv(p)'
    <3>1. /\ p \in kstack' /\ vm'[p].dir /\ state'[p] # "UNUSED"
          /\ \A h \in Page : vm'[p].pte[h] # "none" => h * PGSIZE < sz'[p]
      BY <1>4, <1>5, <2>1
    <3> QED
      BY <2>3, <2>5, <3>1 DEF MemInv
  <2> QED
    BY <1>4, <2>1, <2>3, <2>4, <2>6, OwnMem
<1>7. CASE exec_page(p)
  <2>1. PICK g \in Nat : g = loc[p].i
    BY <1>0 DEF TableType, Locals
  <2>2. PICK v \in {"present", "guard"} : v = IF g = ExecPages THEN "guard" ELSE "present"
    OBVIOUS
  <2> DEFINE cost == 1 + PtNeeded(spare[p], g)
             m == Map(spare[p], g, v)
  <2>3. /\ pc[p] = "exec" /\ g < ExecPages + 2 /\ cost <= nfree /\ nfree' = nfree - cost
        /\ spare' = [spare EXCEPT ![p] = Map(@, g, v)]
        /\ loc' = [loc EXCEPT ![p].i = @ + 1]
        /\ pc' = pc /\ vm' = vm /\ sz' = sz
    BY <1>7, <2>1, <2>2 DEF exec_page
  <2>4. /\ spare[p].dir
        /\ \A h \in Page : spare[p].pte[h] # "none" => h < g
    BY <1>3, <2>1, <2>3 DEF MemInv
  <2>5. g \in Page /\ ExecPages \in Nat
    BY <2>3, MemFacts
  <2>6. spare[p].pte[g] = "none"
    BY <2>4, <2>5
  <2>7. /\ PtNeeded(spare[p], g) \in {0, 1} /\ m.dir = spare[p].dir
        /\ \A h \in Page : h # g => m.pte[h] = spare[p].pte[h]
        /\ Pages(m) = Pages(spare[p]) + PtNeeded(spare[p], g) + (IF v = "ssu" THEN 0 ELSE 1)
    BY <1>1, <2>5, <2>6, MapPages
  <2>8. spare' = [spare EXCEPT ![p] = m]
    BY <2>3
  <2> HIDE DEF m
  <2>9. spare'[p] = m /\ \A r \in Slot : r # p => spare'[r] = spare[r]
    BY <1>0, <2>8 DEF MemType
  <2>10. cost \in Nat /\ Pages(m) = Pages(spare[p]) + cost
    BY <1>1, <2>7
  <2> HIDE DEF cost
  <2>11. nfree' \in Nat /\ nfree' + (Pages(vm'[p]) + Pages(spare'[p])) = nfree + (Pages(vm[p]) + Pages(spare[p]))
    BY <1>1, <2>3, <2>9, <2>10
  <2>12. /\ loc'[p].i = g + 1
         /\ \A r \in Slot : r # p => loc'[r] = loc[r]
    <3>1. loc' = [loc EXCEPT ![p].i = g + 1]
      BY <2>1, <2>3
    <3>2. loc[p] \in Locals
      BY <1>0 DEF TableType
    <3> QED
      BY <1>0, <2>1, <3>1, <3>2 DEF TableType, Locals
  <2>13. \A h \in Page : spare'[p].pte[h] # "none" => h < loc'[p].i
    <3> SUFFICES ASSUME NEW h \in Page, m.pte[h] # "none" PROVE h < g + 1
      BY <2>9, <2>12
    <3>1. h \in Nat
      BY MemFacts
    <3>2. CASE h # g
      BY <2>4, <2>7, <3>1, <3>2
    <3> QED
      BY <3>1, <3>2
  <2>14. spare'[p].dir /\ loc'[p].i <= ExecPages + 2 /\ pc'[p] = "exec"
    <3>1. g + 1 <= ExecPages + 2
      BY <2>3, <2>5
    <3> QED
      BY <2>3, <2>4, <2>7, <2>9, <2>12, <3>1
  <2>15. MemInv(p)'
    <3>1. /\ p \in kstack' /\ vm'[p].dir /\ state'[p] # "UNUSED"
          /\ \A h \in Page : vm'[p].pte[h] # "none" => h * PGSIZE < sz'[p]
      BY <1>4, <1>5, <2>3
    <3> QED
      BY <2>13, <2>14, <3>1 DEF MemInv
  <2> QED
    BY <1>4, <2>3, <2>9, <2>11, <2>12, <2>15, OwnMem
<1>8. CASE exec_bad(p)
  <2>1. /\ nfree' = nfree + Pages(spare[p]) /\ spare' = [spare EXCEPT ![p] = NoSpace]
        /\ Return(p) /\ vm' = vm /\ sz' = sz
    BY <1>8 DEF exec_bad
  <2>2. /\ pc'[p] = "user" /\ loc'[p].i = 0
        /\ \A r \in Slot : r # p => pc'[r] = pc[r] /\ loc'[r] = loc[r]
    BY <1>0, <2>1, MemReturn
  <2>3. spare'[p] = NoSpace /\ \A r \in Slot : r # p => spare'[r] = spare[r]
    BY <1>0, <2>1 DEF MemType
  <2>4. nfree' \in Nat /\ nfree' + (Pages(vm'[p]) + Pages(spare'[p])) = nfree + (Pages(vm[p]) + Pages(spare[p]))
    BY <1>1, <1>2, <2>1, <2>3
  <2>5. MemInv(p)'
    BY <1>4, <1>5, <2>1, <2>2, <2>3, MemBelow
  <2> QED
    BY <1>4, <2>1, <2>2, <2>3, <2>4, <2>5, OwnMem
<1>9. CASE exec_commit(p)
  <2> DEFINE z == (ExecPages + 2) * PGSIZE
  <2>1. /\ pc[p] = "exec" /\ loc[p].i = ExecPages + 2
        /\ nfree' = nfree + Pages(vm[p]) /\ spare' = [spare EXCEPT ![p] = NoSpace]
        /\ vm' = [vm EXCEPT ![p] = spare[p]] /\ sz' = [sz EXCEPT ![p] = z] /\ Return(p)
    BY <1>9 DEF exec_commit
  <2>2. /\ pc'[p] = "user" /\ loc'[p].i = 0
        /\ \A r \in Slot : r # p => pc'[r] = pc[r] /\ loc'[r] = loc[r]
    BY <1>0, <2>1, MemReturn
  <2>3. /\ spare[p].dir
        /\ \A h \in Page : spare[p].pte[h] # "none" => h < ExecPages + 2
    BY <1>3, <2>1 DEF MemInv
  <2>4. \A h \in Page : spare[p].pte[h] # "none" => h * PGSIZE < z
    <3> SUFFICES ASSUME NEW h \in Page, spare[p].pte[h] # "none" PROVE h * PGSIZE < z
      OBVIOUS
    <3>1. h \in Nat /\ h < ExecPages + 2 /\ PGSIZE \in Nat \ {0} /\ ExecPages \in Nat
      BY <2>3, MemFacts
    <3>2. \A a, b \in Nat : a < b => a * PGSIZE < b * PGSIZE
      BY <3>1, SMTT(30)
    <3> QED
      BY <3>1, <3>2
  <2> HIDE DEF z
  <2>5. /\ spare'[p] = NoSpace /\ vm'[p] = spare[p] /\ sz'[p] = z
        /\ \A r \in Slot : r # p => spare'[r] = spare[r] /\ vm'[r] = vm[r] /\ sz'[r] = sz[r]
    BY <1>0, <2>1 DEF MemType
  <2>6. nfree' \in Nat /\ nfree' + (Pages(vm'[p]) + Pages(spare'[p])) = nfree + (Pages(vm[p]) + Pages(spare[p]))
    BY <1>1, <1>2, <2>1, <2>5
  <2>7. /\ \A h \in Page : vm'[p].pte[h] # "none" => h * PGSIZE < sz'[p]
        /\ vm'[p].dir
    BY <2>3, <2>4, <2>5
  <2>8. MemInv(p)'
    BY <1>4, <1>5, <2>2, <2>5, <2>7, MemBelow
  <2> QED
    BY <1>4, <2>2, <2>5, <2>6, <2>8, OwnMem
<1> QED
  BY <1>6, <1>7, <1>8, <1>9

\* Every step on address spaces keeps their invariant and loses no page.
LEMMA MemStepMem ==
  ASSUME Types, Types', AllMem, nfree \in Nat, load' = load, NEW p \in Slot, MemStep(p)
  PROVE  MemGoal
<1>1. CASE wait(p)
  BY <1>1, WaitMem
<1>2. CASE fork(p) \/ fork_return(p)
  BY <1>2, ForkMem, ForkReturnMem
<1>3. CASE fork_kstack(p) \/ fork_setupkvm(p) \/ copyuvm(p)
  BY <1>3, ForkStepsMem
<1>4. CASE allocuvm(p)
  BY <1>4, AllocMem
<1>5. CASE \E n \in IOSizes : sbrk_grow(p, n) \/ sbrk_shrink(p, n)
  BY <1>5, GrowMem, ShrinkMem
<1>6. CASE \E n \in 1..(MAXPG - 1) : sys_ssualloc(p, n)
  BY <1>6, ReserveMem
<1>7. CASE \E g \in Page : trap_user(p, g) \/ trap_kernel(p, g)
  BY <1>7, FaultMem
<1>8. CASE load = "memory" /\ (exec(p) \/ exec_page(p) \/ exec_bad(p) \/ exec_commit(p))
  BY <1>8, ExecMem
<1> QED
  BY <1>1, <1>2, <1>3, <1>4, <1>5, <1>6, <1>7, <1>8 DEF MemStep

-----------------------------------------------------------------------------
(* No page is lost                                                         *)

\* The total is a number.
LEMMA TotalNat ==
  ASSUME MemType
  PROVE  Total \in Nat
<1> DEFINE w == [r \in Slot |-> Pages(vm[r]) + Pages(spare[r])]
<1>1. \A r \in Slot : Pages(vm[r]) \in Nat /\ Pages(spare[r]) \in Nat
  BY PagesIs DEF MemType
<1>2. w \in [Slot -> Nat] /\ \A r \in Slot : w[r] = Pages(vm[r]) + Pages(spare[r])
  BY <1>1
<1> HIDE DEF w
<1>3. PICK f : SumsUp(f, w) /\ Total = f[Slot]
  BY <1>2, TotalIs
<1>4. f[Slot] \in Nat
  BY <1>2, <1>3, SlotFacts, SumChanges
<1> QED
  BY <1>3, <1>4

\* The books, with the page of the pipe.
PagesInv == nfree \in Nat /\ PagesAccounted

\* The books stay right when what the step moves adds up.
LEMMA Audit ==
  ASSUME MemType, MemType', PagesInv, load' = load, nfree' \in Nat,
         NEW u \in {0, 1}, pipe.used => u = 1, ~pipe.used => u = 0,
         NEW v \in {0, 1}, pipe'.used => v = 1, ~pipe'.used => v = 0,
         nfree' + Cardinality(kstack') + Total' + v = nfree + Cardinality(kstack) + Total + u
  PROVE  PagesInv'
<1>1. Total \in Nat /\ Total' \in Nat
  <2>1. MemType => Total \in Nat
    BY TotalNat
  <2>2. (MemType => Total \in Nat)'
    BY TotalNat, PTL
  <2> QED
    BY <2>1, <2>2
<1>2. IsFiniteSet(kstack) /\ IsFiniteSet(kstack')
  BY SlotFacts, FS_Subset DEF MemType
<1>3. Cardinality(kstack) \in Nat /\ Cardinality(kstack') \in Nat
  BY <1>2, FS_CardinalityType
<1> DEFINE x == IF load = "memory" THEN NPAGES ELSE MorePages
           a == IF pipe.used THEN 1 ELSE 0
           b == IF pipe'.used THEN 1 ELSE 0
<1>4. nfree + Cardinality(kstack) + a + Total = x
  BY DEF PagesInv, PagesAccounted, Total
<1>5. ASSUME nfree' + Cardinality(kstack') + b + Total' = x
      PROVE  PagesInv'
  BY <1>5 DEF PagesInv, PagesAccounted, Total
<1>6. a = u /\ b = v /\ nfree \in Nat
  BY DEF PagesInv
<1> DEFINE m == nfree
           n == nfree'
           c == Cardinality(kstack)
           d == Cardinality(kstack')
           s == Total
           t == Total'
<1>7. /\ m \in Nat /\ n \in Nat /\ c \in Nat /\ d \in Nat /\ s \in Nat /\ t \in Nat
      /\ n + d + t + v = m + c + s + u /\ m + c + u + s = x
  BY <1>1, <1>3, <1>4, <1>6
<1>8. ASSUME n + d + v + t = x
      PROVE  PagesInv'
  BY <1>5, <1>6, <1>8
<1> HIDE DEF m, n, c, d, s, t, x, a, b
<1>9. n + d + v + t = x
  BY <1>7
<1> QED
  BY <1>8, <1>9

\* A step that leaves the pipe alone.
LEMMA AuditNoPipe ==
  ASSUME MemType, MemType', PagesInv, load' = load, UNCHANGED pipe, Balanced
  PROVE  PagesInv'
<1>1. PICK u \in {0, 1} : (pipe.used => u = 1) /\ (~pipe.used => u = 0)
  OBVIOUS
<1>2. nfree' \in Nat /\ nfree' + Cardinality(kstack') + Total' = nfree + Cardinality(kstack) + Total
  BY DEF Balanced
<1>3. nfree' + Cardinality(kstack') + Total' + u = nfree + Cardinality(kstack) + Total + u
  BY <1>2
<1>4. pipe' = pipe
  OBVIOUS
<1> QED
  BY <1>1, <1>2, <1>3, <1>4, Audit

\* pipealloc() takes the pipe's page and the second pipeclose() gives it back.
LEMMA PipePage ==
  ASSUME Types, PipeInv, EndsInv, nfree \in Nat, NEW p \in Slot, PipeStep(p)
  PROVE  /\ nfree' \in Nat
         /\ \/ nfree' = nfree /\ (pipe'.used <=> pipe.used)
            \/ nfree' = nfree - 1 /\ ~pipe.used /\ pipe'.used
            \/ nfree' = nfree + 1 /\ pipe.used /\ ~pipe'.used
<1>0. TableType /\ PipeType /\ load = "pipe"
  BY DEF Types, TableInv, PipeStep
<1>1. CASE sys_pipe(p)
  <2>1. nfree > 0 /\ nfree' = nfree - 1 /\ ~pipe.used /\ pipe' = NewPipe
    BY <1>1 DEF sys_pipe, NewPipe
  <2> QED
    BY <1>0, <2>1, PipeRecs
<1>2. CASE pipewrite(p)
  <2>1. nfree' = nfree /\ pipe' = Wrote(p)
    BY <1>0, <1>2, WriteIs DEF memVars
  <2> QED
    BY <1>0, <2>1, WroteIs
<1>3. CASE piperead(p)
  <2>1. nfree' = nfree /\ (pipe' = pipe \/ \E k \in Nat : pipe' = [pipe EXCEPT !.nread = (@ + k) % UINT])
    BY <1>0, <1>3, ReadPipeIs DEF memVars, pipeVars
  <2>2. pipe'.used = pipe.used
    BY <1>0, <2>1, TookIs
  <2> QED
    BY <2>1, <2>2
<1>4. CASE pipeclose(p)
  <2>1. /\ pc[p] = "pipeclose" /\ pipe' = Closed(p)
        /\ IF ~Closing(p).readopen /\ ~Closing(p).writeopen THEN nfree' = nfree + 1 ELSE nfree' = nfree
    BY <1>4, CloseIs
  <2>2. pipe.used
    <3>1. loc[p].i \in {0, 1}
      BY <1>0, <2>1 DEF EndsInv
    <3>2. PICK e \in Ends : Closes(p, e)
      BY <2>1, <3>1 DEF Closes, Flag, Ends
    <3>3. EndOpen(e)
      BY <1>0, <3>2 DEF EndsInv, HasEnd
    <3> QED
      BY <3>3 DEF EndOpen, PipeInv
  <2>3. /\ ~NoPipe.used /\ Closing(p).used = pipe.used
    BY <1>0, PipeRecs
  <2>4. CASE ~Closing(p).readopen /\ ~Closing(p).writeopen
    BY <2>1, <2>2, <2>3, <2>4 DEF Closed
  <2>5. CASE ~ (~Closing(p).readopen /\ ~Closing(p).writeopen)
    BY <2>1, <2>3, <2>5 DEF Closed
  <2> QED
    BY <2>4, <2>5
<1>5. CASE pipewrite_sleep(p) \/ piperead_sleep(p)
  BY <1>5 DEF pipewrite_sleep, piperead_sleep, memVars, pipeVars
<1>6. CASE \E n \in IOSizes : sys_write(p, n) \/ sys_read(p, n)
  BY <1>6 DEF sys_write, sys_read, memVars, pipeVars
<1>7. CASE \E e \in {"r", "w"} : fileclose(p, e)
  BY <1>7 DEF fileclose, memVars, pipeVars
<1> QED
  BY <1>1, <1>2, <1>3, <1>4, <1>5, <1>6, <1>7 DEF PipeStep

\* Every step of the kernel keeps the address spaces and the books.
LEMMA PagesKeep ==
  ASSUME Types, PipeInv, EndsInv, AllMem, PagesInv, [Next]_vars
  PROVE  AllMem' /\ PagesInv'
<1>0. TableInv /\ TableType /\ MemType /\ PipeType /\ ConsType /\ ClockType /\ DiskType /\ DiskNamed
  BY DEF Types, TableInv
<1>1. Types' /\ MemType' /\ nfree \in Nat /\ load' = load
  <2>1. Types'
    BY Frames
  <2> QED
    BY <2>1 DEF Types, PagesInv, Next, vars
<1>2. ASSUME UNCHANGED <<memVars, pipe>>
      PROVE  PagesInv'
  <2>1. UNCHANGED <<nfree, kstack, vm, spare>> /\ UNCHANGED pipe
    BY <1>2 DEF memVars
  <2>2. Balanced
    BY <1>0, <1>1, <2>1, BalanceSame
  <2> QED
    BY <1>0, <1>1, <2>1, <2>2, AuditNoPipe
<1>3. ASSUME NEW L, NEW K, Foreign(L, K), L \cap InMemory = {}, load # "memory", UNCHANGED <<memVars, pipe>>
      PROVE  AllMem' /\ PagesInv'
  <2>1. UNCHANGED <<kstack, vm, sz, spare>>
    BY <1>3 DEF memVars
  <2> QED
    BY <1>0, <1>1, <1>2, <1>3, <2>1, ForeignMem
<1>4. CASE UNCHANGED vars
  <2>1. UNCHANGED <<memVars, pipe>> /\ UNCHANGED <<state, pc, loc, kstack, vm, sz, spare>>
    BY <1>4 DEF vars, procVars, ptable, memVars, pipeVars
  <2>2. \A q \in Slot : (state'[q] = "UNUSED" => state[q] = "UNUSED") /\ (Live(q)' => Live(q))
    BY <2>1 DEF Live
  <2>3. \A q \in Slot : pc'[q] = pc[q] /\ loc'[q] = loc[q]
    BY <2>1
  <2>4. AllMem'
    BY <1>1, <2>1, <2>2, <2>3, MemAside
  <2> QED
    BY <1>2, <2>1, <2>4
<1>5. ASSUME NEW p \in Slot, ProcStep(p) PROVE AllMem' /\ PagesInv'
  <2>1. UNCHANGED <<memVars, pipe>>
    BY <1>5 DEF ProcStep, pipeVars
  <2> QED
    BY <1>0, <1>1, <1>2, <1>5, <2>1, ProcMem
<1>6. ASSUME NEW p \in Slot, MemStep(p) PROVE AllMem' /\ PagesInv'
  <2>1. AllMem' /\ Balanced
    BY <1>1, <1>6, MemStepMem DEF MemGoal
  <2>2. UNCHANGED pipe
    BY <1>6 DEF MemStep, pipeVars
  <2> QED
    BY <1>0, <1>1, <2>1, <2>2, AuditNoPipe
<1>7. ASSUME NEW p \in Slot, PipeStep(p) PROVE AllMem' /\ PagesInv'
  <2>1. Foreign(Common \cup InPipe, {"nread", "nwrite"}) /\ UNCHANGED <<kstack, vm, sz, spare>>
    BY <1>0, <1>7, PipeFrame
  <2>2. load # "memory"
    BY <1>7 DEF PipeStep
  <2>3. (Common \cup InPipe) \cap InMemory = {}
    BY LabelFacts
  <2>4. AllMem'
    BY <1>0, <1>1, <2>1, <2>2, <2>3, ForeignMem
  <2>5. /\ nfree' \in Nat
        /\ \/ nfree' = nfree /\ (pipe'.used <=> pipe.used)
           \/ nfree' = nfree - 1 /\ ~pipe.used /\ pipe'.used
           \/ nfree' = nfree + 1 /\ pipe.used /\ ~pipe'.used
    BY <1>1, <1>7, PipePage
  <2>6. PICK u \in {0, 1} : (pipe.used => u = 1) /\ (~pipe.used => u = 0)
    OBVIOUS
  <2>7. PICK v \in {0, 1} : (pipe'.used => v = 1) /\ (~pipe'.used => v = 0)
    OBVIOUS
  <2>8. nfree' + v = nfree + u
    <3>1. CASE nfree' = nfree /\ (pipe'.used <=> pipe.used)
      <4>1. u = v
        BY <2>6, <2>7, <3>1
      <4> QED
        BY <3>1, <4>1
    <3>2. CASE nfree' = nfree - 1 /\ ~pipe.used /\ pipe'.used
      <4>1. u = 0 /\ v = 1
        BY <2>6, <2>7, <3>2
      <4> QED
        BY <1>1, <3>2, <4>1
    <3>3. CASE nfree' = nfree + 1 /\ pipe.used /\ ~pipe'.used
      <4>1. u = 1 /\ v = 0
        BY <2>6, <2>7, <3>3
      <4> QED
        BY <1>1, <3>3, <4>1
    <3> QED
      BY <2>5, <3>1, <3>2, <3>3
  <2>9. UNCHANGED <<kstack, vm, spare>> /\ kstack' = kstack
    BY <2>1
  <2>10. Total' = Total
    <3>1. initproc \in Slot /\ \A r \in Slot : vm'[r] = vm[r] /\ spare'[r] = spare[r]
      BY <2>1, SlotFacts
    <3>2. /\ Total \in Nat /\ Total' \in Nat
          /\ Total' + (Pages(vm[initproc]) + Pages(spare[initproc]))
               = Total + (Pages(vm'[initproc]) + Pages(spare'[initproc]))
      BY <1>0, <1>1, <3>1, Account
    <3>3. Pages(vm[initproc]) \in Nat /\ Pages(spare[initproc]) \in Nat
      BY <1>0, <3>1, PagesIs DEF MemType
    <3> DEFINE x == Pages(vm[initproc]) + Pages(spare[initproc])
               s == Total
               t == Total'
    <3>4. x \in Nat /\ s \in Nat /\ t \in Nat /\ t + x = s + x
      BY <3>1, <3>2, <3>3
    <3> HIDE DEF x, s, t
    <3>5. t = s
      BY <3>4
    <3> QED
      BY <3>5 DEF s, t
  <2>11. Total \in Nat /\ Cardinality(kstack) \in Nat
    BY <1>0, TotalNat, SlotFacts, FS_Subset, FS_CardinalityType DEF MemType
  <2>12. nfree' + Cardinality(kstack') + Total' + v = nfree + Cardinality(kstack) + Total + u
    <3> DEFINE c == Cardinality(kstack)
               t == Total
               m == nfree
               n == nfree'
    <3>1. c \in Nat /\ t \in Nat
      BY <2>11
    <3>2. m \in Nat
      BY <1>1
    <3>3. n \in Nat
      BY <2>5
    <3>4. n + v = m + u
      BY <2>8
    <3> HIDE DEF c, t, m, n
    <3>5. u \in Nat /\ v \in Nat
      BY <2>6, <2>7
    <3>6. n + c + t + v = m + c + t + u
      BY <3>1, <3>2, <3>3, <3>4, <3>5
    <3> QED
      BY <2>9, <2>10, <3>6 DEF c, t, m, n
  <2> QED
    BY <1>0, <1>1, <2>4, <2>5, <2>6, <2>7, <2>12, Audit
<1>8. ASSUME NEW p \in Slot, ConsoleStep(p) PROVE AllMem' /\ PagesInv'
  <2>1. Foreign(Common \cup InConsole, {"input"})
    BY <1>0, <1>8, ConsoleFrame
  <2>2. load # "memory" /\ UNCHANGED <<memVars, pipe>> /\ (Common \cup InConsole) \cap InMemory = {}
    BY <1>8, LabelFacts DEF ConsoleStep, pipeVars
  <2> QED
    BY <1>3, <2>1, <2>2
<1>9. ASSUME NEW p \in Slot, ClockStep(p) PROVE AllMem' /\ PagesInv'
  <2>1. Foreign(Common \cup InClock, {"ticks"})
    BY <1>0, <1>9, ClockFrame
  <2>2. load # "memory" /\ UNCHANGED <<memVars, pipe>> /\ (Common \cup InClock) \cap InMemory = {}
    BY <1>9, LabelFacts DEF ClockStep, pipeVars
  <2> QED
    BY <1>3, <2>1, <2>2
<1>10. ASSUME NEW p \in Slot, DiskStep(p) PROVE AllMem' /\ PagesInv'
  <2>1. Foreign(Common \cup InDisk, {"buf", "lock"})
    BY <1>0, <1>10, DiskFrame
  <2>2. load # "memory" /\ UNCHANGED <<memVars, pipe>> /\ (Common \cup InDisk) \cap InMemory = {}
    BY <1>10, LabelFacts DEF DiskStep, pipeVars
  <2> QED
    BY <1>3, <2>1, <2>2
<1>11. CASE Interrupt
  <2>1. CASE load = "console" /\ (\E c \in Key : consoleintr(c)) /\ UNCHANGED <<memVars, pipe>>
    <3>1. Foreign(Common \cup InConsole, {"input"}) /\ (Common \cup InConsole) \cap InMemory = {}
      BY <1>0, <2>1, KeyFrame, LabelFacts
    <3> QED
      BY <1>3, <2>1, <3>1
  <2>2. CASE load = "clock" /\ timer_idle /\ UNCHANGED <<memVars, pipe>>
    <3>1. Foreign(Common \cup InClock, {"ticks"}) /\ (Common \cup InClock) \cap InMemory = {}
      BY <1>0, <2>2, TimerIdleFrame, LabelFacts
    <3> QED
      BY <1>3, <2>2, <3>1
  <2>3. CASE load = "disk" /\ ideintr /\ UNCHANGED <<memVars, pipe>>
    <3>1. Foreign(Common \cup InDisk, {"buf", "lock"}) /\ (Common \cup InDisk) \cap InMemory = {}
      BY <1>0, <2>3, IdeintrFrame, LabelFacts
    <3> QED
      BY <1>3, <2>3, <3>1
  <2> QED
    BY <1>11, <2>1, <2>2, <2>3 DEF Interrupt, pipeVars
<1> QED
  BY <1>4, <1>5, <1>6, <1>7, <1>8, <1>9, <1>10, <1>11 DEF Next

\* As many equal numbers as there are slots.
LEMMA SumConstant ==
  ASSUME NEW k \in Nat, NEW w \in [Slot -> Nat], \A q \in Slot : w[q] = k, NEW f, SumsUp(f, w)
  PROVE  f[Slot] = NPROC * k
<1> DEFINE P(s) == f[s] = Cardinality(s) * k
           Bad == {s \in SUBSET Slot : ~ P(s)}
           Sizes == {Cardinality(s) : s \in Bad}
<1>1. \A s \in SUBSET Slot : f[s] = Sum1(f, w, s)
  <2> DEFINE F(s) == Sum1(f, w, s)
  <2>1. f = [s \in SUBSET Slot |-> F(s)]
    BY DEF SumsUp
  <2> HIDE DEF F
  <2>2. \A s \in SUBSET Slot : f[s] = F(s)
    BY <2>1
  <2> QED
    BY <2>2 DEF F
<1>2. ASSUME NEW s \in SUBSET Slot, s # {}, P(s \ {AnyOf(s)})
      PROVE  P(s)
  <2> DEFINE x == AnyOf(s)
             t == s \ {x}
  <2>1. /\ x \in s /\ x \in Slot /\ t \in SUBSET Slot
        /\ Cardinality(s) \in Nat /\ Cardinality(t) \in Nat
    BY <1>2, OneLess
  <2>2. IsFiniteSet(s)
    BY SlotFacts, FS_Subset
  <2>3. Cardinality(t) = Cardinality(s) - 1
    BY <2>1, <2>2, FS_RemoveElement
  <2>4. f[s] = w[x] + f[t]
    BY <1>1, <1>2 DEF Sum1
  <2>5. f[t] = Cardinality(t) * k /\ w[x] = k
    BY <1>2, <2>1
  <2> DEFINE m == Cardinality(t)
             n == Cardinality(s)
             a == f[s]
  <2>6. a = k + m * k /\ m = n - 1 /\ m \in Nat /\ n \in Nat
    BY <2>1, <2>3, <2>4, <2>5
  <2>7. ASSUME a = n * k PROVE P(s)
    BY <2>7
  <2> HIDE DEF m, n, a, P
  <2>8. a = n * k
    BY <2>6
  <2> QED
    BY <2>7, <2>8
<1>3. P({})
  <2>1. f[{}] = 0
    BY <1>1 DEF Sum1
  <2>2. Cardinality({}) = 0
    BY FS_EmptySet
  <2> QED
    BY <2>1, <2>2
<1> HIDE DEF P
<1>4. ASSUME Bad # {}
      PROVE  FALSE
  <2>1. Sizes \in SUBSET Nat /\ Sizes # {}
    <3>1. \A s \in SUBSET Slot : Cardinality(s) \in Nat
      BY SlotFacts, FS_Subset, FS_CardinalityType
    <3> QED
      BY <1>4, <3>1
  <2>2. Min(Sizes) \in Sizes /\ \A y \in Sizes : Min(Sizes) <= y
    BY <2>1, MinIs
  <2>3. PICK s \in Bad : Min(Sizes) = Cardinality(s)
    BY <2>2
  <2>4. s \in SUBSET Slot /\ s # {} /\ ~ P(s)
    BY <1>3
  <2>5. /\ s \ {AnyOf(s)} \in SUBSET Slot
        /\ Cardinality(s) \in Nat /\ Cardinality(s \ {AnyOf(s)}) \in Nat
        /\ Cardinality(s \ {AnyOf(s)}) < Cardinality(s)
    BY <2>4, OneLess
  <2>6. ~ P(s \ {AnyOf(s)})
    BY <1>2, <2>4
  <2>7. Cardinality(s \ {AnyOf(s)}) \in Sizes
    BY <2>5, <2>6
  <2> QED
    BY <2>2, <2>3, <2>5, <2>7
<1>5. P(Slot)
  BY <1>4
<1>6. Cardinality(Slot) = NPROC
  BY SlotFacts, FS_Interval DEF Slot
<1> QED
  BY <1>5, <1>6 DEF P

\* The first process, and those that the loads start with, own what the free list lacks.
LEMMA InitPages ==
  ASSUME Init
  PROVE  AllMem /\ PagesInv
<1> DEFINE first == Map(setupkvm, 0, "present")
<1>0. Types
  BY InitTypes
<1>1. MemType /\ initproc \in Slot /\ IsFiniteSet(Slot) /\ Cardinality(Slot) = NPROC /\ NPROC \in Nat
  BY <1>0, SlotFacts, FS_Interval DEF Types, Slot
<1>2. /\ 0 \in Page /\ setupkvm \in Space /\ setupkvm.pte[0] = "none" /\ setupkvm.dir
      /\ Pages(NoSpace) = 0 /\ Pages(setupkvm) = KVM /\ KVM \in Nat /\ setupkvm.pt = {}
      /\ \A g \in Page : NoSpace.pte[g] = "none" /\ setupkvm.pte[g] = "none"
  <2>1. 0 \in Page
    BY MemFacts
  <2>2. setupkvm.pt = {}
    BY DEF setupkvm, NoSpace
  <2> QED
    BY <2>1, <2>2, FreshPages, SpaceFacts, MemFacts
<1>3. PtNeeded(setupkvm, 0) = 1
  BY <1>2 DEF PtNeeded
<1>4. /\ first.dir /\ Pages(first) = KVM + 2
      /\ \A g \in Page : first.pte[g] # "none" => g = 0
  <2>1. /\ first.dir = setupkvm.dir
        /\ \A h \in Page : h # 0 => first.pte[h] = setupkvm.pte[h]
        /\ Pages(first) = Pages(setupkvm) + PtNeeded(setupkvm, 0) + 1
    <3>1. PICK z \in Page : z = 0
      BY <1>2
    <3>2. PICK v \in {"ssu", "present", "guard"} : v = "present"
      OBVIOUS
    <3>3. PICK s \in Space : s = setupkvm
      BY <1>2
    <3>4. s.pte[z] = "none"
      BY <1>2, <3>1, <3>3
    <3>5. /\ Map(s, z, v).dir = s.dir
          /\ \A h \in Page : h # z => Map(s, z, v).pte[h] = s.pte[h]
          /\ Pages(Map(s, z, v)) = Pages(s) + PtNeeded(s, z) + (IF v = "ssu" THEN 0 ELSE 1)
      BY <3>1, <3>2, <3>3, <3>4, MapPages
    <3>6. first = Map(s, z, v) /\ (IF v = "ssu" THEN 0 ELSE 1) = 1
      BY <3>1, <3>2, <3>3
    <3> HIDE DEF first
    <3> QED
      BY <3>1, <3>3, <3>5, <3>6
  <2> HIDE DEF first
  <2> QED
    BY <1>2, <1>3, <2>1
<1>5. \A g \in Page : first.pte[g] # "none" => g * PGSIZE < PGSIZE
  <2> HIDE DEF first
  <2>1. 0 * PGSIZE < PGSIZE
    BY MemFacts
  <2> QED
    BY <1>4, <2>1
<1> HIDE DEF first
<1> DEFINE w == [r \in Slot |-> Pages(vm[r]) + Pages(spare[r])]
<1>6. w \in [Slot -> Nat] /\ \A r \in Slot : w[r] = Pages(vm[r]) + Pages(spare[r])
  BY <1>1, PagesIs DEF MemType
<1>7. PICK f : SumsUp(f, w) /\ Total = f[Slot]
  <2> HIDE DEF w
  <2> QED
    BY <1>6, TotalIs
<1>8. CASE load = "memory"
  <2>1. /\ state = [p \in Slot |-> IF p = initproc THEN "RUNNABLE" ELSE "UNUSED"]
        /\ pc = [p \in Slot |-> IF p = initproc THEN "user" ELSE "none"]
        /\ loc = [p \in Slot |-> NoLoc]
        /\ kstack = {initproc}
        /\ vm = [p \in Slot |-> IF p = initproc THEN first ELSE NoSpace]
        /\ sz = [p \in Slot |-> IF p = initproc THEN PGSIZE ELSE 0]
        /\ spare = [p \in Slot |-> NoSpace]
        /\ nfree = NPAGES - (KVM + 3) /\ pipe = NoPipe
    BY <1>8 DEF Init, ProcInit, MemInit, PipeInit, first
  <2>2. AllMem
    <3> SUFFICES ASSUME NEW q \in Slot PROVE MemInv(q)
      BY DEF AllMem
    <3>1. CASE q = initproc
      <4>1. /\ state[q] = "RUNNABLE" /\ pc[q] = "user" /\ loc[q].i = 0 /\ q \in kstack
            /\ vm[q] = first /\ sz[q] = PGSIZE /\ spare[q] = NoSpace
        BY <2>1, <3>1, NoLocIs
      <4> QED
        BY <1>4, <1>5, <4>1 DEF MemInv
    <3>2. CASE q # initproc
      <4>1. /\ state[q] = "UNUSED" /\ pc[q] = "none" /\ q \notin kstack
            /\ vm[q] = NoSpace /\ spare[q] = NoSpace
        BY <2>1, <3>2
      <4> QED
        BY <4>1 DEF MemInv, Live
    <3> QED
      BY <3>1, <3>2
  <2>3. Total = KVM + 2
    <3> DEFINE v == [r \in Slot |-> 0]
    <3>1. v \in [Slot -> Nat] /\ \A r \in Slot : v[r] = 0
      OBVIOUS
    <3>2. /\ w[initproc] = KVM + 2
          /\ \A r \in Slot : r # initproc => w[r] = 0
      BY <1>1, <1>2, <1>4, <1>6, <2>1
    <3> HIDE DEF v, w
    <3>3. PICK g : SumsUp(g, v)
      BY <3>1, SumExists
    <3>4. g[Slot] = NPROC * 0
      BY <3>1, <3>3, SumConstant
    <3>5. f[Slot] \in Nat /\ g[Slot] \in Nat /\ f[Slot] + v[initproc] = g[Slot] + w[initproc]
      BY <1>1, <1>6, <1>7, <3>1, <3>2, <3>3, SumChanges
    <3> QED
      BY <1>1, <1>2, <1>7, <3>1, <3>2, <3>4, <3>5
  <2>4. Cardinality(kstack) = 1
    BY <2>1, FS_Singleton
  <2>5. ~pipe.used
    BY <2>1 DEF NoPipe
  <2>6. NPAGES \in Nat /\ KVM + 3 <= NPAGES
    BY MemoryAssumption
  <2>7. nfree + Cardinality(kstack) + 0 + Total = NPAGES /\ nfree \in Nat
    BY <1>2, <2>1, <2>3, <2>4, <2>6
  <2>8. PagesAccounted
    BY <1>8, <2>5, <2>7 DEF PagesAccounted, Total
  <2> QED
    BY <2>2, <2>7, <2>8 DEF PagesInv
<1>9. CASE load # "memory"
  <2>1. /\ state = [p \in Slot |-> IF p = initproc THEN "SLEEPING" ELSE "RUNNABLE"]
        /\ pc = [p \in Slot |-> IF p = initproc THEN "wait" ELSE "user"]
        /\ loc = [p \in Slot |-> NoLoc]
        /\ kstack = Slot
        /\ vm = [p \in Slot |-> first]
        /\ sz = [p \in Slot |-> PGSIZE]
        /\ spare = [p \in Slot |-> NoSpace]
        /\ nfree = MorePages - NPROC * (KVM + 3) - (IF load = "pipe" THEN 1 ELSE 0)
    BY <1>9 DEF Init, Forked, first
  <2>2. AllMem
    <3> SUFFICES ASSUME NEW q \in Slot PROVE MemInv(q)
      BY DEF AllMem
    <3>1. /\ state[q] \in {"SLEEPING", "RUNNABLE"} /\ pc[q] \in {"user", "wait"} /\ loc[q].i = 0
          /\ q \in kstack /\ vm[q] = first /\ sz[q] = PGSIZE /\ spare[q] = NoSpace
      BY <2>1, NoLocIs
    <3> QED
      BY <1>4, <1>5, <3>1 DEF MemInv
  <2>3. Total = NPROC * (KVM + 2)
    <3>1. KVM + 2 \in Nat /\ \A r \in Slot : w[r] = KVM + 2
      BY <1>2, <1>4, <1>6, <2>1
    <3> HIDE DEF w
    <3> QED
      BY <1>6, <1>7, <3>1, SumConstant
  <2>4. Cardinality(kstack) = NPROC
    BY <1>1, <2>1
  <2>5. PICK u \in {0, 1} : (load = "pipe" => u = 1) /\ (load # "pipe" => u = 0)
    OBVIOUS
  <2>6. (IF pipe.used THEN 1 ELSE 0) = u
    <3>1. CASE load = "pipe"
      <4>1. pipe = [NoPipe EXCEPT !.used = TRUE, !.readopen = TRUE, !.writeopen = TRUE]
        BY <3>1 DEF Init
      <4>2. pipe.used
        BY <4>1 DEF NoPipe
      <4> QED
        BY <2>5, <3>1, <4>2
    <3>2. CASE load # "pipe"
      <4>1. ~pipe.used
        BY <3>2 DEF Init, PipeInit, NoPipe
      <4> QED
        BY <2>5, <3>2, <4>1
    <3> QED
      BY <3>1, <3>2
  <2>7. MorePages \in Nat /\ NPROC * (KVM + 3) < MorePages
    BY KernelAssumption
  <2>8. NPROC * (KVM + 3) = NPROC * (KVM + 2) + NPROC /\ NPROC * (KVM + 2) \in Nat
    BY <1>1, <1>2, SMTT(30)
  <2>9. nfree = MorePages - NPROC * (KVM + 3) - u
    BY <2>1, <2>5
  <2> DEFINE a == NPROC * (KVM + 3)
             b == NPROC * (KVM + 2)
  <2>10. /\ nfree = MorePages - a - u /\ a = b + NPROC /\ b \in Nat /\ a < MorePages /\ Total = b
    BY <2>3, <2>7, <2>8, <2>9
  <2> HIDE DEF a, b
  <2>11. nfree + NPROC + u + b = MorePages /\ nfree \in Nat
    BY <1>1, <2>7, <2>10
  <2>12. nfree + Cardinality(kstack) + u + Total = MorePages
    BY <2>4, <2>10, <2>11
  <2>13. PagesAccounted
    BY <1>9, <2>6, <2>12 DEF PagesAccounted, Total
  <2> QED
    BY <2>2, <2>11, <2>13 DEF PagesInv
<1> QED
  BY <1>8, <1>9

\* Outside allocuvm() no process has a page at or above its size, an unused slot owns nothing,
\* and what fork(), exec() and sbrk() are building is theirs alone: for any number of pages.
\* The invariant is inductive with that of the pipe, whose page comes from the same free list.
THEOREM MemoryInvariant == Spec => [](AllMem /\ PagesInv)
<1>1. Init => AllMem /\ PagesInv
  BY InitPages
<1>2. Types /\ PipeInv /\ EndsInv /\ (AllMem /\ PagesInv) /\ [Next]_vars => (AllMem /\ PagesInv)'
  BY PagesKeep
<1> QED
  BY <1>1, <1>2, TypesInvariant, PipeInvariant, EndsInvariant, PTL DEF Spec

\* No page of physical memory is lost or free twice, whichever allocation of fork(), exec(), sbrk(),
\* ssualloc() or the page fault fails and whoever dies in between: for any number of pages.
THEOREM PagesAccountedInvariant == Spec => []PagesAccounted
<1>1. AllMem /\ PagesInv => PagesAccounted
  BY DEF PagesInv
<1> QED
  BY <1>1, MemoryInvariant, PTL

\* getpp()'s walk up to the size of a process finds every page that deallocuvm() and freevm()
\* will have to give back.
THEOREM MappedBelowSizeInvariant == Spec => []MappedBelowSize
<1>1. Types /\ (AllMem /\ PagesInv) => MappedBelowSize
  <2> SUFFICES ASSUME Types, AllMem, NEW p \in Slot, Live(p), pc[p] # "allocuvm"
               PROVE  /\ \A g \in Page : vm[p].pte[g] # "none" => g * PGSIZE < sz[p]
                      /\ Pages(vm[p]) = KVM + Cardinality(vm[p].pt) + countphyspages(vm[p], sz[p])
    BY DEF MappedBelowSize
  <2>1. vm[p].dir /\ \A g \in Page : vm[p].pte[g] # "none" => g * PGSIZE < sz[p]
    BY DEF AllMem, MemInv
  <2>2. {g \in Page : g * PGSIZE < sz[p] /\ IsMapped(vm[p], g)} = {g \in Page : IsMapped(vm[p], g)}
    BY <2>1 DEF IsMapped
  <2>3. Pages(vm[p]) = KVM + Cardinality(vm[p].pt) + Cardinality({g \in Page : IsMapped(vm[p], g)})
    BY <2>1 DEF Pages
  <2>4. countphyspages(vm[p], sz[p]) = Cardinality({g \in Page : IsMapped(vm[p], g)})
    BY <2>2 DEF countphyspages
  <2> QED
    BY <2>1, <2>3, <2>4
<1> QED
  BY <1>1, TypesInvariant, MemoryInvariant, PTL

\* Every variable of the kernel keeps its type.  The number of free pages has its bound from the
\* books and the pids from nextpid, so this rests on the invariants and not on the types alone.
THEOREM KernelTypeOK == Spec => []TypeOK
<1>1. Types /\ (AllMem /\ PagesInv) => TypeOK
  <2> SUFFICES ASSUME Types, PagesInv PROVE TypeOK
    OBVIOUS
  <2>1. /\ TableType /\ PidInv /\ MemType /\ PipeType /\ ConsType /\ ClockType /\ DiskType
    BY DEF Types, TableInv
  <2>2. pid \in [Slot -> 0..(MaxPid + NPROC)]
    <3>1. \A p \in Slot : pid[p] \in Nat /\ pid[p] < nextpid /\ nextpid \in 0..(MaxPid + NPROC + 1)
      BY <2>1 DEF PidInv, TableType
    <3>2. MaxPid \in Nat /\ NPROC \in Nat
      BY ProcAssumption
    <3>3. \A p \in Slot : pid[p] \in 0..(MaxPid + NPROC)
      BY <3>1, <3>2
    <3>4. pid \in [Slot -> Nat]
      BY <2>1 DEF TableType
    <3> QED
      BY <3>3, <3>4
  <2>3. nfree \in 0..(NPAGES + MorePages)
    <3>1. PICK u \in {0, 1} : u = IF pipe.used THEN 1 ELSE 0
      OBVIOUS
    <3>2. PICK x \in {NPAGES, MorePages} : x = IF load = "memory" THEN NPAGES ELSE MorePages
      OBVIOUS
    <3> DEFINE c == Cardinality(kstack)
               t == Total
    <3>3. nfree + c + u + t = x /\ nfree \in Nat
      BY <3>1, <3>2 DEF PagesInv, PagesAccounted, Total
    <3>4. c \in Nat /\ t \in Nat
      BY <2>1, TotalNat, SlotFacts, FS_Subset, FS_CardinalityType DEF MemType
    <3>5. NPAGES \in Nat /\ MorePages \in Nat
      BY MemoryAssumption, KernelAssumption
    <3> HIDE DEF c, t
    <3> QED
      BY <3>3, <3>4, <3>5
  <2>4. /\ pipe.nread \in 0..(UINT - 1) /\ pipe.nwrite \in 0..(UINT - 1) /\ ticks \in 0..(UINT - 1)
        /\ input.r \in 0..(UINT - 1) /\ input.w \in 0..(UINT - 1) /\ input.e \in 0..(UINT - 1)
    BY <2>1 DEF PipeType, PipeRec, ConsType, ClockType
  <2>5. \A b \in Buffer : buf[b].owner \in 0..NPROC /\ buf[b].blockno \in Block \cup {0}
    BY <2>1 DEF DiskType, BufRec
  <2> QED
    BY <2>1, <2>2, <2>3, <2>4, <2>5 DEF TypeOK, TableType, MemType
<1> QED
  BY <1>1, TypesInvariant, MemoryInvariant, PTL

-----------------------------------------------------------------------------
(* Sleep and wakeup                                                        *)

\* No wakeup is lost: a sleeping process waits for something that has not happened yet, be it a child's
\* exit, bytes or room in the pipe, a line of input, a tick, a disk request or a buffer's lock.
\* The five inductive invariants say so for one channel each.
THEOREM NoLostWakeupInvariant == Spec => []NoLostWakeup
<1>1. Types /\ PipeInv /\ ConsInv /\ ClockInv /\ CacheInv => NoLostWakeup
  <2> SUFFICES ASSUME Types, PipeInv, ConsInv, ClockInv, CacheInv,
                      NEW p \in Slot, state[p] = "SLEEPING"
               PROVE  CASE chan[p][1] = "wait"   -> Children(p) # {} /\ Zombies(p) = {}
                        [] chan[p][1] = "nread"  -> (Count = 0 \/ cut) /\ pipe.writeopen
                        [] chan[p][1] = "nwrite" -> Count = PIPESIZE /\ pipe.readopen
                        [] chan[p][1] = "input"  -> input.r = input.w
                        [] chan[p][1] = "ticks"  -> Elapsed(loc[p].i) < loc[p].n
                        [] chan[p][1] = "buf"    -> \E i \in DOMAIN idequeue : idequeue[i] = chan[p][2]
                        [] chan[p][1] = "lock"   -> buf[chan[p][2]].owner # 0
    BY DEF NoLostWakeup
  <2>1. chan[p][1] \in Kind
    BY DEF Types, TableInv, WaitInv
  <2>2. chan[p][1] = "wait" => Children(p) # {} /\ Zombies(p) = {}
    BY DEF Types, TableInv, WaitInv, Children, Zombies
  <2>3. chan[p][1] = "nread" => (Count = 0 \/ cut) /\ pipe.writeopen
    BY DEF PipeInv, Asleep
  <2>4. chan[p][1] = "nwrite" => Count = PIPESIZE /\ pipe.readopen
    BY DEF PipeInv, Asleep
  <2>5. chan[p][1] = "input" => input.r = input.w
    BY DEF ConsInv, Asleep
  <2>6. chan[p][1] = "ticks" => Elapsed(loc[p].i) < loc[p].n
    BY DEF ClockInv, Asleep
  <2>7. chan[p][1] = "buf" => \E i \in DOMAIN idequeue : idequeue[i] = chan[p][2]
    <3>1. DOMAIN idequeue = 1..Len(idequeue)
      BY DEF Types, DiskType
    <3>2. chan[p][1] = "buf" => \E b \in Buffer : chan[p] = <<"buf", b>> /\ Queued(b)
      BY DEF CacheInv, DiskSleepInv, Asleep
    <3> QED
      BY <3>1, <3>2 DEF Queued
  <2>8. chan[p][1] = "lock" => buf[chan[p][2]].owner # 0
    <3>1. chan[p][1] = "lock" => \E b \in Buffer : chan[p] = <<"lock", b>> /\ buf[b].owner # 0
      BY DEF CacheInv, DiskSleepInv, Asleep
    <3> QED
      BY <3>1
  <2> HIDE DEF Kind
  <2> DEFINE k == chan[p][1]
  <2>9. k \in Kind
    BY <2>1
  <2> QED
    BY <2>2, <2>3, <2>4, <2>5, <2>6, <2>7, <2>8, <2>9 DEF Kind
<1> QED
  BY <1>1, TypesInvariant, PipeInvariant, ConsoleInvariant, ClockInvariant, CacheInvariant, PTL
=============================================================================
