------------------------------- MODULE Kernel -------------------------------
(***************************************************************************)
(* Processes with their memory, a pipe, the console, the clock and the     *)
(* disk.  `load' is what the user programs do, chosen in Init: the kernel  *)
(* is the same, the system calls made differ, and the state space is the   *)
(* sum of the loads instead of their product.  fork, exit, wait and kill   *)
(* belong to every load.                                                   *)
(***************************************************************************)
EXTENDS Pipe, Console, Clock, Disk

CONSTANTS Loads,      \* of "memory", "pipe", "console", "clock", "disk"
          MorePages,  \* physical pages under the other loads than memory
          Ticking     \* the loads under which the clock ticks

ASSUME KernelAssumption ==
    /\ NPROC >= 2                            \* init and another
    /\ MorePages \in Nat /\ NPROC * (KVM + 3) < MorePages

VARIABLES load

vars == <<procVars, memVars, pipeVars, consVars, clockVars, diskVars, load>>

\* Except under the memory load, the processes have been forked already, each by the one
\* before it, and share the pipe if there is one; init waits.
Forked ==
    /\ state = [p \in Slot |-> IF p = initproc THEN "SLEEPING" ELSE "RUNNABLE"]
    /\ pid = [p \in Slot |-> p]
    /\ parent = [p \in Slot |-> p - 1]
    /\ killed = [p \in Slot |-> FALSE]
    /\ chan = [p \in Slot |-> IF p = initproc THEN <<"wait", initproc>> ELSE NoChan]
    /\ nextpid = NPROC + 1
    /\ ofile = [p \in Slot |-> IF load = "pipe" /\ p # initproc THEN {"r", "w"} ELSE {}]
    /\ pc = [p \in Slot |-> IF p = initproc THEN "wait" ELSE "user"]
    /\ loc = [p \in Slot |-> NoLoc]
    /\ panicked = FALSE
    /\ kstack = Slot
    /\ vm = [p \in Slot |-> Map(setupkvm, 0, "present")]
    /\ sz = [p \in Slot |-> PGSIZE]
    /\ spare = [p \in Slot |-> NoSpace]
    /\ nfree = MorePages - NPROC * (KVM + 3) - (IF load = "pipe" THEN 1 ELSE 0)

Init ==
    /\ load \in Loads
    /\ IF load = "memory" THEN ProcInit /\ MemInit ELSE Forked
    /\ IF load = "pipe"
       THEN /\ pipe = [NoPipe EXCEPT !.used = TRUE, !.readopen = TRUE, !.writeopen = TRUE]
            /\ sent = 0 /\ cut = FALSE
       ELSE PipeInit
    /\ ConsoleInit
    /\ ClockInit
    /\ DiskInit

\* init.c forks and waits, for ever; everything else is done by the others.
Active(p) == p # initproc

\* Pids kill() is called with (a bound); pid 0, and init, only under the memory load.
Targets == CASE load = "memory" -> {0, 1, MaxPid}
             [] load = "disk" -> {MaxPid}
             [] OTHER -> 2..MaxPid

ProcStep(p) ==
    /\ \/ load \in Ticking /\ yield(p)
       \/ scheduler(p) \/ trap_killed(p) \/ exit(p) \/ exit_init(p)
       \/ Active(p) /\ load # "disk" /\ sys_exit(p)
       \/ Active(p) /\ \E n \in Targets : kill(p, n)
    /\ UNCHANGED <<memVars, pipeVars, consVars, clockVars, diskVars>>

MemStep(p) ==
    /\ \/ wait(p)
       \/ /\ load = "memory"
          /\ \/ fork(p) \/ fork_kstack(p) \/ fork_setupkvm(p) \/ copyuvm(p) \/ fork_return(p)
             \/ allocuvm(p) \/ exec_page(p) \/ exec_bad(p) \/ exec_commit(p)
             \/ /\ Active(p)
                /\ \/ exec(p)
                   \/ \E n \in IOSizes : sbrk_grow(p, n) \/ sbrk_shrink(p, n)
                   \/ \E n \in 1..(MAXPG - 1) : sys_ssualloc(p, n)
                   \/ \E g \in Page : trap_user(p, g) \/ trap_kernel(p, g)
    /\ UNCHANGED <<pipeVars, consVars, clockVars, diskVars>>

PipeStep(p) ==
    /\ load = "pipe"
    /\ Active(p)
    /\ \/ sys_pipe(p) \/ pipewrite(p) \/ pipewrite_sleep(p) \/ piperead(p) \/ piperead_sleep(p)
       \/ pipeclose(p)
       \/ \E n \in IOSizes : sys_write(p, n) \/ sys_read(p, n)
       \/ \E e \in {"r", "w"} : fileclose(p, e)
    /\ UNCHANGED <<consVars, clockVars, diskVars>>

ConsoleStep(p) ==
    /\ load = "console"
    /\ Active(p)
    /\ \/ consoleread(p) \/ consoleread_sleep(p)
       \/ \E n \in IOSizes : sys_read_console(p, n)
    /\ UNCHANGED <<memVars, pipeVars, clockVars, diskVars>>

ClockStep(p) ==
    /\ load = "clock"
    /\ \/ Active(p) /\ \E n \in IOSizes : sys_sleep(p, n)
       \/ sys_sleep_sleep(p) \/ sys_sleep_again(p)
       \/ timer(p)
    /\ UNCHANGED <<memVars, pipeVars, consVars, diskVars>>

DiskStep(p) ==
    /\ load = "disk"
    /\ Active(p)
    /\ \/ acquiresleep(p) \/ bread(p) \/ iderw_wait(p) \/ bwrite(p) \/ releasesleep(p) \/ brelse(p)
       \/ \E n \in Block : bget(p, n) \/ bget_none(p, n)
       \/ \E v \in Value \ {AnyValue} : log_write(p, v)
    /\ UNCHANGED <<memVars, pipeVars, consVars, clockVars>>

Interrupt ==
    \/ /\ load = "console"
       /\ \E c \in Key : consoleintr(c)
       /\ UNCHANGED <<memVars, pipeVars, clockVars, diskVars>>
    \/ /\ load = "clock"
       /\ timer_idle
       /\ UNCHANGED <<memVars, pipeVars, consVars, diskVars>>
    \/ /\ load = "disk"
       /\ ideintr
       /\ UNCHANGED <<memVars, pipeVars, consVars, clockVars>>

Next ==
    /\ \/ Interrupt
       \/ \E p \in Slot : ProcStep(p) \/ MemStep(p) \/ PipeStep(p) \/ ConsoleStep(p)
                         \/ ClockStep(p) \/ DiskStep(p)
    /\ UNCHANGED load

Spec == Init /\ [][Next]_vars

-----------------------------------------------------------------------------

ProcState == {"UNUSED", "EMBRYO", "SLEEPING", "RUNNABLE", "RUNNING", "ZOMBIE"}
Space == [dir : BOOLEAN, pt : SUBSET {Region(g) : g \in Page},
          pte : [Page -> {"none", "ssu", "present", "guard"}]]

TypeOK ==
    /\ state \in [Slot -> ProcState]
    /\ pid \in [Slot -> 0..(MaxPid + NPROC)] /\ parent \in [Slot -> 0..NPROC]
    /\ killed \in [Slot -> BOOLEAN]
    /\ ofile \in [Slot -> SUBSET {"r", "w"}]
    /\ nfree \in 0..(NPAGES + MorePages)
    /\ kstack \subseteq Slot
    /\ vm \in [Slot -> Space] /\ spare \in [Slot -> Space]
    /\ sz \in [Slot -> 0..KERNBASE]
    /\ pipe.nread \in 0..(UINT - 1) /\ pipe.nwrite \in 0..(UINT - 1)
    /\ ticks \in 0..(UINT - 1)
    /\ input.r \in 0..(UINT - 1) /\ input.w \in 0..(UINT - 1) /\ input.e \in 0..(UINT - 1)
    /\ \A b \in Buffer : buf[b].owner \in 0..NPROC /\ buf[b].blockno \in Block \cup {0}

Live(p) == state[p] \in {"SLEEPING", "RUNNABLE", "RUNNING", "ZOMBIE"}

\* No page is lost and none is free twice, whatever fails in between: the free list, the
\* kernel stacks, the address spaces of fork(), exec() and sbrk() and the pipe add up.
PagesAccounted ==
    nfree + Cardinality(kstack) + (IF pipe.used THEN 1 ELSE 0)
      + MapThenSumSet(LAMBDA p : Pages(vm[p]) + Pages(spare[p]), Slot)
      = IF load = "memory" THEN NPAGES ELSE MorePages

\* deallocuvm and freevm leave nothing behind and copyuvm adds nothing: outside sbrk a
\* process has no page, present or reserved, at or above its size, and getpp()'s walk up
\* to the size counts every page it owns.
MappedBelowSize ==
    \A p \in Slot : Live(p) /\ pc[p] # "allocuvm" =>
        /\ \A g \in Page : vm[p].pte[g] # "none" => g * PGSIZE < sz[p]
        /\ Pages(vm[p]) = KVM + Cardinality(vm[p].pt) + countphyspages(vm[p], sz[p])

\* wakeup() is never lost: a process sleeps only while what it sleeps for has not happened.
\* The one exception is a reader that a killed writer left asleep in front of a full ring.
NoLostWakeup ==
    \A p \in Slot : state[p] = "SLEEPING" =>
        CASE chan[p][1] = "wait"   -> Children(p) # {} /\ Zombies(p) = {}
          [] chan[p][1] = "nread"  -> (Count = 0 \/ cut) /\ pipe.writeopen
          [] chan[p][1] = "nwrite" -> Count = PIPESIZE /\ pipe.readopen
          [] chan[p][1] = "input"  -> input.r = input.w
          [] chan[p][1] = "ticks"  -> Elapsed(loc[p].i) < loc[p].n
          [] chan[p][1] = "buf"    -> \E i \in DOMAIN idequeue : idequeue[i] = chan[p][2]
          [] chan[p][1] = "lock"   -> buf[chan[p][2]].owner # 0

\* exit() hands its children over and wait() reaps under the same lock: every process but
\* init has a parent that can still wait for it, and no two have the same pid.
Adopted ==
    \A p \in Slot : Live(p) =>
        /\ p # initproc => parent[p] # 0 /\ state[parent[p]] \notin {"UNUSED", "EMBRYO", "ZOMBIE"}
        /\ \A q \in Slot \ {p} : Live(q) => pid[q] # pid[p]

\* A console buffer that is full is a line for the reader: typing is never refused while
\* nothing can be read, and the indices never pass each other.
FullIsReadable ==
    /\ Dist(input.r, input.w) + Dist(input.w, input.e) = Dist(input.r, input.e)
    /\ Dist(input.r, input.e) <= INPUT_BUF
    /\ Dist(input.r, input.e) = INPUT_BUF => input.w = input.e

\* A block has one buffer, a request under way belongs to the holder of its lock, and what
\* bread() returns is what was last stored in the block: recycling a buffer loses nothing.
CacheAgrees ==
    /\ \A b, c \in Buffer : b # c /\ buf[b].blockno # 0 => buf[b].blockno # buf[c].blockno
    /\ \A p \in Slot : pc[p] \in {"iderw", "held"} => buf[loc[p].i].owner = p
    /\ \A p \in Slot : pc[p] = "held" => buf[loc[p].i].data = stored[buf[loc[p].i].blockno]

\* A process is not killed before it exists ("Kill the process with the given pid").
BornAlive ==
    [][\A p \in Slot : state[p] = "UNUSED" /\ state'[p] = "EMBRYO" => ~killed'[p]]_vars
=============================================================================
