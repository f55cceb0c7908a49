-------------------------------- MODULE Spin --------------------------------
(***************************************************************************)
(* Spin-locks, interrupt masking and the switch between kernel threads:    *)
(* pushcli/popcli nest, sched() carries `intena' from the processor it     *)
(* leaves to the one it resumes on, and the timer may strike between any   *)
(* two instructions that run with interrupts on.  Kernel code is a         *)
(* sequence of steps, each what one processor does without interference:   *)
(* with interrupts off, up to the next access to memory others write.      *)
(***************************************************************************)
EXTENDS Integers, Sequences, FiniteSets, FiniteSetsExt

CONSTANTS NCPU, NPROC

ASSUME SpinAssumption == NCPU \in Nat /\ NPROC \in Nat

VARIABLES sp   \* flags, ncli, intena and process of each processor; locks; stacks; states

Cpus == 1..NCPU
Procs == 1..NPROC
None == 0

\* ptable.lock, tickslock, and the spin-lock inside a sleep-lock.
Locks == {"ptable", "ticks", "slk"}

-----------------------------------------------------------------------------
(* Kernel code.                                                            *)

acquire(l) == <<<<"eflags", l>>, <<"xchg", l>>>>
release(l) == <<<<"release", l>>>>

sched(state) == <<<<"sched", state>>>>

yield == acquire("ptable") \o sched("RUNNABLE") \o release("ptable")

sleep(lk) == acquire("ptable") \o release(lk) \o sched("SLEEPING") \o release("ptable") \o acquire(lk)

wakeup(chan) == acquire("ptable") \o <<<<"wakeup1", chan>>>> \o release("ptable")

acquiresleep == acquire("slk") \o <<<<"while locked">>>> \o release("slk")

releasesleep == acquire("slk") \o <<<<"locked = 0">>>> \o wakeup("slk") \o release("slk")

sys_uptime == acquire("ticks") \o release("ticks")

forkret == release("ptable")

\* The first processor counts ticks; then the interrupted process, if any, yields.
timer(c) == (IF c = 1 THEN acquire("ticks") \o wakeup("ticks") \o release("ticks") ELSE <<>>)
            \o <<<<"if myproc yield">>>>

scheduler == <<<<"sti">>>> \o acquire("ptable") \o <<<<"pick", 1>>>>

-----------------------------------------------------------------------------

\* intena: the local of sched().
Frame(code, handler) == [code |-> code, handler |-> handler, intena |-> FALSE]

\* Thread c + NPROC is the scheduler of processor c.
Scheduler(c) == c + NPROC

Init == sp = [flag |-> [c \in Cpus |-> FALSE], ncli |-> [c \in Cpus |-> 0],
              intena |-> [c \in Cpus |-> FALSE], proc |-> [c \in Cpus |-> None],
              cpu |-> [l \in Locks |-> None], locked |-> FALSE, pid |-> None,
              state |-> [p \in Procs |-> "RUNNABLE"], panic |-> FALSE,
              stack |-> [t \in 1..(NPROC + NCPU) |->
                          <<Frame(IF t \in Procs THEN forkret ELSE scheduler, FALSE)>>]]

Thread(c) == IF sp.proc[c] = None THEN Scheduler(c) ELSE sp.proc[c]
Stack(c) == sp.stack[Thread(c)]
Top(c) == Stack(c)[1]
Op(c) == Top(c).code[1]
AtOp(c, name) == /\ ~sp.panic /\ Stack(c) # <<>> /\ Top(c).code # <<>>
                 /\ Op(c)[1] = name

\* The stack of the running thread after its next step, with more code to run first.
Push(c, frame, more) == [sp.stack EXCEPT ![Thread(c)] =
                          <<[frame EXCEPT !.code = more \o Tail(@)]>> \o Tail(Stack(c))]
Goto(c, more) == Push(c, Top(c), more)

Panic == sp' = [sp EXCEPT !.panic = TRUE]

\* Seeded fault: a nested pushcli saves the flag again.
pushcli_Each(c, eflags) == [sp EXCEPT !.flag[c] = FALSE, !.intena[c] = eflags, !.ncli[c] = @ + 1,
                                      !.stack = Goto(c, <<>>)]

pushcli(c, eflags) == [sp EXCEPT !.flag[c] = FALSE, !.ncli[c] = @ + 1,
                                 !.intena[c] = IF sp.ncli[c] = 0 THEN eflags ELSE @,
                                 !.stack = Goto(c, <<>>)]

\* With interrupts on, one may strike between the read of eflags and cli.
acquire_eflags(c) ==
    /\ AtOp(c, "eflags") /\ sp.flag[c]
    /\ sp' = [sp EXCEPT !.stack = Goto(c, <<<<"cli", Op(c)[2]>>>>)]

acquire_cli(c) ==
    /\ AtOp(c, "cli") \/ (AtOp(c, "eflags") /\ ~sp.flag[c])
    /\ IF sp.cpu[Op(c)[2]] = c THEN Panic ELSE sp' = pushcli(c, Op(c)[1] = "cli")

acquire_xchg(c) ==
    /\ AtOp(c, "xchg")
    /\ sp.cpu[Op(c)[2]] = None
    /\ sp' = [sp EXCEPT !.cpu[Op(c)[2]] = c, !.stack = Goto(c, <<>>)]

\* The lock is given up, then popcli.
release_popcli(c) ==
    /\ AtOp(c, "release")
    /\ IF sp.cpu[Op(c)[2]] # c \/ sp.flag[c] \/ sp.ncli[c] = 0 THEN Panic
       ELSE sp' = [sp EXCEPT !.cpu[Op(c)[2]] = None, !.ncli[c] = @ - 1,
                             !.flag[c] = sp.ncli[c] = 1 /\ sp.intena[c],
                             !.stack = Goto(c, <<>>)]

\* Checked under the lock and with interrupts off, then away to the scheduler.
sched_leave(c) ==
    /\ AtOp(c, "sched")
    /\ IF sp.cpu["ptable"] # c \/ sp.ncli[c] # 1 \/ sp.flag[c] THEN Panic
       ELSE sp' = [sp EXCEPT !.state[sp.proc[c]] = Op(c)[2], !.proc[c] = None,
                             !.stack = Push(c, [Top(c) EXCEPT !.intena = sp.intena[c]], <<>>)]

\* Seeded fault: sched() leaves the processor's intena as the scheduler set it.
sched_intena_Kept(c, frame) == sp.intena[c]

\* The local of sched() comes back with the thread; a first run, in forkret, has none.
sched_intena(c, frame) == IF frame.code = forkret /\ ~frame.handler THEN sp.intena[c] ELSE frame.intena

scheduler_sti(c) ==
    /\ AtOp(c, "sti")
    /\ sp' = [sp EXCEPT !.flag[c] = TRUE, !.stack = Goto(c, <<>>)]

\* The rest of the loop over ptable.proc, and round again.
scheduler_pick(c) ==
    /\ AtOp(c, "pick")
    /\ LET left == {p \in Procs : p >= Op(c)[2] /\ sp.state[p] = "RUNNABLE"}
           p == Min(left)
       IN  sp' = IF left = {} THEN [sp EXCEPT !.stack = Goto(c, release("ptable") \o scheduler)]
                 ELSE [sp EXCEPT !.proc[c] = p, !.state[p] = "RUNNING",
                                 !.intena[c] = sched_intena(c, sp.stack[p][1]),
                                 !.stack = [Goto(c, <<<<"pick", p + 1>>>>) EXCEPT ![p][1].intena = FALSE]]

wakeup1(c) ==
    /\ AtOp(c, "wakeup1")
    /\ sp' = [sp EXCEPT !.state = [p \in Procs |->
                                    IF @[p] = "SLEEPING" /\ Op(c)[2] = "slk" THEN "RUNNABLE" ELSE @[p]],
                        !.stack = Goto(c, <<>>)]

acquiresleep_test(c) ==
    /\ AtOp(c, "while locked") /\ sp.locked
    /\ sp' = [sp EXCEPT !.stack = Goto(c, sleep("slk") \o <<Op(c)>>)]

acquiresleep_take(c) ==
    /\ AtOp(c, "while locked") /\ ~sp.locked
    /\ sp' = [sp EXCEPT !.locked = TRUE, !.pid = sp.proc[c], !.stack = Goto(c, <<>>)]

releasesleep_free(c) ==
    /\ AtOp(c, "locked = 0")
    /\ sp' = [sp EXCEPT !.locked = FALSE, !.pid = None, !.stack = Goto(c, <<>>)]

trap_yield(c) ==
    /\ AtOp(c, "if myproc yield")
    /\ sp' = [sp EXCEPT !.stack = Goto(c, IF sp.proc[c] = None THEN <<>> ELSE yield)]

\* A system call: a trap gate, interrupts stay on.
syscall(c) ==
    /\ ~sp.panic /\ sp.proc[c] # None /\ Stack(c) = <<>>
    /\ \E code \in {sys_uptime, acquiresleep \o releasesleep} :
          sp' = [sp EXCEPT !.stack[sp.proc[c]] = <<Frame(code, FALSE)>>]

\* The timer: an interrupt gate, interrupts off until iret.
interrupt(c) ==
    /\ ~sp.panic /\ sp.flag[c]
    /\ sp' = [sp EXCEPT !.flag[c] = FALSE,
                        !.stack[Thread(c)] = <<Frame(timer(c), TRUE)>> \o @]

iret(c) ==
    /\ ~sp.panic /\ Stack(c) # <<>> /\ Top(c).code = <<>>
    /\ sp' = [sp EXCEPT !.flag[c] = TRUE, !.stack[Thread(c)] = Tail(@)]

Step(c) == \/ acquire_eflags(c) \/ acquire_cli(c) \/ acquire_xchg(c)
           \/ release_popcli(c) \/ sched_leave(c)
           \/ scheduler_sti(c) \/ scheduler_pick(c) \/ wakeup1(c)
           \/ acquiresleep_test(c) \/ acquiresleep_take(c) \/ releasesleep_free(c)
           \/ trap_yield(c) \/ syscall(c) \/ interrupt(c) \/ iret(c)

Next == \E c \in Cpus : Step(c)

Spec == Init /\ [][Next]_sp

-----------------------------------------------------------------------------

Held(c) == {l \in Locks : sp.cpu[l] = c}
After(p, name) == \A f \in 1..Len(sp.stack[p]) :
                     \A i \in 1..Len(sp.stack[p][f].code) : sp.stack[p][f].code[i][1] # name
InCritical(p) == After(p, "while locked") /\ ~After(p, "locked = 0")

\* Processor c runs a process that holds no lock, in user mode or in the middle of a system
\* call.  (A new process may leave forkret with interrupts off: its iret turns them on.)
Unlocked(c) == /\ sp.proc[c] # None /\ sp.ncli[c] = 0
               /\ Stack(c) # <<>> => ~Top(c).handler /\ Top(c).code # <<>>

\* No panic of acquire, release, popcli or sched is reachable; a processor that holds a lock
\* or runs a handler has interrupts off, a process that holds none and is in no handler has
\* them on, on whatever processor it resumed; and the sleep-lock admits one process, the one
\* it names.
SpinSafe ==
    /\ ~sp.panic
    /\ \A c \in Cpus : /\ Cardinality(Held(c)) <= sp.ncli[c]
                       /\ sp.flag[c] => sp.ncli[c] = 0
                       /\ Stack(c) # <<>> /\ Top(c).handler => ~sp.flag[c]
                       /\ Unlocked(c) => sp.flag[c]
                       /\ sp.proc[c] # None => sp.state[sp.proc[c]] = "RUNNING"
    /\ \A p \in Procs : InCritical(p) => sp.pid = p
=============================================================================
