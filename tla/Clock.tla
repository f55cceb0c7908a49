-------------------------------- MODULE Clock -------------------------------
(***************************************************************************)
(* The clock: the timer interrupt of the first processor counts ticks and  *)
(* wakes everybody who sleeps for them; sys_sleep() waits until enough     *)
(* have passed.  ticks is a uint and wraps around, and so does the         *)
(* difference the wait is about: a negative argument is a large one.       *)
(***************************************************************************)
EXTENDS Proc

VARIABLES ticks

clockVars == <<ticks>>

ClockInit == ticks = 0

\* tickslock is kept from the test of p->killed to sleep().
TicksFree == \A q \in Slot : pc[q] # "sys_sleep_sleep"
Elapsed(since) == (ticks - since) % UINT

\* One round of the loop of sys_sleep: loc.i is ticks0.
TestTicks(p, since, n) ==
    IF Elapsed(since) < n /\ ~killed[p]
    THEN Goto(p, "sys_sleep_sleep") /\ loc' = [loc EXCEPT ![p] = [NoLoc EXCEPT !.i = since, !.n = n]]
    ELSE Return(p)

sys_sleep(p, n) ==
    /\ InUser(p)
    /\ TicksFree
    /\ TestTicks(p, ticks, n)
    /\ UNCHANGED <<ptable, ofile, panicked, clockVars>>

sys_sleep_sleep(p) ==
    /\ Running(p)
    /\ pc[p] = "sys_sleep_sleep"
    /\ sleep(p, <<"ticks", 0>>)
    /\ Goto(p, "sys_sleep")
    /\ UNCHANGED <<pid, parent, killed, nextpid, ofile, loc, panicked, clockVars>>

sys_sleep_again(p) ==
    /\ Running(p)
    /\ pc[p] = "sys_sleep"
    /\ TicksFree
    /\ TestTicks(p, loc[p].i, loc[p].n)
    /\ UNCHANGED <<ptable, ofile, panicked, clockVars>>

Tick(st) ==
    /\ ~panicked
    /\ TicksFree
    /\ ticks' = (ticks + 1) % UINT
    /\ state' = wakeup1(st, <<"ticks", 0>>)
    /\ UNCHANGED <<pid, parent, killed, chan, nextpid, ofile, pc, loc, panicked>>

\* trap() of IRQ_TIMER on the first processor, while it is idle, or runs p, which then
\* gives it up (in a system call under the bound Preempt, as in yield).
timer_idle == Cardinality({q \in Slot : state[q] = "RUNNING"}) < NCPU /\ Tick(state)

timer(p) ==
    /\ Running(p)
    /\ pc[p] \notin Locked
    /\ Tick(IF pc[p] = "user" \/ Preempt THEN [state EXCEPT ![p] = "RUNNABLE"] ELSE state)
=============================================================================
