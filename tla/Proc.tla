-------------------------------- MODULE Proc --------------------------------
(***************************************************************************)
(* The process table of xv6: scheduling, sleep and wakeup, kill, and the   *)
(* part of exit that runs under ptable.lock.  Memory, pipes, the console,  *)
(* the clock and the disk are modules of their own that EXTEND this one.   *)
(*                                                                         *)
(* A critical section under a spin-lock is one step, unless something that *)
(* does not take that lock can be seen to happen inside it: kill() sets    *)
(* p->killed under ptable.lock only, so a test of killed and the sleep     *)
(* that follows are two steps.                                             *)
(***************************************************************************)
EXTENDS Integers, Sequences, FiniteSets, FiniteSetsExt

CONSTANTS NPROC,     \* slots of the table
          NCPU,      \* processors
          MaxPid,    \* bound: pids given out
          UINT,      \* values of a uint, 2^32 in the code
          Preempt    \* TRUE: ticks also arrive in system calls

ASSUME ProcAssumption ==
    /\ NPROC \in Nat \ {0} /\ NCPU \in Nat \ {0} /\ MaxPid \in Nat \ {0}
    /\ UINT \in Nat \ {0} /\ Preempt \in BOOLEAN

Slot == 1..NPROC
initproc == 1

VARIABLES
    state,     \* UNUSED, EMBRYO, SLEEPING, RUNNABLE, RUNNING, ZOMBIE
    pid,       \* 0 in a slot that was never used or has been reaped
    parent,    \* slot of the parent, 0 for none
    killed,    \* p->killed
    chan,      \* what a sleeping process waits for
    nextpid,
    ofile,     \* the ends of the pipe each process has open
    pc, loc,   \* where each process is in its system call, and its locals
    panicked

ptable == <<state, pid, parent, killed, chan, nextpid>>
procVars == <<ptable, ofile, pc, loc, panicked>>

NoChan == <<"none", 0>>
NoLoc == [np |-> 0, i |-> 0, n |-> 0]

\* After userinit: one process, in user space.
ProcInit ==
    /\ state = [p \in Slot |-> IF p = initproc THEN "RUNNABLE" ELSE "UNUSED"]
    /\ pid = [p \in Slot |-> IF p = initproc THEN 1 ELSE 0]
    /\ parent = [p \in Slot |-> 0]
    /\ killed = [p \in Slot |-> FALSE]
    /\ chan = [p \in Slot |-> NoChan]
    /\ nextpid = 2
    /\ ofile = [p \in Slot |-> {}]
    /\ pc = [p \in Slot |-> IF p = initproc THEN "user" ELSE "none"]
    /\ loc = [p \in Slot |-> NoLoc]
    /\ panicked = FALSE

-----------------------------------------------------------------------------

\* Places in the code that hold a spin-lock from one step to the next: the timer
\* interrupt is off there.
Locked == {"piperead_sleep", "pipewrite_sleep", "consoleread_sleep", "sys_sleep_sleep"}

Running(p) == state[p] = "RUNNING" /\ ~panicked

\* In user space, and let in by the test of killed at the start of trap().
InUser(p) == Running(p) /\ pc[p] = "user" /\ ~killed[p]

Goto(p, label) == pc' = [pc EXCEPT ![p] = label]
Return(p) == Goto(p, "user") /\ loc' = [loc EXCEPT ![p] = NoLoc]

\* Seeded fault: only one of the sleepers is woken.
wakeup1_First(st, c) ==
    LET asleep == {p \in Slot : st[p] = "SLEEPING" /\ chan[p] = c}
    IN  IF asleep = {} THEN st ELSE [st EXCEPT ![Min(asleep)] = "RUNNABLE"]

\* wakeup1, on a table st.
wakeup1(st, c) ==
    [p \in Slot |-> IF st[p] = "SLEEPING" /\ chan[p] = c THEN "RUNNABLE" ELSE st[p]]

wakeup(c) == state' = wakeup1(state, c)

sleep(p, c) ==
    /\ state' = [state EXCEPT ![p] = "SLEEPING"]
    /\ chan' = [chan EXCEPT ![p] = c]

scheduler(p) ==
    /\ ~panicked
    /\ state[p] = "RUNNABLE"
    /\ Cardinality({q \in Slot : state[q] = "RUNNING"}) < NCPU
    /\ state' = [state EXCEPT ![p] = "RUNNING"]
    /\ chan' = [chan EXCEPT ![p] = NoChan]
    /\ UNCHANGED <<pid, parent, killed, nextpid, ofile, pc, loc, panicked>>

\* The clock tick.  In a system call it only delays the call, as another processor's
\* being faster does: Preempt = FALSE leaves it out there.
yield(p) ==
    /\ Running(p)
    /\ pc[p] = "user" \/ (Preempt /\ pc[p] \notin Locked)
    /\ state' = [state EXCEPT ![p] = "RUNNABLE"]
    /\ UNCHANGED <<pid, parent, killed, chan, nextpid, ofile, pc, loc, panicked>>

\* trap(): a killed process does not go back to user space.
trap_killed(p) ==
    /\ Running(p)
    /\ pc[p] = "user"
    /\ killed[p]
    /\ Goto(p, "exit")
    /\ UNCHANGED <<ptable, ofile, loc, panicked>>

sys_exit(p) ==
    /\ InUser(p)
    /\ Goto(p, "exit")
    /\ UNCHANGED <<ptable, ofile, loc, panicked>>

\* Seeded fault: children that have exited already are not passed on.
Orphans_Live(p) == {q \in Slot : parent[q] = p /\ state[q] # "ZOMBIE"}

Orphans(p) == {q \in Slot : parent[q] = p}

\* exit() once the files are closed.
exit(p) ==
    /\ Running(p)
    /\ p # initproc
    /\ pc[p] = "exit"
    /\ ofile[p] = {}
    /\ LET orphans == Orphans(p)
           woken == wakeup1(state, <<"wait", parent[p]>>)
           told == IF \E q \in orphans : state[q] = "ZOMBIE"
                   THEN wakeup1(woken, <<"wait", initproc>>) ELSE woken
       IN  /\ state' = [told EXCEPT ![p] = "ZOMBIE"]
           /\ parent' = [q \in Slot |-> IF q \in orphans THEN initproc ELSE parent[q]]
    /\ Goto(p, "none")
    /\ UNCHANGED <<pid, killed, chan, nextpid, ofile, loc, panicked>>

\* panic("init exiting")
exit_init(p) ==
    /\ Running(p)
    /\ p = initproc
    /\ pc[p] = "exit"
    /\ panicked' = TRUE
    /\ UNCHANGED <<ptable, ofile, pc, loc>>

\* The first slot with the pid, whatever its state.
kill(p, n) ==
    /\ InUser(p)
    /\ LET hits == {q \in Slot : pid[q] = n}
           q == Min(hits)
       IN  IF hits = {} THEN UNCHANGED <<killed, state>>
           ELSE /\ killed' = [killed EXCEPT ![q] = TRUE]
                /\ state' = [state EXCEPT ![q] = IF @ = "SLEEPING" THEN "RUNNABLE" ELSE @]
    /\ UNCHANGED <<pid, parent, chan, nextpid, ofile, pc, loc, panicked>>
=============================================================================
