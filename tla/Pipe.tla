-------------------------------- MODULE Pipe --------------------------------
(***************************************************************************)
(* A pipe between processes: creation, blocking reads and writes, and the  *)
(* closing of its ends by close() and exit().  There is one pipe at a time *)
(* (a bound); its page comes from kalloc().  p->lock is held from one step *)
(* to the next only between a test of killed and the sleep after it.       *)
(***************************************************************************)
EXTENDS Memory, SequencesExt

CONSTANTS PIPESIZE,
          IOSizes        \* bound: amounts asked for in one read, write or sbrk

ASSUME PipeAssumption ==
    /\ PIPESIZE \in Nat \ {0} /\ IOSizes \subseteq Nat \ {0}
    /\ UINT % PIPESIZE = 0 /\ 2 * PIPESIZE <= UINT

VARIABLES
    pipe,      \* struct pipe; used: its page is allocated
    sent,      \* ghost: number of the next byte written, modulo 2 * PIPESIZE
    cut        \* ghost: a killed writer left the ring full and woke nobody

pipeVars == <<pipe, sent, cut>>

NoPipe == [used |-> FALSE, readopen |-> FALSE, writeopen |-> FALSE,
           nread |-> 0, nwrite |-> 0, data |-> [i \in 0..(PIPESIZE - 1) |-> 0]]

PipeInit == pipe = NoPipe /\ sent = 0 /\ cut = FALSE

-----------------------------------------------------------------------------

\* acquire(&p->lock) succeeds.
PipeFree == \A q \in Slot : pc[q] \notin {"piperead_sleep", "pipewrite_sleep"}

Count == (pipe.nwrite - pipe.nread) % UINT          \* bytes in the ring
Filled(d, from, k) ==                                \* k more bytes, from byte number from
    [j \in DOMAIN d |->
        LET is == {i \in 0..(k - 1) : ((pipe.nwrite + i) % UINT) % PIPESIZE = j}
        IN  IF is = {} THEN d[j] ELSE (from + Max(is)) % (2 * PIPESIZE)]
Ring(k) == [i \in 1..k |-> pipe.data[((pipe.nread + i - 1) % UINT) % PIPESIZE]]

\* pipealloc and the two fdallocs; the bad: path gives everything back.
sys_pipe(p) ==
    /\ InUser(p)
    /\ ~pipe.used
    /\ nfree > 0
    /\ nfree' = nfree - 1
    /\ pipe' = [pipe EXCEPT !.used = TRUE, !.readopen = TRUE, !.writeopen = TRUE,
                            !.nread = 0, !.nwrite = 0]
    /\ ofile' = [ofile EXCEPT ![p] = {"r", "w"}]
    /\ sent' = 0 /\ cut' = FALSE
    /\ UNCHANGED <<ptable, pc, loc, panicked, kstack, vm, sz, spare>>

sys_write(p, n) ==
    /\ InUser(p)
    /\ "w" \in ofile[p]
    /\ loc' = [loc EXCEPT ![p] = [NoLoc EXCEPT !.n = n]]
    /\ Goto(p, "pipewrite")
    /\ UNCHANGED <<ptable, ofile, panicked, memVars, pipeVars>>

\* Seeded fault: the ring takes one byte too many.
Room_OffByOne == PIPESIZE + 1 - Count

Room == PIPESIZE - Count

\* The loop of pipewrite up to its end or to a full ring.
pipewrite(p) ==
    /\ Running(p)
    /\ pc[p] = "pipewrite"
    /\ PipeFree
    /\ LET left == loc[p].n - loc[p].i
           k == IF left <= Room THEN left ELSE Room
           quit == left > Room /\ (~pipe.readopen \/ killed[p])
       IN  /\ pipe' = [pipe EXCEPT !.data = Filled(@, sent, k), !.nwrite = (@ + k) % UINT]
           /\ sent' = (sent + k) % (2 * PIPESIZE)
           /\ cut' = (quit /\ (cut \/ k > 0))
           /\ IF quit THEN UNCHANGED state ELSE wakeup(<<"nread", 0>>)
           /\ IF left <= Room \/ quit THEN Return(p)
              ELSE /\ loc' = [loc EXCEPT ![p].i = @ + k]
                   /\ Goto(p, "pipewrite_sleep")
    /\ UNCHANGED <<pid, parent, killed, chan, nextpid, ofile, panicked, memVars>>

\* sleep() takes ptable.lock before it lets go of p->lock.
pipewrite_sleep(p) ==
    /\ Running(p)
    /\ pc[p] = "pipewrite_sleep"
    /\ sleep(p, <<"nwrite", 0>>)
    /\ Goto(p, "pipewrite")
    /\ UNCHANGED <<pid, parent, killed, nextpid, ofile, loc, panicked, memVars, pipeVars>>

sys_read(p, n) ==
    /\ InUser(p)
    /\ "r" \in ofile[p]
    /\ loc' = [loc EXCEPT ![p] = [NoLoc EXCEPT !.n = n]]
    /\ Goto(p, "piperead")
    /\ UNCHANGED <<ptable, ofile, panicked, memVars, pipeVars>>

piperead(p) ==
    /\ Running(p)
    /\ pc[p] = "piperead"
    /\ PipeFree
    /\ \/ /\ Count = 0 /\ pipe.writeopen
          /\ IF killed[p] THEN Return(p) ELSE Goto(p, "piperead_sleep") /\ UNCHANGED loc
          /\ UNCHANGED <<state, pipeVars>>
       \/ /\ Count > 0 \/ ~pipe.writeopen
          /\ LET k == IF loc[p].n <= Count THEN loc[p].n ELSE Count
             IN  pipe' = [pipe EXCEPT !.nread = (@ + k) % UINT]
          /\ cut' = (cut /\ Count > loc[p].n)
          /\ wakeup(<<"nwrite", 0>>)
          /\ Return(p)
          /\ UNCHANGED sent
    /\ UNCHANGED <<pid, parent, killed, chan, nextpid, ofile, panicked, memVars>>

piperead_sleep(p) ==
    /\ Running(p)
    /\ pc[p] = "piperead_sleep"
    /\ sleep(p, <<"nread", 0>>)
    /\ Goto(p, "piperead")
    /\ UNCHANGED <<pid, parent, killed, nextpid, ofile, loc, panicked, memVars, pipeVars>>

-----------------------------------------------------------------------------

\* fileclose: the last reference closes the end.  loc.i is pipeclose's writable,
\* loc.n tells exit() from close().
fileclose(p, e) ==
    /\ \/ InUser(p)
       \/ Running(p) /\ pc[p] = "exit" /\ p # initproc
    /\ e \in ofile[p]
    /\ ofile' = [ofile EXCEPT ![p] = @ \ {e}]
    /\ IF \E q \in Slot \ {p} : e \in ofile[q] THEN UNCHANGED <<pc, loc>>
       ELSE /\ Goto(p, "pipeclose")
            /\ loc' = [loc EXCEPT ![p] = [np |-> 0, i |-> IF e = "w" THEN 1 ELSE 0,
                                           n |-> IF pc[p] = "exit" THEN 1 ELSE 0]]
    /\ UNCHANGED <<ptable, panicked, memVars, pipeVars>>

pipeclose(p) ==
    /\ Running(p)
    /\ pc[p] = "pipeclose"
    /\ PipeFree
    /\ LET writable == loc[p].i = 1
           closed == IF writable THEN [pipe EXCEPT !.writeopen = FALSE]
                                 ELSE [pipe EXCEPT !.readopen = FALSE]
           gone == ~closed.readopen /\ ~closed.writeopen
       IN  /\ wakeup(IF writable THEN <<"nread", 0>> ELSE <<"nwrite", 0>>)
           /\ pipe' = IF gone THEN NoPipe ELSE closed
           /\ nfree' = IF gone THEN nfree + 1 ELSE nfree
           /\ IF gone THEN sent' = 0 /\ cut' = FALSE
              ELSE UNCHANGED sent /\ cut' = (cut /\ ~writable)
    /\ Goto(p, IF loc[p].n = 1 THEN "exit" ELSE "user")
    /\ loc' = [loc EXCEPT ![p] = NoLoc]
    /\ UNCHANGED <<pid, parent, killed, chan, nextpid, ofile, panicked,
                   kstack, vm, sz, spare>>

-----------------------------------------------------------------------------

Stream == INSTANCE ByteStream WITH
    Capacity <- PIPESIZE, Stamps <- 2 * PIPESIZE,
    open <- (IF pipe.readopen THEN {"r"} ELSE {}) \cup (IF pipe.writeopen THEN {"w"} ELSE {}),
    queue <- Ring(Count)

\* The pipe implements a stream of bytes: pipewrite and piperead move bytes through
\* the ring in order, once each, never more than PIPESIZE at a time, across the
\* wrap-around of nread and nwrite, and a read returns nothing only at the end.
ImplementsStream == Stream!StreamSpec
=============================================================================
