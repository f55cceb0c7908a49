-------------------------------- MODULE Disk --------------------------------
(***************************************************************************)
(* The buffer cache and the disk driver below it: bget() with its LRU      *)
(* list and reference counts, the sleep-lock of a buffer, the request      *)
(* queue of iderw() and the interrupt that serves its head.                *)
(***************************************************************************)
EXTENDS Proc

CONSTANTS NBUF, Block, Value,
          ReadErrors      \* TRUE: the disk may report an error on a read

ASSUME DiskAssumption ==
    /\ NBUF \in Nat \ {0} /\ ReadErrors \in BOOLEAN
    /\ Block \subseteq Nat \ {0} /\ Value # {}

VARIABLES
    buf,        \* struct buf: block, reference count, flags, data, owner of the lock
    lru,        \* bcache.head: buffers, most recently released first
    idequeue,   \* buffers waiting for the disk; the first is being served
    disk,
    stored      \* ghost: what a holder last stored in each block

diskVars == <<buf, lru, idequeue, disk, stored>>

Buffer == 1..NBUF
AnyValue == CHOOSE v \in Value : TRUE

DiskInit ==
    /\ buf = [b \in Buffer |-> [blockno |-> 0, refcnt |-> 0, valid |-> FALSE, dirty |-> FALSE,
                                 data |-> AnyValue, owner |-> 0]]
    /\ lru = [i \in Buffer |-> NBUF + 1 - i]
    /\ idequeue = <<>>
    /\ disk = [b \in Block |-> AnyValue]
    /\ stored = disk

-----------------------------------------------------------------------------

Cached(n) == {b \in Buffer : buf[b].blockno = n}

\* Seeded fault: a buffer of an open transaction is recycled.
Recyclable_Dirty(b) == buf[b].refcnt = 0

Recyclable(b) == buf[b].refcnt = 0 /\ ~buf[b].dirty

\* The last one of the list that can be recycled.
Victim == LET i == Max({j \in DOMAIN lru : Recyclable(lru[j])}) IN lru[i]

bget(p, n) ==
    /\ InUser(p)
    /\ LET b == IF Cached(n) # {} THEN CHOOSE c \in Cached(n) : TRUE ELSE Victim
       IN  /\ Cached(n) # {} \/ \E c \in Buffer : Recyclable(c)
           /\ buf' = IF Cached(n) # {} THEN [buf EXCEPT ![b].refcnt = @ + 1]
                     ELSE [buf EXCEPT ![b] = [@ EXCEPT !.blockno = n, !.valid = FALSE,
                                                        !.dirty = FALSE, !.refcnt = 1]]
           /\ loc' = [loc EXCEPT ![p] = [NoLoc EXCEPT !.i = b]]
    /\ Goto(p, "acquiresleep")
    /\ UNCHANGED <<ptable, ofile, panicked, lru, idequeue, disk, stored>>

\* panic("bget: no buffers")
bget_none(p, n) ==
    /\ InUser(p)
    /\ Cached(n) = {}
    /\ \A c \in Buffer : ~Recyclable(c)
    /\ panicked' = TRUE
    /\ UNCHANGED <<ptable, ofile, pc, loc, diskVars>>

\* iderw: append the buffer, start the disk if it is idle, wait.
iderw(p, b) ==
    /\ idequeue' = Append(idequeue, b)
    /\ sleep(p, <<"buf", b>>)
    /\ Goto(p, "iderw")

\* One round of acquiresleep.
acquiresleep(p) ==
    /\ Running(p)
    /\ pc[p] = "acquiresleep"
    /\ buf[loc[p].i].owner # 0
    /\ sleep(p, <<"lock", loc[p].i>>)
    /\ UNCHANGED <<pid, parent, killed, nextpid, ofile, pc, loc, panicked, diskVars>>

\* The lock is free: a valid buffer is in use as it is, another one is read.
bread(p) ==
    /\ Running(p)
    /\ pc[p] = "acquiresleep"
    /\ LET b == loc[p].i
       IN  /\ buf[b].owner = 0
           /\ buf' = [buf EXCEPT ![b].owner = p]
           /\ IF buf[b].valid THEN Goto(p, "held") /\ UNCHANGED <<idequeue, state, chan>>
              ELSE iderw(p, b)
    /\ UNCHANGED <<pid, parent, killed, nextpid, ofile, loc, panicked, lru, disk, stored>>

\* The holder changes the data; B_DIRTY keeps the buffer until the commit writes it.
log_write(p, v) ==
    /\ Running(p)
    /\ pc[p] = "held"
    /\ buf' = [buf EXCEPT ![loc[p].i] = [@ EXCEPT !.data = v, !.dirty = TRUE]]
    /\ stored' = [stored EXCEPT ![buf[loc[p].i].blockno] = v]
    /\ UNCHANGED <<procVars, lru, idequeue, disk>>

bwrite(p) ==
    /\ Running(p)
    /\ pc[p] = "held"
    /\ buf' = [buf EXCEPT ![loc[p].i].dirty = TRUE]
    /\ iderw(p, loc[p].i)
    /\ UNCHANGED <<pid, parent, killed, nextpid, ofile, loc, panicked, lru, disk, stored>>

\* Woken by the interrupt, or by kill().
iderw_wait(p) ==
    /\ Running(p)
    /\ pc[p] = "iderw"
    /\ LET b == loc[p].i
       IN  IF buf[b].valid /\ ~buf[b].dirty THEN Goto(p, "held") /\ UNCHANGED <<state, chan>>
           ELSE sleep(p, <<"buf", b>>) /\ UNCHANGED pc
    /\ UNCHANGED <<pid, parent, killed, nextpid, ofile, loc, panicked, diskVars>>

\* The disk has served the head of the queue.  idewait(1) may report an error, and
\* then the buffer keeps what it held; it is marked valid all the same.
ideintr ==
    /\ ~panicked
    /\ idequeue # <<>>
    /\ LET b == Head(idequeue)
           n == buf[b].blockno
       IN  /\ \E ok \in {TRUE, ~ReadErrors} :
                buf' = [buf EXCEPT ![b] =
                    [@ EXCEPT !.data = IF buf[b].dirty \/ ~ok THEN buf[b].data ELSE disk[n],
                              !.valid = TRUE, !.dirty = FALSE]]
           /\ disk' = IF buf[b].dirty THEN [disk EXCEPT ![n] = buf[b].data] ELSE disk
           /\ wakeup(<<"buf", b>>)
    /\ idequeue' = Tail(idequeue)
    /\ UNCHANGED <<pid, parent, killed, chan, nextpid, ofile, pc, loc, panicked, lru, stored>>

releasesleep(p) ==
    /\ Running(p)
    /\ pc[p] = "held"
    /\ buf' = [buf EXCEPT ![loc[p].i].owner = 0]
    /\ wakeup(<<"lock", loc[p].i>>)
    /\ Goto(p, "brelse")
    /\ UNCHANGED <<pid, parent, killed, chan, nextpid, ofile, loc, panicked, lru, idequeue, disk, stored>>

\* The list with b moved to its front.
ToFront(b) ==
    LET i == CHOOSE j \in Buffer : lru[j] = b
    IN  [j \in Buffer |-> IF j = 1 THEN b ELSE IF j <= i THEN lru[j - 1] ELSE lru[j]]

brelse(p) ==
    /\ Running(p)
    /\ pc[p] = "brelse"
    /\ LET b == loc[p].i
       IN  /\ buf' = [buf EXCEPT ![b].refcnt = @ - 1]
           /\ lru' = IF buf[b].refcnt = 1 THEN ToFront(b) ELSE lru
    /\ Return(p)
    /\ UNCHANGED <<ptable, ofile, panicked, idequeue, disk, stored>>
=============================================================================
