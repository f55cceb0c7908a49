-------------------------------- MODULE Log --------------------------------
(***************************************************************************)
(* The write-ahead log of the xv6 file systems (log.c) together with the   *)
(* part of the buffer cache it relies on (bio.c): a buffer is locked while *)
(* it is held, a dirty buffer is pinned, any other may be recycled.        *)
(*                                                                         *)
(* Critical sections under log.lock are single steps; every disk write is  *)
(* a step of its own, so that a crash can fall between any two of them.    *)
(* A block write is atomic: BSIZE is one 512-byte sector.                  *)
(***************************************************************************)
EXTENDS Integers, Sequences, FiniteSets

CONSTANTS Block,        \* home blocks
          Value,        \* block contents
          Proc,         \* processes that issue FS system calls
          LOGSIZE,      \* param.h: entries of a log header
          MAXOPBLOCKS,  \* param.h: what begin_op reserves for one call
          LogBlocks,    \* log.size - 1: blocks of the log area after its header
          OpBlocks,     \* new log entries one call really makes
          NotCached,    \* no valid buffer holds the block
          NoProc,       \* the buffer is not locked
          NoBlock       \* the process holds no buffer

ASSUME SizesAssumption ==
    /\ LOGSIZE \in Nat /\ MAXOPBLOCKS \in Nat /\ LogBlocks \in Nat /\ OpBlocks \in Nat
    /\ OpBlocks <= MAXOPBLOCKS
    /\ LogBlocks < LOGSIZE

ASSUME SentinelAssumption ==
    NotCached \notin Value /\ NoProc \notin Proc /\ NoBlock \notin Block

ASSUME ProcAssumption == IsFiniteSet(Proc)

VARIABLES
    disk,         \* home blocks on disk
    logdisk,      \* data blocks of the log area on disk
    head,         \* log header on disk: the block numbers of a committed transaction
    cache,        \* contents of the valid buffer of each block
    dirty,        \* blocks whose buffer has B_DIRTY set
    owner,        \* holder of each buffer's sleep-lock
    lh,           \* log.lh: block numbers logged so far
    outstanding,  \* log.outstanding
    committing,   \* log.committing
    pc,           \* where each process is
    held,         \* the buffer each process holds
    used,         \* log entries the current call of each process has added
    tail,         \* loop index of write_log and install_trans
    boot,         \* "up", or the step of recover_from_log being executed
    panicked      \* panic() was called: the machine stands still

diskVars == <<disk, logdisk, head>>
bufVars  == <<cache, dirty, owner>>
logVars  == <<lh, outstanding, committing>>
procVars == <<pc, held, used>>
vars     == <<diskVars, bufVars, logVars, procVars, tail, boot, panicked>>

Logged(log) == {log[i] : i \in 1..Len(log)}

\* What bread returns for block b.
Contents(b) == IF cache[b] = NotCached THEN disk[b] ELSE cache[b]

InOp(p) == pc[p] \in {"op", "have", "logging"}
Active  == {p \in Proc : InOp(p)}
Commits(p) == pc[p] \in {"write_log", "write_head", "install", "clear", "finish"}

Running == boot = "up" /\ ~panicked

-----------------------------------------------------------------------------
Init ==
    /\ disk \in [Block -> Value]
    /\ logdisk \in [1..LogBlocks -> Value]
    /\ head = <<>>
    /\ cache = [b \in Block |-> NotCached]
    /\ dirty = {}
    /\ owner = [b \in Block |-> NoProc]
    /\ lh = <<>>
    /\ outstanding = 0
    /\ committing = FALSE
    /\ pc = [p \in Proc |-> "idle"]
    /\ held = [p \in Proc |-> NoBlock]
    /\ used = [p \in Proc |-> 0]
    /\ tail = 0
    /\ boot = "read_head"
    /\ panicked = FALSE

-----------------------------------------------------------------------------
(* Entering and leaving an FS system call                                  *)

\* A process enters begin_op.
call(p) ==
    /\ Running
    /\ pc[p] = "idle"
    /\ pc' = [pc EXCEPT ![p] = "begin"]
    /\ UNCHANGED <<diskVars, bufVars, logVars, held, used, tail, boot, panicked>>

\* Seeded fault: the space test leaves out the call that is asking.
MustWait_Unreserved == committing \/ Len(lh) + outstanding * MAXOPBLOCKS > LOGSIZE

MustWait == committing \/ Len(lh) + (outstanding + 1) * MAXOPBLOCKS > LOGSIZE

\* Seeded fault: the admitted call is not counted.
begin_op_Uncounted(p) ==
    /\ Running
    /\ pc[p] = "begin"
    /\ pc' = [pc EXCEPT ![p] = IF MustWait THEN "sleep" ELSE "op"]
    /\ used' = [used EXCEPT ![p] = 0]
    /\ UNCHANGED <<diskVars, bufVars, logVars, held, tail, boot, panicked>>

\* One turn of begin_op's loop, under log.lock.
begin_op(p) ==
    /\ Running
    /\ pc[p] = "begin"
    /\ \/ /\ MustWait
          /\ pc' = [pc EXCEPT ![p] = "sleep"]
          /\ UNCHANGED <<outstanding, used>>
       \/ /\ ~MustWait
          /\ outstanding' = outstanding + 1
          /\ pc' = [pc EXCEPT ![p] = "op"]
          /\ used' = [used EXCEPT ![p] = 0]
    /\ UNCHANGED <<diskVars, bufVars, lh, committing, held, tail, boot, panicked>>

\* Seeded fault: wakeup is forgotten.
Woken_Forgotten(p, next) == [pc EXCEPT ![p] = next]

\* pc after wakeup(&log) by p, which itself moves on to next.
Woken(p, next) ==
    [q \in Proc |-> IF q = p THEN next
                    ELSE IF pc[q] = "sleep" THEN "begin" ELSE pc[q]]

\* end_op up to the release of log.lock; the last call out starts commit(),
\* which has nothing to write when no block was logged.
end_op(p) ==
    /\ Running
    /\ pc[p] = "op"
    /\ outstanding' = outstanding - 1
    /\ panicked' = committing
    /\ IF outstanding = 1
       THEN /\ committing' = TRUE
            /\ pc' = [pc EXCEPT ![p] = IF lh = <<>> THEN "finish" ELSE "write_log"]
            /\ tail' = 0
       ELSE /\ pc' = Woken(p, "idle")
            /\ UNCHANGED <<committing, tail>>
    /\ UNCHANGED <<diskVars, bufVars, lh, held, used, boot>>

-----------------------------------------------------------------------------
(* Access to the buffer cache inside a call                                *)

\* bread: lock the buffer, reading the block if no valid buffer holds it.
bread(p, b) ==
    /\ Running
    /\ pc[p] = "op"
    /\ owner[b] = NoProc
    /\ owner' = [owner EXCEPT ![b] = p]
    /\ cache' = [cache EXCEPT ![b] = Contents(b)]
    /\ held' = [held EXCEPT ![p] = b]
    /\ pc' = [pc EXCEPT ![p] = "have"]
    /\ UNCHANGED <<diskVars, dirty, logVars, used, tail, boot, panicked>>

\* brelse of a buffer that was only read.
brelse(p) ==
    /\ Running
    /\ pc[p] = "have"
    /\ owner' = [owner EXCEPT ![held[p]] = NoProc]
    /\ held' = [held EXCEPT ![p] = NoBlock]
    /\ pc' = [pc EXCEPT ![p] = "op"]
    /\ UNCHANGED <<diskVars, cache, dirty, logVars, used, tail, boot, panicked>>

LogFull == Len(lh) >= LOGSIZE \/ Len(lh) >= LogBlocks

\* The caller changes b->data and calls log_write, whose tests run before
\* log.lock is acquired.
log_write_tests(p, v) ==
    /\ Running
    /\ pc[p] = "have"
    /\ held[p] \in Logged(lh) \/ used[p] < OpBlocks
    /\ cache' = [cache EXCEPT ![held[p]] = v]
    /\ panicked' = (LogFull \/ outstanding < 1)
    /\ pc' = [pc EXCEPT ![p] = "logging"]
    /\ UNCHANGED <<diskVars, dirty, owner, logVars, held, used, tail, boot>>

\* The rest of log_write, under log.lock, and the caller's brelse.
log_write(p) ==
    /\ Running
    /\ pc[p] = "logging"
    /\ IF held[p] \in Logged(lh)             \* log absorption
       THEN UNCHANGED <<lh, used>>
       ELSE /\ lh' = Append(lh, held[p])
            /\ used' = [used EXCEPT ![p] = @ + 1]
    /\ dirty' = dirty \cup {held[p]}
    /\ owner' = [owner EXCEPT ![held[p]] = NoProc]
    /\ held' = [held EXCEPT ![p] = NoBlock]
    /\ pc' = [pc EXCEPT ![p] = "op"]
    /\ UNCHANGED <<diskVars, cache, outstanding, committing, tail, boot, panicked>>

\* Seeded fault: B_DIRTY does not keep a buffer from being recycled.
bget_recycle_Dirty(b) ==
    /\ Running
    /\ cache[b] # NotCached
    /\ owner[b] = NoProc
    /\ cache' = [cache EXCEPT ![b] = NotCached]
    /\ UNCHANGED <<diskVars, dirty, owner, logVars, procVars, tail, boot, panicked>>

\* bget recycles an unreferenced, clean buffer for another block.
bget_recycle(b) ==
    /\ Running
    /\ cache[b] # NotCached
    /\ owner[b] = NoProc
    /\ b \notin dirty
    /\ cache' = [cache EXCEPT ![b] = NotCached]
    /\ UNCHANGED <<diskVars, dirty, owner, logVars, procVars, tail, boot, panicked>>

-----------------------------------------------------------------------------
(* commit(), run by the last process out without any lock held             *)

\* One block copied from the cache to the log area.
write_log(p) ==
    /\ Running
    /\ pc[p] = "write_log"
    /\ owner[lh[tail + 1]] = NoProc
    /\ logdisk' = [logdisk EXCEPT ![tail + 1] = Contents(lh[tail + 1])]
    /\ cache' = [cache EXCEPT ![lh[tail + 1]] = Contents(lh[tail + 1])]
    /\ IF tail + 1 = Len(lh)
       THEN tail' = 0 /\ pc' = [pc EXCEPT ![p] = "write_head"]
       ELSE tail' = tail + 1 /\ UNCHANGED pc
    /\ UNCHANGED <<disk, head, dirty, owner, logVars, held, used, boot, panicked>>

\* Seeded fault: blocks are installed before the header is written.
write_head_Late(p) ==
    /\ Running
    /\ pc[p] = "write_head"
    /\ pc' = [pc EXCEPT ![p] = "install"]
    /\ UNCHANGED <<diskVars, bufVars, logVars, held, used, tail, boot, panicked>>

\* The commit point.
write_head(p) ==
    /\ Running
    /\ pc[p] = "write_head"
    /\ head' = lh
    /\ pc' = [pc EXCEPT ![p] = "install"]
    /\ UNCHANGED <<disk, logdisk, bufVars, logVars, held, used, tail, boot, panicked>>

\* Body of install_trans's loop: bwrite leaves the home buffer clean.
InstallBlock ==
    LET b == lh[tail + 1] IN
    /\ owner[b] = NoProc
    /\ disk' = [disk EXCEPT ![b] = logdisk[tail + 1]]
    /\ cache' = [cache EXCEPT ![b] = logdisk[tail + 1]]
    /\ dirty' = dirty \ {b}
    /\ tail' = tail + 1
    /\ UNCHANGED <<logdisk, head, owner>>

install_trans(p) ==
    /\ Running
    /\ pc[p] = "install"
    /\ InstallBlock
    /\ pc' = [pc EXCEPT ![p] = IF tail + 1 = Len(lh) THEN "clear" ELSE "install"]
    /\ UNCHANGED <<logVars, held, used, boot, panicked>>

\* log.lh.n = 0; write_head(): erase the transaction from the log.
ClearLog ==
    /\ lh' = <<>>
    /\ head' = <<>>
    /\ tail' = 0

clear(p) ==
    /\ Running
    /\ pc[p] = "clear"
    /\ ClearLog
    /\ pc' = [pc EXCEPT ![p] = "finish"]
    /\ UNCHANGED <<disk, logdisk, bufVars, outstanding, committing, held, used,
                   boot, panicked>>

\* Seeded fault: log.committing is not reset.
finish_Committing(p) ==
    /\ Running
    /\ pc[p] = "finish"
    /\ pc' = Woken(p, "idle")
    /\ UNCHANGED <<diskVars, bufVars, logVars, held, used, tail, boot, panicked>>

\* The end of end_op, under log.lock again.
finish(p) ==
    /\ Running
    /\ pc[p] = "finish"
    /\ committing' = FALSE
    /\ pc' = Woken(p, "idle")
    /\ UNCHANGED <<diskVars, bufVars, lh, outstanding, held, used, tail, boot, panicked>>

-----------------------------------------------------------------------------
(* Crash and recovery                                                      *)

\* Power failure or reboot at any moment: only the disk survives.
Crash ==
    /\ cache' = [b \in Block |-> NotCached]
    /\ dirty' = {}
    /\ owner' = [b \in Block |-> NoProc]
    /\ lh' = <<>>
    /\ outstanding' = 0
    /\ committing' = FALSE
    /\ pc' = [p \in Proc |-> "idle"]
    /\ held' = [p \in Proc |-> NoBlock]
    /\ used' = [p \in Proc |-> 0]
    /\ tail' = 0
    /\ boot' = "read_head"
    /\ panicked' = FALSE
    /\ UNCHANGED diskVars

\* Seeded fault: recovery clears the log without installing it.
read_head_NoInstall ==
    /\ boot = "read_head"
    /\ lh' = head
    /\ boot' = "clear"
    /\ UNCHANGED <<diskVars, bufVars, outstanding, committing, procVars, tail, panicked>>

\* recover_from_log runs in initlog, before any FS system call.
read_head ==
    /\ boot = "read_head"
    /\ lh' = head
    /\ boot' = IF head = <<>> THEN "clear" ELSE "install"
    /\ UNCHANGED <<diskVars, bufVars, outstanding, committing, procVars, tail, panicked>>

recover_install ==
    /\ boot = "install"
    /\ InstallBlock
    /\ boot' = IF tail + 1 = Len(lh) THEN "clear" ELSE "install"
    /\ UNCHANGED <<logVars, procVars, panicked>>

recover_clear ==
    /\ boot = "clear"
    /\ ClearLog
    /\ boot' = "up"
    /\ UNCHANGED <<disk, logdisk, bufVars, outstanding, committing, procVars, panicked>>

recover_from_log == read_head \/ recover_install \/ recover_clear

-----------------------------------------------------------------------------
commit(p) == write_log(p) \/ write_head(p) \/ install_trans(p) \/ clear(p) \/ finish(p)

Step(p) ==
    \/ begin_op(p)
    \/ end_op(p)
    \/ \E b \in Block : bread(p, b)
    \/ brelse(p)
    \/ \E v \in Value : log_write_tests(p, v)
    \/ log_write(p)
    \/ commit(p)

Next ==
    \/ \E p \in Proc : call(p) \/ Step(p)
    \/ \E b \in Block : bget_recycle(b)
    \/ recover_from_log
    \/ Crash

Spec == Init /\ [][Next]_vars

(***************************************************************************)
(* A process that can run does run (the scheduler is round-robin), and     *)
(* every FS system call reaches its end_op after finitely many buffer      *)
(* accesses: all loops over blocks in fs.c are bounded.                    *)
(***************************************************************************)
Fairness ==
    /\ \A p \in Proc : WF_vars(Step(p)) /\ SF_vars(end_op(p))
    /\ WF_vars(recover_from_log)

FairSpec == Spec /\ Fairness

-----------------------------------------------------------------------------
(* Properties                                                              *)

\* The state stays in its types; in particular no call logs more entries than
\* OpBlocks and log.outstanding never goes below zero.
TypeOK ==
    /\ disk \in [Block -> Value]
    /\ logdisk \in [1..LogBlocks -> Value]
    /\ head \in Seq(Block)
    /\ cache \in [Block -> Value \cup {NotCached}]
    /\ dirty \in SUBSET Block
    /\ owner \in [Block -> Proc \cup {NoProc}]
    /\ lh \in Seq(Block)
    /\ outstanding \in Nat
    /\ committing \in BOOLEAN
    /\ pc \in [Proc -> {"idle", "begin", "sleep", "op", "have", "logging",
                        "write_log", "write_head", "install", "clear", "finish"}]
    /\ held \in [Proc -> Block \cup {NoBlock}]
    /\ used \in [Proc -> 0..OpBlocks]
    /\ tail \in Nat
    /\ boot \in {"up", "read_head", "install", "clear"}
    /\ panicked \in BOOLEAN

\* None of the panics of log.c is reached: the reservation made by begin_op
\* leaves room for every log_write of every admitted call ("too big a
\* transaction", although the test is made before log.lock is acquired),
\* and no call ends while another process commits ("log.committing").
NoPanic == ~panicked

\* A process that sleeps in begin_op has somebody left who will call
\* wakeup(&log): a call still in progress or a commit under way.
SleeperHasWaker ==
    (\E p \in Proc : pc[p] = "sleep") => (Active # {} \/ \E p \in Proc : Commits(p))

\* What recover_from_log makes of home blocks d, log area ld and header h.
RecoveredFrom(d, ld, h) ==
    [b \in Block |-> IF b \in Logged(h) THEN ld[CHOOSE i \in 1..Len(h) : h[i] = b] ELSE d[b]]

\* What a crash now, followed by recover_from_log, would leave on the disk.
Recovered == RecoveredFrom(disk, logdisk, head)

\* What the file system sees through bread; during recovery nobody looks.
Visible == IF boot = "up" THEN [b \in Block |-> Contents(b)] ELSE Recovered

Atomic == INSTANCE AtomicDisk WITH mem <- Visible, durable <- Recovered, active <- Active

\* The log implements the atomic disk: a crash at any step of any call, of
\* commit() or of recovery itself leaves all the writes of the committed calls
\* and none of the others, and commits happen only between calls.
ImplementsAtomicDisk == Atomic!Spec

\* The write-ahead rule: a home block is overwritten only while the header on
\* disk names it and the log area holds the new contents.
WriteAhead ==
    [][\A b \in Block : disk'[b] # disk[b] =>
          \E i \in 1..Len(head) : head[i] = b /\ logdisk[i] = disk'[b]]_vars

\* Every process asleep in begin_op is woken again, unless the machine goes
\* down first: no wakeup(&log) is lost between its test and its sleep.
SleeperWoken == \A p \in Proc : pc[p] = "sleep" ~> pc[p] # "sleep"

\* Every commit comes to an end, so that committing never shuts out new calls.
CommitEnds == committing ~> ~committing

-----------------------------------------------------------------------------
(* The inductive invariant behind NoPanic and ImplementsAtomicDisk         *)

\* log.outstanding counts the calls in progress, and log.committing is set
\* exactly while one process, alone, runs commit().
CountInv ==
    /\ outstanding = Cardinality(Active)
    /\ committing <=> \E p \in Proc : Commits(p)
    /\ committing => Active = {}
    /\ \A p, q \in Proc : Commits(p) /\ Commits(q) => p = q
    /\ boot # "up" => \A p \in Proc : pc[p] = "idle"
    /\ (boot = "up" /\ Active = {} /\ ~committing) => lh = <<>>

\* The log entries the calls in progress may still add, one pair for each.
Pending == {e \in Active \X (1..OpBlocks) : used[e[1]] < e[2]}

\* The longest log begin_op lets calls build up: one call alone starts with
\* an empty log, two or more with at least two reservations free.
Limit == IF OpBlocks >= LOGSIZE - 2 * (MAXOPBLOCKS - OpBlocks)
         THEN OpBlocks ELSE LOGSIZE - 2 * (MAXOPBLOCKS - OpBlocks)

\* Space for every pending entry is set aside, in the log as on disk.
SpaceInv ==
    /\ boot = "up" => Len(lh) + Cardinality(Pending) <= Limit
    /\ \A p \in Proc : pc[p] = "logging" => held[p] \in Logged(lh) \/ used[p] < OpBlocks
    /\ Len(head) <= LogBlocks

NoDup(log) == \A i, j \in 1..Len(log) : log[i] = log[j] => i = j

\* Who holds which buffer, and what the held buffers contain.
BufInv ==
    /\ \A p \in Proc : held[p] # NoBlock <=> pc[p] \in {"have", "logging"}
    /\ \A p \in Proc, b \in Block : owner[b] = p <=> held[p] = b
    /\ \A p \in Proc : held[p] # NoBlock => cache[held[p]] # NotCached
    /\ \A b \in dirty : cache[b] # NotCached
    \* a buffer that is not pinned and not being changed agrees with the disk
    /\ \A b \in Block : cache[b] = NotCached \/ cache[b] = disk[b] \/ b \in dirty
                        \/ \E p \in Proc : pc[p] = "logging" /\ held[p] = b

Installed(log, n) == \A i \in 1..n : disk[log[i]] = logdisk[i]

\* The log on disk against the log in memory, for a process at each step of
\* commit().
CommitStep(p) ==
    /\ pc[p] \in {"write_log", "install"} => tail < Len(lh)
    /\ pc[p] \in {"write_head", "clear"} => lh # <<>>
    /\ pc[p] = "write_head" => tail = 0
    /\ pc[p] = "write_log" => \A i \in 1..tail : logdisk[i] = Contents(lh[i])
    /\ pc[p] \in {"write_head", "install"} =>
          \A i \in 1..Len(lh) : logdisk[i] = Contents(lh[i])
    /\ pc[p] = "install" => /\ Installed(lh, tail)
                            /\ dirty = {lh[i] : i \in tail+1..Len(lh)}
    /\ pc[p] = "clear" => Installed(lh, Len(lh)) /\ dirty = {}
    /\ pc[p] \in {"install", "clear"} => head = lh
    /\ pc[p] = "finish" => lh = <<>>

CommitInv ==
    /\ NoDup(lh) /\ NoDup(head)
    /\ \A p \in Proc : CommitStep(p)
    /\ (boot = "up" /\ \A p \in Proc : pc[p] \notin {"install", "clear"}) =>
          /\ head = <<>>
          /\ dirty = Logged(lh)

\* The same during recovery.
RecoverInv ==
    /\ boot # "up" => dirty = {}
    /\ boot = "read_head" => lh = <<>> /\ tail = 0
    /\ boot = "install" => lh = head /\ tail < Len(lh) /\ Installed(lh, tail)
    /\ boot = "clear" => lh = head /\ Installed(lh, Len(lh))

Inv == NoPanic /\ CountInv /\ SpaceInv /\ BufInv /\ CommitInv /\ RecoverInv
=============================================================================
