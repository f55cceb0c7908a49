# Verification of LinuxSystem

TLA+ models, model-checking runs and machine-checked proofs for the programs of
this repository: two xv6 kernels with extended file systems, a file-arranging
daemon, a reader of ext2 images and a grader of student programs.

## 1. The system

| Part | State it keeps | Operations | Hard behaviour |
|---|---|---|---|
| Write-ahead log (`log.c`, same in both xv6 trees) | header and blocks of the log area on disk; `log.lh`, `outstanding`, `committing` | `begin_op`, `end_op`, `log_write`, `commit`, `recover_from_log` | concurrent calls share a transaction; a crash can fall between any two disk writes; log space; lost wakeups |
| Buffer cache (`bio.c`) | buffers with a block, flags, sleep-lock, reference count, LRU list | `bread`, `bwrite`, `brelse` | dirty buffers must stay until commit; all buffers in use |
| Disk driver (`ide.c`) | request queue | `iderw`, `ideintr` | interrupt completes the head of the queue and wakes its owner |
| Continuous-sector files (`xv6-continuous-sector-fs/fs.c`) | bitmap, `addrs` holding runs (24-bit start, 8-bit length), size | `ballocx`, `csbmap`, `writei`, `itrunc`, `filewrite` | short writes, limits of runs and addresses, files growing in turn |
| Multilevel files (`xv6-lazy-allocation-multilevel-fs/fs.c`) | `addrs` with direct, indirect, double and triple indirect blocks | `bmap`, `bfreeindirect`, `itrunc` | level boundaries; blocks logged by one truncation |
| Inodes and names (`fs.c`, `sysfile.c`) | inode cache (ref, valid, lock), inodes on disk, directory entries | `iget`, `ilock`, `iput`, `create`, `sys_open`, `sys_link`, `sys_unlink`, `sys_close`, `sys_mkdir`, `sys_chdir` | freeing an unlinked inode, reuse of its number, lock order |
| Open files (`file.c`) | `ref`, `off`, the inode or pipe | `filealloc`, `filedup`, `fileclose`, `fileread`, `filewrite` | shared offsets |
| Pipes (`pipe.c`) | ring of `PIPESIZE` bytes, `nread`, `nwrite`, open ends | `pipewrite`, `piperead`, `pipeclose` | blocking both ways, closing while the other end sleeps |
| Processes and clock (`proc.c`, `trap.c`) | process table, states, channels, `ticks` | `fork`, `exit`, `wait`, `kill`, `sleep`, `wakeup`, `scheduler`, `sys_sleep` | lost wakeups, orphans, kill of a sleeper |
| Lazy allocation (`vm.c`, `trap.c`, `sysproc.c`) | page tables with reserved (`PTE_SSU`) and present pages, free pages | `ssualloc`, page fault, `growproc`, `copyuvm`, `freevm` | running out of pages in a fault |
| Locks (`spinlock.c`, `sleeplock.c`, `sched` of `proc.c`) | locks, `ncli` and `intena` of each processor | `acquire`, `release`, `pushcli`, `popcli`, `acquiresleep`, `sched` | interrupts between any two instructions; a thread resumes on another processor |
| Console and keyboard (`console.c`, `kbd.c`) | ring of `INPUT_BUF` characters with three indices; the modifier word | `consoleintr`, `consoleread`, `kbdgetc` | interrupts against readers; the ring full; indices that wrap |
| Shell (`sh.c`) | the tree of a line; descriptors of each child | parser, `runcmd` | pipe ends held by too many processes; calls that fail half-way |
| User library, `grep` | free list of `malloc`, `grep`'s buffer | string and memory functions, `printf`, `malloc`, `free`, the matcher | coalescing, overlap, boundaries of numbers, reads that cut lines |
| `mkfs` | the image | `iappend`, `balloc` | must lay out blocks as the kernel's `bmap` reads them |
| ssu_cleanup | registry of daemons, one configuration and log per directory, behind `fcntl` locks | `add`, `modify`, `remove`, `show`, the daemon's loop | commands and daemons of several processes over shared files |
| ssu_ext2 | none but the image | `tree`, `print` | level boundaries, cycles in directories |
| ssu_score | score table, student answers, result file | options, grading, score table maintenance, comparison of expressions | time limits of programs, a stop between runs, verdicts carried along a recursion |

How the kernel parts interact: every system call that touches the disk runs
between `begin_op` and `end_op`; inside, the inode layer reaches blocks through
`bread`, marks changes with `log_write`, and the last call out commits. Waiting
everywhere (log space, sleep-locks, pipes, `wait`) is `sleep`/`wakeup` of
`proc.c`.

What makes each part correct:

* log: a crash loses whole calls only and never tears one; the log area never
  overflows; nobody sleeps for ever;
* files: every block belongs to one file, the map covers exactly the size, no
  write of any outcome leaks a block or exposes old data;
* inodes: counts are exact, nothing reachable is freed, what is unreachable is
  freed, the cache agrees with the disk, calls cannot block each other for ever;
* processes and pipes: no lost wakeup, bytes in order, ends detected;
* lazy allocation: a reserved page is either present or obtainable, pages are
  accounted for;
* locks: interrupts are off exactly while a lock is held or a handler runs;
* shell and library: a line is wired as it is written and nobody is left waiting;
  allocated blocks never overlap; numbers and formats print what they say;
* ssu_cleanup: one daemon per directory, a command that fails changes nothing, a
  pass leaves the file of each name that the options ask for;
* ssu_ext2: the bytes and entries of the image, or an error, whatever the image;
* ssu_score: every cell is what the work earned, by scores that somebody typed.

## 2. Modules

| Module | Models | Source |
|---|---|---|
| `AtomicDisk` | what the log promises: groups of calls reach the disk entirely or not at all | abstract |
| `Log` | the log, the buffers it pins, crash and recovery | `log.c`, `bio.c` |
| `LogProofs`, `InodeProofs`, `CleanupProofs` | the theorems about `Log`, `Inode`, `Cleanup` | |
| `ProcProofs` | the theorems about the process table and the types of the whole `Kernel` | |
| `CsFileProofs` | the theorems about `CsFile` | |
| `KernelProofs` | console, clock, disk, pipe, memory, and sleep and wakeup over all components; extends `ProcProofs` | |
| `SpinProofs`, `MultilevelProofs` | the theorems about `Spin` and `Multilevel` | |
| `CsFile` | continuous-sector files next to ordinary ones, reads and writes of several processes | `xv6-continuous-sector-fs` `fs.c`, `file.c`, `sysfile.c` |
| `Inode` | the inode cache, link counts and names | `fs.c`, `sysfile.c` of both trees (mapped to the lazy-allocation tree) |
| `Cleanup` | shells and daemons of ssu_cleanup over the list of daemons and the configurations | `ssu_cleanup.cpp` |
| `Proc` | the process table: scheduling, `sleep`, `wakeup`, `kill`, `exit` | `proc.c`, `trap.c` |
| `Memory` | address spaces and free pages: `fork`, `wait`, `sbrk`, `ssualloc`, faults, `exec` | lazy-allocation tree: `vm.c`, `trap.c`, `sysproc.c`, `exec.c`, `proc.c`, `kalloc.c` |
| `ByteStream` | what a pipe promises | abstract |
| `Pipe` | the pipe | `pipe.c`, `file.c`, `sysfile.c` |
| `Console` | the line editor and its readers | `console.c` |
| `Clock` | ticks and `sys_sleep` | `trap.c`, `sysproc.c` |
| `Disk` | the buffer cache and the disk driver | `bio.c`, `ide.c`, `sleeplock.c` |
| `Kernel` | the composition of these | |
| `Spin` | spin-locks, sleep-locks, `sched` and the timer interrupt | `spinlock.c`, `sleeplock.c`, `proc.c`, `trap.c` |
| `Multilevel` | `bmap`, `writei`, `itrunc`, and the image `mkfs` leaves | lazy-allocation tree: `fs.c`, `mkfs.c` |
| `Shell`, `Run` | the parser; the tree being run | `sh.c` |
| `LibC`, `Malloc`, `Grep`, `Kbd` | strings, numbers and formats; the heap; `grep`; the keyboard | `string.c`, `ulib.c`, `printf.c`, `console.c`, `umalloc.c`, `grep.c`, `kbd.c` |
| `Ext2` | ssu_ext2 | `ssu_ext2.c` |
| `Score`, `Blank` | grading; the comparison of expressions | `ssu_score.c`, `blank.c` |
| `Arrange` | options, configuration and one pass of a daemon | `ssu_cleanup.cpp` |
| `MCLog`, `MCCsFile`, `MCInode`, `MCCleanup`, `MCKernel`, `MCParts` | instances for TLC | |

`PROJECT.json` maps every definition to the lines it models. Operators whose
name has a suffix (`MustWait_Unreserved`) are seeded faults: the bug each
property must catch, never part of a specification. A property of `parts` has
one for every module it covers. Most of the kernel is the same in both xv6 trees;
the map names one of them for each definition.

### Log and AtomicDisk

A critical section under `log.lock` is one step. Every disk write of `commit`
and of recovery is a step of its own, because a crash may come between any two.
A block write is atomic: a block is one sector. `pc` follows a process through
`begin_op` ("begin", "sleep"), its accesses ("op", "have", "logging") and
`commit` ("write_log" to "finish"); `boot` follows `recover_from_log`. The tests
of `log_write` run before `log.lock` is taken (`log_write_tests`), the rest
after. `OpBlocks` is how many new entries a call really makes; `used` counts
them, so that what `fs.c` logs enters as a parameter. `cache` holds the valid
buffer of each block; `bget_recycle` drops any clean, unlocked one, so the size
of the cache is abstracted away. `bread` while the disk is read is one step: the
buffer is locked meanwhile.

`AtomicDisk` keeps what the file system sees (`mem`), what a crash would leave
(`durable`) and the calls in progress; it commits only between calls.
The refinement mapping reads `mem` through the cache and `durable` as the disk
after the recovery that the header on disk would cause.

### CsFile

`addrs` of a CS inode are runs packed into one word, as in the code; `ind` is
the indirect block of an ordinary one. `data` keeps, for each byte, the file it
was written to, 0 for a zeroed byte, and `Junk` for the contents of a free
block: enough to tell whether old data shows through. A write is `sys_write`,
then for each chunk `writei_begin` (`ilock`, the range tests), one step per
block (`write_mapped`, `write_csgrow`, `write_csfail`, `write_grow`) and
`writei_end` (`size`, `off`, `iunlock`). A read is one step under the inode's lock;
it moves `off`, also between the chunks of a write through the same open file, and
lets writes begin in the middle of a file. Between two blocks another process can
allocate from the same bitmap. Opening, unlinking and closing are single steps:
their own interleavings are module `Inode`. Out of blocks is a panic for an
ordinary file, as in `balloc`, and a short write for a CS file.

### Inode

A step ends where another process can run: taking a sleep-lock, or a critical
section under `icache.lock`. `iput` is therefore five steps: take the lock and
test `nlink`, read `ref`, free, unlock, decrement. A call begins by locking the
directory and looking its name up; `create` and `unlink` keep the directory
locked while they lock the inode. The directory is the root, whose own inode is
never freed. `link` counts the link, unlocks, and makes the entry later, or
takes the count back.

### Cleanup

The list of daemons and each configuration are read and rewritten between `fcntl`
lock and unlock. A command is several such sections (`add`: check, fork,
configuration, register, start or abort), and other shells and daemons run in
between. Rewriting is in place: `write_config` and `rewrite_entries` truncate the
file and then fill it. A configuration is written in two steps, `truncate_config`
and `complete_config`. In between the file is `Torn`, whatever part of it has been
written, because `read_config` needs the last line, `mode`; whoever wants the file
waits for its lock (`Locked`). A section on the list is one step for the other
processes, since all of them lock it. A shell may be killed at its prompt or anywhere
in a command, and another takes its place: in the middle of a configuration the file
stays torn (`exit_shell`; the ghost `broken` marks its directory until somebody writes
it again), in the middle of the list the list is empty (`die_in_list`). The ghost
`deserted` marks the daemons whose shell died before it started them.

A daemon is "forked" until its handler is in place, then in `read` of the start-up
pipe ("wait"; "interrupted" if SIGTERM finds it there), then "reading" its
configuration or "sleeping"; it is "dead" while its shell has not reaped it
(`kill(pid, 0)` still succeeds, so its entry stays) and "gone" afterwards. A
SIGTERM taken between handler and `read` leaves it in "wait": then only the byte
or the end of the pipe (`PipeOpen`) helps. A configuration is its pid and its
options; `show` only cleans the list; what a pass of `arrange_files` does is module
`Arrange`, here it is part of the step that follows the wait. Checks of arguments and
I/O errors are left out; process ids are not reused.

### Kernel: Proc, Memory, Pipe, Console, Clock, Disk

`Proc` keeps the fields of `struct proc` and, for each process, a `pc` inside the
system call it is in and the locals (`loc`) it needs there. A critical section
under a spin-lock is one step, except where `kill`, which takes `ptable.lock`
only, can be seen inside it: a test of `killed` and the `sleep` after it are two
steps. At most `NCPU` processes run; `yield` is a timer interrupt.

`Memory` counts physical pages. An address space is the pages its directory takes,
its page tables, and for each virtual page none, `ssu` (reserved by `ssualloc`),
present or guard; `spare` is the one `exec` is building (`fork` builds its child's in the child's slot). Loops over
pages are one step per page, so that other processes allocate in between, and
each step has the branch in which `kalloc` fails. A fault may come from user mode
or from the kernel touching a user buffer (`trap_user`, `trap_kernel`).

`Pipe` keeps `nread` and `nwrite` modulo `UINT` as the code does. Bytes carry a
number, so that lost, repeated and reordered bytes show; `ByteStream` is the
queue they must form. A write stops at a full ring and goes on after the sleep; a
killed writer leaves without waking readers (the ghost `cut` marks it).
`Console` is the same kind of ring with a third index, filled by the interrupt.
`Clock` counts ticks modulo `UINT`; each tick wakes everybody who sleeps for one,
and they compare again.
`Disk` is `bget` over `NBUF` buffers with the LRU list, the sleep-lock of each,
and `iderw` and `ideintr` over the queue; the ghost `stored` is what a holder last
stored in a block.

`Kernel` puts them together. `load`, chosen in Init, says which system calls the
user programs make besides `fork`, `exit`, `wait` and `kill`; the kernel is the
same for all, and the state space is the sum of the loads, not their product.

### Spin

The kernel's locking code as sequences of steps on a stack for each thread, two
processors, and a timer interrupt wherever interrupts are on. A processor has
`ncli`, `intena` and the flag; `sched` saves `intena` on the stack of the thread.
Memory ordering is taken as given.

### The other parts

`Multilevel` starts with `mkfs` appending blocks to two files, then the kernel
extends, overwrites and truncates them, block by block. `Shell` is the recursive
descent of `sh.c` on tokens; `Run` executes trees with one system call per step,
every one of which may fail, and lets commands be what is hardest to wire: they
read to the end of their input and fill their output. `LibC` computes on a small
memory in which arguments overlap, and on ints of a few bits; `Malloc` counts
headers; `Grep` reads a file in pieces of any size; `Kbd` presses and lifts keys
while bytes wait in the controller.

`Ext2` takes arbitrary images (a superblock, tables, blocks as inodes, pointers,
records or bytes) and lines typed at the prompt. `Score` runs the grader twice
over files that outlive it, with a stop at any step; a program has the tick at
which it ends, and may need `-t` to link, and the polling loop may read the clock
late; what `-c` and `-p` print about a student is part of the state. `Blank` builds the
linked nodes of `make_tree` on a heap and compares them as `compare_tree` does,
null pointers included, and holds the verdict against what the trees stand for
(`Orders`, `Covers`, and values of the variables). `Arrange` parses options into a
configuration, writes and reads its file, makes a pass file by file while the user
changes files, and keeps and shows the log. A token or a line of the file is the
sequence of its parts between commas, so what `write_config` joins and `read_config`
splits again is a concatenation: a path with a comma (`Split`) comes back in parts.
What the commands meant is kept apart from what was read back.

`MCParts` gives each of these an instance; `part` selects one in Init. It extends
`Spin` and `Multilevel`, so that the invariants it checks of them are the ones that
`SpinProofs` and `MultilevelProofs` prove.

## 3. Runs

| Run | Checks | Bounds and why they suffice |
|---|---|---|
| `log_crash` | `TypeOK`, `SleeperHasWaker`, `Inv`, `ImplementsAtomicDisk`, `WriteAhead` | two processes, three blocks, two contents, a log for two calls of two entries: transactions of up to four writes with absorption, a crash at every step, also of recovery |
| `log_live` | `NoPanic`, `SleeperWoken`, `CommitEnds` | three processes of which two fit: waiting for space and for a commit both happen; no symmetry |
| `log_full` (violation) | `NoPanic` | the same log, calls that use all of `MAXOPBLOCKS` |
| `csfile` | `TypeOK`, `BlocksOwned`, `MapsSize`, `OwnBytes`, `OffsetInFile`, `RunsMaximal` | two processes, two inodes, two open files, five blocks of two bytes, two runs of at most two blocks: disk full, runs full, entries exhausted, file limit, address limit (block 5 does not fit an entry) and chunk boundaries inside a block all occur, and a write may begin at any offset that reads of three bytes reach |
| `inode` | `TypeOK`, `RefCounts`, `CacheCoherent`, `LinkCounts`, `NoDangling`, `NotStuck` | two processes, two names, three inodes over a cache of two entries, two open files: the cache and the file table fill up, entries are recycled, numbers are reused |
| `inode_orphan` (violation) | `NoOrphan` | two processes, one name |
| `cleanup` | `TypeOK`, `NoOverlap`, `WorkingHasConfig` | two shells, a directory and one inside it, two daemons: two adds that race, for the same and for overlapping directories, with every command of the other shell and its death in between, also while it rewrites a file. 1 880 000 states |
| `cleanup_stop` | `StopTakesEffect` | two shells, one directory, two daemons: a daemon is stopped by its own shell and by the other, at every point of its life; no symmetry |
| `cleanup_config` (violation) | `RefusedLeavesConfig` | the same race |
| `kernel` | `TypeOK`, `PagesAccounted`, `MappedBelowSize`, `NoLostWakeup`, `Adopted`, `FullIsReadable`, `CacheAgrees`, `ImplementsStream` | three slots, two processors; memory: 11 pages, three virtual pages of two units, so that `fork`, `sbrk`, `exec` and faults fail at each of their allocations and sizes fall off page boundaries; pipe and console: rings of two, indices modulo four, amounts of one and three, so that rings fill, calls block half-way and indices wrap; clock: ticks modulo four, waits of one and three; disk: two buffers for three blocks. 780 000 states |
| `kernel_kill` (violation) | `BornAlive` | the memory load of the same instance |
| `parts` | `MultilevelRight`, `LibraryRight`, `ShellRight`, `SpinSafe`, `Ext2Right`, `ScoreRight`, `BlankFair`, `PassExact` | one instance per part, 1 140 000 states together: a file that grows through every level to `MAXFILE` (17 blocks); heaps of 12 units; all lines of five tokens; two scripts with pipes, redirections, lists and background, one failing call; two processors and two threads; some 330 images and 32 command lines, all options of `tree` and `print` with refused ones; two runs of the grader with three students, times around the limit; all expressions of two operands, pairs of three, and of four under `==`; a tree of four files, one of them below a directory with a comma, 15 commands with repeated, refused and empty options, two passes, one change |

`csfile`, `inode` and `inode_orphan` do not check for deadlock: after a panic the
machine stands still; `NotStuck` states the absence of deadlock for `Inode`. Nor
do the runs of `Cleanup`: once `MaxPid` daemons have been started, shells in the
middle of `add` have no step left. In `kernel` the machine stands still after a
panic, or when everybody waits for input that nobody types or has exited; in
`parts` a computation that has ended has no step left, and where waiting for ever
would be a fault (`Run`) the property says so.

What the violations show:

* `log_full`: `begin_op` admits calls against `LOGSIZE`, but `mkfs` gives the
  log area `LOGSIZE` blocks including the header. If calls use all the
  `MAXOPBLOCKS` blocks that `param.h` grants them, `log_write` panics with "too
  big a transaction". With one block less per call this cannot happen: that is
  theorem `LogNoPanic`.
* `inode_orphan`: two `iput`s of an unlinked inode with two references both read
  `ref == 2`, and neither frees it; its comment says the last reference does.
* `cleanup_config`: of two shells that add a directory at the same time, the one
  that `add_entry` refuses has already written its configuration; the daemon of
  the other runs by it, under a wrong pid. The README of ssu_cleanup says that a
  refused command changes no configuration and allows for this race only an
  empty output directory.
* `kernel_kill`: `kill` compares pids without looking at states. An unused slot has
  pid 0, so `kill(0)` succeeds and marks it; `allocproc` does not reset `killed`,
  and the next process in the slot ends at its first return to user mode.

What the models met besides. The models behave so too, and the properties say where
they make an exception. Of these the repository states nothing to hold the code
against:

* `pipewrite` of a killed process returns without waking readers of the bytes it
  wrote (`NoLostWakeup` excepts it).
* `ideintr` marks a buffer valid although the disk reported a read error. The
  constant `ReadErrors` switches this on; with it `CacheAgrees` cannot hold, so the
  run has it off.
* `sbrk` with a negative amount that leaves nothing returns -1 after freeing all.
* Both control keys, or both shift keys, share a bit: lifting one lifts both.
* `memmove` of the user library copies upwards whatever the overlap.
* `safestrcpy` stores a second zero behind the one it has copied (`CopiesExact` says so).
* `grep` throws away a line that does not fit its buffer, and the last line of a
  file that does not end in a newline.
* A process may leave `forkret` with interrupts off; its first `iret` turns them on.
* Parentheses on the left are ignored by `make_tree`; the instance has none.
* A shell killed in `rewrite_entries` leaves an empty list: running daemons are no
  longer listed, and their directories can be added again. `NoOverlap` is about what
  is listed.
* A copy of ssu_cleanup that fails has already removed the older destination.

These disagree with what the repository says:

* The comment above `modify_command` says that it atomically replaces the supplied
  options (`ssu_cleanup.cpp:977`). A shell killed in `write_config` leaves an empty or
  partial configuration. The daemon then passes over its turns, `modify` refuses, and
  only a `modify` that had read the file before, or a new `add` after `remove`, writes
  it again. `WorkingHasConfig` excepts such a directory, and one that is being written.
* An excluded directory is never opened, says section 7.3 of the README of ssu_cleanup. If
  its real path has a comma it comes back from the file as several paths, which
  exclude nothing or something else; if that makes more than `MAX_VALUES`, or a part is
  blank, none is excluded. `PassExact` asks for the lists only when they come back
  intact (`Intact`). The same holds for an extension that is the word `all` (it
  comes back as every extension) or begins with a blank.
* No value of `-x` or `-e` goes back to `none` or `all`, says section 7.5. A token of
  commas only does: it has no parts, but the option counts as given.
* Section 7 of the README of ssu_score lists the rewritings of an expression that count as
  equal. `compare_tree` also accepts `a+a` for `a+b`, since it looks for each operand
  of an associative operator on its own. When it has turned a comparison round to
  hold it against a subtraction below `==` or an associative operator, it leaves it
  turned, and `b-a` passes for `a-b`. Against a comparison with a single operand it
  follows a null pointer, which ends the grading. `BlankFair` says: an answer is accepted
  exactly when reordering operands and turning comparisons makes it a candidate of the
  key, and then it has the same value, with these three exceptions (`Repeats`,
  the turned comparison, `MeetsNull`).
* A program that runs for five seconds or longer gets 0 points, says the same README. The
  limit is polled: one that ends less than a poll after the limit may be seen as
  ended, and gets its credit. `TimeoutFair` allows for this one poll, and for a clock
  that is read late.

Fairness of `log_live`: a process that can take a step takes it (the
scheduler is round-robin), and a call eventually reaches its `end_op` because
all loops over blocks in `fs.c` are bounded; recovery runs to its end. A crash is
never required. Sleep-locks in the kernel give no fairness, and none is assumed.
`cleanup_stop`: daemons are scheduled and their waits end, and a
command that has been entered goes on when it can. It may wait for the lock of a
configuration: its holder goes on as well, or dies and lets go, but which of those
that wait gets the lock next is not assumed, so nor is that any one of them does. What
users enter, and whether a shell is killed, is free. The other runs assume no fairness: absence of waiting for ever
is stated as an invariant there (`NoLostWakeup`, `ShellRight`, `NotStuck`).

## 4. Proofs

`LogProofs` proves, for every set of blocks, values and processes (finite) and
all sizes that satisfy `SizesAssumption` and `Budget`:

| Theorem | States |
|---|---|
| `LogInvariant` | `Spec => [](TypeOK /\ Inv)` |
| `LogTypeOK`, `LogNoPanic`, `LogSleeperHasWaker` | the invariants of the runs |
| `LogWriteAhead` | the action property |
| `LogImplementsAtomicDisk` | the refinement |

`Budget` says that a call adds fewer entries than `begin_op` reserves, that a
call alone fits, and that the header costs one block of the log area. For the
sizes of `param.h` (30, 10, 29) it allows nine entries per call.

`NoPanic` alone is not inductive. `Inv` adds: what `outstanding` and
`committing` count (`CountInv`); that space for every entry still to come is set
aside (`SpaceInv`, the sum of what the calls in progress may add, which is where
the off-by-one of the header is absorbed); that clean buffers agree with the
disk (`BufInv`); and, for each step of `commit` and recovery, how far disk, log
area and header have come (`CommitInv`, `RecoverInv`). There is one lemma per
action; `Crash` and recovery are actions like the others. The refinement then
maps every step: `write_head` to the abstract commit, `log_write_tests` to a
write, everything else to a stutter or to a call's begin and end.

`InodeProofs` proves, for all finite sets of processes, names and open files and
any number of inodes and cache entries (`FiniteAssumption`, `SentinelAssumption`):

| Theorem | States |
|---|---|
| `InodeInvariant` | `Spec => []IInv` |
| `InodeTypeOK`, `InodeRefCounts`, `InodeCacheCoherent`, `InodeLinkCounts`, `InodeNoDangling` | the invariants of the run |

None of them is inductive alone. `iput` frees an inode because the cached count
of names is zero: that this is right needs the cache to be coherent, the count
to be exact, the reference to be the last one and the lock to be held, and each
of these rests on the others. `IInv` therefore joins the types, what a process
remembers at each point of a call (`AtInv`), who holds which lock (`LockInv`),
how many references point to an entry (`RefInv`), that an inode is cached once,
coherence, link counts, and what each process has read and still relies on
(`ProcInv`: an entry it has locked is valid, a name it has found still names the
inode, an inode it has just allocated has no name yet). `OthersKeep` shows that a
step takes nothing away from what the other processes rely on; there is one
lemma per action.

`CleanupProofs` proves for all sets of shells and daemons' pids (`BoundAssumption`)
and configurations (`SentinelAssumption`: `NoConf` and `Torn` differ and are none):

| Theorem | States |
|---|---|
| `CleanupInvariant` | `Spec => []IInv` |
| `CleanupTypeOK`, `CleanupNoOverlap`, `CleanupWorkingHasConfig` | the invariants of the run |

`IInv` adds to the three that pids are given out in order, that a shell in the
middle of `add` owns the daemon it has forked (`ShellInv`, `StartInv`), and that
a daemon exists from its fork to its kill (`ExistInv`). That a daemon finds a
configuration rests on three facts: it works only once its add has written one
(`WorkInv`: its byte comes from a shell that has registered it, and neither a refusal
nor the death of its shell lets it start), no file ever goes away, and one that is torn
is locked by a shell that rewrites it or was left so by one that died (`TornInv`).
`TruncateInv`, `CompleteTorn` and `TornKept` are the three ways a step deals with the
last; `ShellEndsMarks` is the death of a shell, in a configuration, in the list or elsewhere.

`CsFileProofs` proves, for any sets of processes, inodes and open files, any number
of blocks and any sizes that satisfy `GeometryAssumption` (they are positive, and
`CS_MAX_LENGTH` fits into the bits of an extent's length, as 255 does into 8) and
`SentinelAssumption`:

| Theorem | States |
|---|---|
| `CsFileInvariant` | `IInv`: types, nodes, offsets, writes in progress |
| `CsFileTypeOK`, `CsFileOffsetInFile`, `CsFileRunsMaximal` | the invariants of the run that follow from `IInv` |
| `CsFileBlocksOwned` | every block in use has one owner, and no `bfree` panics |
| `CsFileBytes` | `BytesInv`: what a file maps and holds at every moment |
| `CsFileMapsSize`, `CsFileOwnBytes` | the same between two writes |

`IInv` says what a process inside `write()` relies on between two blocks: its file
is open, it holds the inode's lock, `o` is the offset plus `tot`, and the chunk ends
below the limit. With `NodeInv` (a free inode is empty, unlinked and not open; the
entries of a CS file are runs followed by zeros) it implies three properties.
`BlocksOwned` needs the runs: `AppendBlocks` and `AppendFrees` show that `csbmap`
adds exactly the block it allocated and one call of `bfree`, and the three ways
`bmap` adds a block (`GrowsDirect`, `GrowsOld`, `GrowsNew`) are a lemma each.
`MapsSize` and `OwnBytes` are silent while an inode is locked, so neither is
inductive. `DataInv` says what a file holds then: `Further`, the larger of the size
and of where its writer has come, is what `Sound` is about. `AppendLookup` gives
the block that `csbmap` finds for every number after an append, by induction over
the entries (`EntryInduction`, a smallest entry at which a claim fails);
`SoundMapped` and `SoundGrown` are one turn of `writei`'s loop, in a mapped block and
in a new one, which can only be the next of the file. `DataInv` rests on `Owned`: a
byte written to one file must not land in a block of another. TLC checked it on the
instance of the run before it was proved.

The kernel proofs are about `Spec` of `Kernel`, with every load. They hold for any
number of slots, processors, virtual and physical pages, buffers and blocks, any
`PIPESIZE`, `INPUT_BUF` and width `UINT` of the counters that satisfy the
assumptions of the modules:

* `ProcAssumption`, `PipeAssumption`, `ConsoleAssumption`, `DiskAssumption`: sizes
  are positive, and twice the size of a ring fits into the range of its indices and
  the size divides it (rings of 512 and 128, indices of 32 bits);
* `MemoryAssumption`: the pages of `exec`'s image, its guard and its stack fit into
  the virtual pages, and the first process fits into memory;
* `KernelAssumption`: the processes that a load other than memory starts with
  leave a page free. The real kernel has some 57 000 pages (`PHYSTOP`) for 64 slots.

| Module | Theorem | States |
|---|---|---|
| `ProcProofs` | `TypesInvariant` | `Types`: the process table's invariant and the type of every component |
| | `AdoptedInvariant` | every process has a parent that will wait for it |
| `KernelProofs` | `ConsoleInvariant`, `FullIsReadableInvariant` | the three indices of the input ring stay in order; a full ring can be read |
| | `ClockInvariant` | who sleeps in `sys_sleep` has ticks to wait for |
| | `CacheInvariant`, `CacheAgreesInvariant` | one buffer per block, counted users, a queue without repetition; without `ReadErrors` a valid buffer holds what was last stored |
| | `PipeInvariant`, `EndsInvariant` | who sleeps on the pipe has a reason; an end that somebody has is open |
| | `PipeImplementsStream` | the refinement of `ByteStream` |
| | `NoLostWakeupInvariant` | no wakeup is lost on any channel |
| | `MemoryInvariant` | what each slot owns at each point of a call, and the books of pages |
| | `PagesAccountedInvariant`, `MappedBelowSizeInvariant`, `KernelTypeOK` | the remaining invariants of the run |

*Process table.* `Adopted` and the types need each other: `wait` frees the slot it
found because it is a zombie and its child. `TableInv` says where a process can be
in which state (`PcInv`), that a child under construction belongs to one `fork`
(`ForkInv`), that pids are distinct and below `nextpid` (`PidInv`), that parents
are alive (`ParentInv`) and that nobody sleeps in `wait` beside a zombie
(`WaitInv`).

*Frames.* A step of one component must not disturb the invariants of the others.
`Moves`, `Sleeps` and `Foreign` say what a step of a component may do to the
process table: it moves processes between that component's labels, and puts them
to sleep on and wakes them from that component's channels. Each component has a
lemma that its steps are such (`PipeFrame`, `DiskFrame`, ...), and each invariant
one that such steps of others keep it; `Frames` collects the types.

*Devices and pipe.* Of each component one inductive invariant (`ConsInv`,
`ClockInv`, `CacheInv` with `DataInv`, `PipeInv`, `EndsInv`) relates who sleeps on
its channels to its state. The indices count modulo `UINT`, so the lemmas are about
differences of remainders; the divisibility above is where a wrap of the counters is
harmless. `PipeImplementsStream` maps the bytes between `nread` and `nwrite` to the
queue: a byte stored is appended, a byte fetched is the head, all else stutters.
`NoLostWakeup` is then five of these invariants side by side.

*Memory.* `PagesAccounted` is not inductive: that `wait`, a failed `fork` or `exec`
give back what they took needs to know who owns it. `MemInv` says so for each
slot and label: an unused slot owns nothing, `allocuvm`, `copyuvm` and `exec` have
mapped nothing at or above the page their loop has come to, only `exec` has a spare
address space. `PagesInv` is the books. The books are a sum over the table, and
induction over a set is out of the provers' reach; `SumExists`, `SumChanges` and
`SumConstant` reach it by a smallest set for which the claim fails. From them
`Account` has that a change of one slot changes the total as much, `Balance` and
`Audit` that a step which pays for what it takes keeps the books. `FirstPageIs` is
the arithmetic of rounding up to a page. The bound of `TypeOK` on the free pages
follows from the books, that on pids from `nextpid`. TLC checked `MemInv` on the
instance of the run before it was proved.

`SpinProofs` proves, for any number of processors and processes (`SpinAssumption`:
both are naturals):

| Theorem | States |
|---|---|
| `FitInvariant` | `Spec => []Fit(sp)` |
| `SpinSafeInvariant` | `SpinSafe`, the property of the run |

*Locks.* That `release` finds the lock held by its processor, or `sched` exactly one
lock, depends on all that the thread has done before, perhaps on another processor.
The invariant looks the other way, at what it has left to do. A code left to run
gives up some locks before it takes them (`HeldBy`); those are the ones the processor
holds, and `ncli` is their number, one more at an `xchg` (`Depth`). `Left` and `Begun`
are all that can be left of the six codes threads start with, `Good` what each
step of them relies on; the lemmas about codes compute both for pieces put
together, with `Left` of a concatenation instead of an induction over it. A stack is
at most one interrupt on a base that holds no lock (`Stacks`). `Runs` relates
processor and stack; `Resumable` says that a process that is not running stands in
`sched` or at the start of `forkret` with `ptable.lock` to give up and the interrupt
flag of its thread saved; `Waits` that its scheduler stands at its pick; `SleepLock` that who
has `locked = 0` still to do and no test is the one `lk->pid` names. `Goes` has
what a step keeps of all processors but its own, and there is one lemma per
action: `SchedFits` and `SwtchFits` carry the lock and the flag across the two halves
of a switch. TLC checked `Fit` on the instance of the run before it was proved.

`MultilevelProofs` proves, for any number of addresses of each level, at least one
entry in an index block, and any number of blocks and sizes of files (`LevelsAssumption`):

| Theorem | States |
|---|---|
| `GrownInvariant` | `FilesSpec => []Grown`: the blocks in use form a forest, and `ReadsBack` |
| `MultilevelRightInvariant` | `MultilevelRight`, the property of the run |

*Files.* Neither half of `MultilevelRight` is inductive: that a new block disturbs no
other needs to know where every index block hangs. `Grown` says that there is a map
`par` from each block in use to the one place that names it (`Tree`, `Hangs`,
`Forest`): file, address of the inode, index block and entry, and how many blocks below
the inode, at most as many as the address allows; and that index entries of free
blocks are empty (`Clear`; the model clears a freed block at once, which `balloc` does
later). `PathFits` is the arithmetic of `bmap`: the address and the entries on
the path are in range and give back the block number (`BlockAt`), so two numbers have
two paths. `On` says that a block lies at the k-th step of a path; by `LookupIs`
that is what reading finds. `ChildIs` is one turn of `bmap` or `appendblock`, `HangIs`
the turn that allocates, and `BmapIs` and `AppendIs` put four together. `WriteReads` and
`TruncReads` carry `ReadsBack` over a write and a truncation, `TreeBelow` and `OwnedIs`
have that `bfreeindirect` finds all blocks of a file and nothing else. A tree has
four levels, so its lemmas are unfolded and need no induction. TLC checked `Grown`
on a smaller instance before it was proved.

Only model-checked: liveness (`SleeperWoken`, `CommitEnds`, `StopTakesEffect`);
`NotStuck` of `Inode`, which is about what is enabled; and, of `parts`, all but
`SpinSafe` and `MultilevelRight`. `Arrange`, `Blank`, `Ext2`, `Grep`, `Run`, `Score`,
`Shell` and `MCParts` use recursive operators and stay with TLC. So do `HeapTiled` of
`Malloc` and the properties of `LibC` and `Kbd`: what they say is the result of a walk
along a list or a string, which takes induction over data.

## 5. Not modelled

* Serial line, interrupt controllers, multiprocessor start, boot code: register
  accesses and initialisation. The screen of the console, and `panic`.
* ELF headers, the arguments of `exec` and the fetching of system call arguments;
  page tables at the level of bits.
* Device files; `dup` and the `ref` of open
  files, nested directories, `mkdir`, `mknod` and `chdir` in `Inode`; a crash in
  `Inode` (an unlinked file that is open when the machine stops is never freed).
* The number of blocks one `itrunc` logs, which needs the real sizes of bitmap and
  index blocks; `log_full` shows the log's side.
* User programs other than the shell and `grep`; `usertests`, read as tests.
* Directories and superblock of `mkfs`.
* `make_tokens` of `blank.c` (cutting C text into tokens, some 500 lines of
  character tests); I/O errors of the registry files of ssu_cleanup.

## 6. Plan

1. A proof that blocks of the heap do not overlap in `Malloc`.
2. Model: directories and a crash in `Inode`, `filedup`; blocks
   logged by `itrunc`.
3. Liveness of pipes and of `wait` under the scheduler's fairness.
