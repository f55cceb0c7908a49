------------------------------- MODULE Inode -------------------------------
(***************************************************************************)
(* The inode cache and the life of an inode (fs.c and sysfile.c, the same  *)
(* code in both xv6 trees): iget, ilock and iput under the system calls    *)
(* open, link, unlink and close of names in one directory.                 *)
(*                                                                         *)
(* A step is what happens between two points where another process can     *)
(* run: taking a sleep-lock, or a critical section under icache.lock.      *)
(* The directory is the root: its own inode is never freed, so only its    *)
(* sleep-lock and its entries are kept.  File contents are module CsFile.  *)
(***************************************************************************)
EXTENDS Naturals, FiniteSets, FiniteSetsExt

CONSTANTS Proc,             \* processes
          Name,             \* names in the directory
          File,             \* open-file structures
          NINODES,          \* inodes on disk, 1..NINODES
          NINODE,           \* entries of the inode cache, 1..NINODE
          NoProc, NoName    \* sentinels

ASSUME SizesAssumption == NINODES \in Nat \ {0} /\ NINODE \in Nat \ {0}
ASSUME FiniteAssumption == IsFiniteSet(Proc) /\ IsFiniteSet(Name) /\ IsFiniteSet(File)
ASSUME SentinelAssumption == NoProc \notin Proc

Inum == 1..NINODES
Entry == 1..NINODE

VARIABLES
    dinode,    \* type ("free" or "file") and nlink of each inode on disk
    icache,    \* inum, ref, valid, type and nlink of each cache entry
    lock,      \* holder of each entry's sleep-lock
    dir,       \* inode number of each name, 0 if there is none
    dirlock,   \* holder of the directory's sleep-lock
    fip,       \* cache entry of each open file, 0 if closed
    pc, at,    \* where each process is; its call and the inodes it holds
    panicked   \* "" or the reason of a panic

vars == <<dinode, icache, lock, dir, dirlock, fip, pc, at, panicked>>

Running == panicked = ""

\* What a process inside a call remembers: the call and its name, the entry it
\* works on (ip), the entry iput is dropping for it (put), where iput returns.
NoCall == [call |-> "", name |-> NoName, ip |-> 0, put |-> 0, then |-> "idle"]

FreeInode == [type |-> "free", nlink |-> 0]

Init ==
    /\ dinode = [i \in Inum |-> FreeInode]
    /\ icache = [e \in Entry |-> [inum |-> 0, ref |-> 0, valid |-> FALSE, type |-> "free", nlink |-> 0]]
    /\ lock = [e \in Entry |-> NoProc]
    /\ dir = [n \in Name |-> 0]
    /\ dirlock = NoProc
    /\ fip = [f \in File |-> 0]
    /\ pc = [p \in Proc |-> "idle"]
    /\ at = [p \in Proc |-> NoCall]
    /\ panicked = ""

-----------------------------------------------------------------------------
(* The inode cache                                                         *)

\* The entries iget may return for inode i: the one that caches it, or else the
\* first unreferenced one.
Hits(i) == {e \in Entry : icache[e].ref > 0 /\ icache[e].inum = i}
Empty == {e \in Entry : icache[e].ref = 0}

\* Seeded fault: the search stops at the first entry that is empty or matches.
IgetEntry_FirstFit(i) == Min(Hits(i) \cup Empty)

IgetEntry(i) == IF Hits(i) # {} THEN Min(Hits(i)) ELSE Min(Empty)

\* Seeded fault: a recycled entry keeps the valid flag of its old inode.
iget_Stale(i) ==
    /\ Hits(i) \cup Empty # {}
    /\ icache' = [icache EXCEPT ![IgetEntry(i)].ref = @ + 1, ![IgetEntry(i)].inum = i]

\* A reference to inode i; a recycled entry is not valid until it is locked.
iget(i) ==
    /\ Hits(i) \cup Empty # {}
    /\ LET e == IgetEntry(i)
       IN  icache' = IF icache[e].ref > 0 THEN [icache EXCEPT ![e].ref = @ + 1]
                     ELSE [icache EXCEPT ![e] = [inum |-> i, ref |-> 1, valid |-> FALSE,
                                                 type |-> "free", nlink |-> 0]]

\* iget finds every entry referenced by another inode.
iget_panic(i) ==
    /\ Hits(i) \cup Empty = {}
    /\ panicked' = "iget: no inodes"

\* A change of an in-memory inode and iupdate, which writes it through.
Store(e, type, nlink) ==
    /\ icache' = [icache EXCEPT ![e].type = type, ![e].nlink = nlink]
    /\ dinode' = [dinode EXCEPT ![icache[e].inum] = [type |-> type, nlink |-> nlink]]

\* The process waits for the lock of its inode; the first holder after iget
\* reads the inode from disk.
ilock(p) ==
    /\ Running
    /\ pc[p] = "ilock"
    /\ LET e == at[p].ip  d == dinode[icache[e].inum]
       IN  /\ lock[e] = NoProc
           /\ lock' = [lock EXCEPT ![e] = p]
           /\ IF icache[e].valid THEN UNCHANGED <<icache, panicked>>
              ELSE /\ icache' = [icache EXCEPT ![e].valid = TRUE, ![e].type = d.type, ![e].nlink = d.nlink]
                   /\ panicked' = IF d.type = "free" THEN "ilock: no type" ELSE ""
    /\ pc' = [pc EXCEPT ![p] = at[p].call]
    /\ UNCHANGED <<dinode, dir, dirlock, fip, at>>

\* iput, one step per critical section.  First the inode's own lock ...
iput_lock(p) ==
    /\ Running
    /\ pc[p] = "iput"
    /\ LET e == at[p].put
       IN  /\ lock[e] = NoProc
           /\ lock' = [lock EXCEPT ![e] = p]
           /\ pc' = [pc EXCEPT ![p] = IF icache[e].valid /\ icache[e].nlink = 0
                                      THEN "iput_ref" ELSE "iput_unlock"]
    /\ UNCHANGED <<dinode, icache, dir, dirlock, fip, at, panicked>>

\* Seeded fault: an unlinked inode is freed whoever else refers to it.
iput_ref_Always(p) ==
    /\ Running
    /\ pc[p] = "iput_ref"
    /\ pc' = [pc EXCEPT ![p] = "iput_free"]
    /\ UNCHANGED <<dinode, icache, lock, dir, dirlock, fip, at, panicked>>

\* ... then the reference count, read under icache.lock ...
iput_ref(p) ==
    /\ Running
    /\ pc[p] = "iput_ref"
    /\ pc' = [pc EXCEPT ![p] = IF icache[at[p].put].ref = 1 THEN "iput_free" ELSE "iput_unlock"]
    /\ UNCHANGED <<dinode, icache, lock, dir, dirlock, fip, at, panicked>>

\* Seeded fault: the freed inode stays valid in the cache.
iput_free_Valid(p) ==
    /\ Running
    /\ pc[p] = "iput_free"
    /\ LET e == at[p].put
       IN  /\ icache' = [icache EXCEPT ![e].type = "free"]
           /\ dinode' = [dinode EXCEPT ![icache[e].inum] = FreeInode]
    /\ pc' = [pc EXCEPT ![p] = "iput_unlock"]
    /\ UNCHANGED <<lock, dir, dirlock, fip, at, panicked>>

\* ... the last reference truncates and frees the inode ...
iput_free(p) ==
    /\ Running
    /\ pc[p] = "iput_free"
    /\ LET e == at[p].put
       IN  /\ icache' = [icache EXCEPT ![e].type = "free", ![e].valid = FALSE]
           /\ dinode' = [dinode EXCEPT ![icache[e].inum] = FreeInode]
    /\ pc' = [pc EXCEPT ![p] = "iput_unlock"]
    /\ UNCHANGED <<lock, dir, dirlock, fip, at, panicked>>

\* ... releasesleep ...
iput_unlock(p) ==
    /\ Running
    /\ pc[p] = "iput_unlock"
    /\ lock' = [lock EXCEPT ![at[p].put] = NoProc]
    /\ pc' = [pc EXCEPT ![p] = "iput_dec"]
    /\ UNCHANGED <<dinode, icache, dir, dirlock, fip, at, panicked>>

\* ... and only now the reference goes.
iput_dec(p) ==
    /\ Running
    /\ pc[p] = "iput_dec"
    /\ icache' = [icache EXCEPT ![at[p].put].ref = @ - 1]
    /\ pc' = [pc EXCEPT ![p] = at[p].then]
    /\ at' = [at EXCEPT ![p] = IF at[p].then = "idle" THEN NoCall ELSE [at[p] EXCEPT !.put = 0]]
    /\ UNCHANGED <<dinode, lock, dir, dirlock, fip, panicked>>

-----------------------------------------------------------------------------
(* System calls.  Each begins by locking the directory and looking its name *)
(* up; a name that is not found ends the call without effect.              *)

\* The process has reference e to inode i and waits for its lock.
Enter(p, call, n, i) ==
    /\ at' = [at EXCEPT ![p] = [NoCall EXCEPT !.call = call, !.name = n, !.ip = IgetEntry(i)]]
    /\ pc' = [pc EXCEPT ![p] = "ilock"]

\* dirlookup of a name that exists; keep says whether the directory stays locked.
Lookup(p, call, n, new, keep) ==
    /\ Running
    /\ pc[p] = "idle"
    /\ dirlock = NoProc
    /\ dir[n] # 0
    /\ \/ /\ iget(dir[n])
          /\ Enter(p, call, new, dir[n])
          /\ dirlock' = IF keep THEN p ELSE NoProc
          /\ UNCHANGED panicked
       \/ /\ iget_panic(dir[n])
          /\ UNCHANGED <<icache, at, pc, dirlock>>
    /\ UNCHANGED <<dinode, lock, dir, fip>>

\* open of an existing name, and create when the name exists.
sys_open(p, n) == Lookup(p, "open", n, n, FALSE)
sys_unlink(p, n) == Lookup(p, "unlink", n, n, TRUE)
sys_link(p, old, new) == Lookup(p, "link", old, new, FALSE)

Allocatable == {i \in Inum : dinode[i].type = "free"}

\* open(O_CREATE) of a new name: ialloc marks the first free inode on disk.
create(p, n) ==
    /\ Running
    /\ pc[p] = "idle"
    /\ dirlock = NoProc
    /\ dir[n] = 0
    /\ IF Allocatable = {}
       THEN /\ panicked' = "ialloc: no inodes"
            /\ UNCHANGED <<dinode, icache, at, pc, dirlock>>
       ELSE LET i == Min(Allocatable)
            IN  /\ dinode' = [dinode EXCEPT ![i] = [type |-> "file", nlink |-> 0]]
                /\ \/ /\ iget(i)
                      /\ Enter(p, "create", n, i)
                      /\ dirlock' = p
                      /\ UNCHANGED panicked
                   \/ /\ iget_panic(i)
                      /\ UNCHANGED <<icache, at, pc, dirlock>>
    /\ UNCHANGED <<lock, dir, fip>>

\* With both locks held: nlink = 1, iupdate, dirlink, iunlockput(dp).
create_link(p) ==
    /\ Running
    /\ pc[p] = "create"
    /\ Store(at[p].ip, icache[at[p].ip].type, 1)
    /\ dir' = [dir EXCEPT ![at[p].name] = icache[at[p].ip].inum]
    /\ dirlock' = NoProc
    /\ pc' = [pc EXCEPT ![p] = "open"]
    /\ UNCHANGED <<lock, fip, at, panicked>>

\* iunlock, then iput of the inode the call worked on, then return.
Unlockput(p) ==
    /\ lock' = [lock EXCEPT ![at[p].ip] = NoProc]
    /\ pc' = [pc EXCEPT ![p] = "iput"]
    /\ at' = [at EXCEPT ![p] = [NoCall EXCEPT !.put = at[p].ip]]

\* filealloc gives the open file its inode, or fails and the inode is put.
open_file(p) ==
    /\ Running
    /\ pc[p] = "open"
    /\ \/ \E f \in File :
            /\ fip[f] = 0
            /\ fip' = [fip EXCEPT ![f] = at[p].ip]
            /\ lock' = [lock EXCEPT ![at[p].ip] = NoProc]
            /\ pc' = [pc EXCEPT ![p] = "idle"]
            /\ at' = [at EXCEPT ![p] = NoCall]
       \/ /\ \A f \in File : fip[f] # 0
          /\ Unlockput(p)
          /\ UNCHANGED fip
    /\ UNCHANGED <<dinode, icache, dir, dirlock, panicked>>

\* The last close of an open file.
sys_close(p, f) ==
    /\ Running
    /\ pc[p] = "idle"
    /\ fip[f] # 0
    /\ fip' = [fip EXCEPT ![f] = 0]
    /\ at' = [at EXCEPT ![p] = [NoCall EXCEPT !.put = fip[f]]]
    /\ pc' = [pc EXCEPT ![p] = "iput"]
    /\ UNCHANGED <<dinode, icache, lock, dir, dirlock, panicked>>

\* unlink clears the directory entry and lets the directory go ...
unlink_entry(p) ==
    /\ Running
    /\ pc[p] = "unlink"
    /\ IF icache[at[p].ip].nlink < 1
       THEN panicked' = "unlink: nlink < 1" /\ UNCHANGED <<dir, dirlock, pc>>
       ELSE /\ dir' = [dir EXCEPT ![at[p].name] = 0]
            /\ dirlock' = NoProc
            /\ pc' = [pc EXCEPT ![p] = "drop"]
            /\ UNCHANGED panicked
    /\ UNCHANGED <<dinode, icache, lock, fip, at>>

\* ... then drops the link; the way out of a link() that failed drops its own.
drop_link(p) ==
    /\ Running
    /\ pc[p] = "drop"
    /\ Store(at[p].ip, icache[at[p].ip].type, icache[at[p].ip].nlink - 1)
    /\ Unlockput(p)
    /\ UNCHANGED <<dir, dirlock, fip, panicked>>

\* Seeded fault: link() counts the new link only in memory.
link_count_Unsaved(p) ==
    /\ Running
    /\ pc[p] = "link"
    /\ icache' = [icache EXCEPT ![at[p].ip].nlink = @ + 1]
    /\ lock' = [lock EXCEPT ![at[p].ip] = NoProc]
    /\ pc' = [pc EXCEPT ![p] = "dirlink"]
    /\ UNCHANGED <<dinode, dir, dirlock, fip, at, panicked>>

\* link() counts the new link before it exists, and unlocks the inode ...
link_count(p) ==
    /\ Running
    /\ pc[p] = "link"
    /\ Store(at[p].ip, icache[at[p].ip].type, icache[at[p].ip].nlink + 1)
    /\ lock' = [lock EXCEPT ![at[p].ip] = NoProc]
    /\ pc' = [pc EXCEPT ![p] = "dirlink"]
    /\ UNCHANGED <<dir, dirlock, fip, at, panicked>>

\* ... and makes the entry.
link_entry(p) ==
    /\ Running
    /\ pc[p] = "dirlink"
    /\ dirlock = NoProc
    /\ dir[at[p].name] = 0
    /\ dir' = [dir EXCEPT ![at[p].name] = icache[at[p].ip].inum]
    /\ at' = [at EXCEPT ![p] = [NoCall EXCEPT !.put = at[p].ip]]
    /\ pc' = [pc EXCEPT ![p] = "iput"]
    /\ UNCHANGED <<dinode, icache, lock, dirlock, fip, panicked>>

\* The new name exists: dirlink puts the inode it found, still holding the
\* directory's lock.
link_exists(p) ==
    /\ Running
    /\ pc[p] = "dirlink"
    /\ dirlock = NoProc
    /\ LET i == dir[at[p].name]
       IN  /\ i # 0
           /\ \/ /\ iget(i)
                 /\ at' = [at EXCEPT ![p].put = IgetEntry(i), ![p].then = "bad"]
                 /\ pc' = [pc EXCEPT ![p] = "iput"]
                 /\ dirlock' = p
                 /\ UNCHANGED panicked
              \/ /\ iget_panic(i)
                 /\ UNCHANGED <<icache, at, pc, dirlock>>
    /\ UNCHANGED <<dinode, lock, dir, fip>>

\* Seeded fault: the failed link() keeps the directory locked.
link_bad_Locked(p) ==
    /\ Running
    /\ pc[p] = "bad"
    /\ at' = [at EXCEPT ![p].call = "drop", ![p].then = "idle"]
    /\ pc' = [pc EXCEPT ![p] = "ilock"]
    /\ UNCHANGED <<dinode, icache, lock, dir, dirlock, fip, panicked>>

\* Seeded fault: the failed link() returns without taking its count back.
link_bad_Kept(p) ==
    /\ Running
    /\ pc[p] = "bad"
    /\ dirlock' = NoProc
    /\ at' = [at EXCEPT ![p] = [NoCall EXCEPT !.put = at[p].ip]]
    /\ pc' = [pc EXCEPT ![p] = "iput"]
    /\ UNCHANGED <<dinode, icache, lock, dir, fip, panicked>>

\* iunlockput(dp), then back to the inode to take the count back.
link_bad(p) ==
    /\ Running
    /\ pc[p] = "bad"
    /\ dirlock' = NoProc
    /\ at' = [at EXCEPT ![p].call = "drop", ![p].then = "idle"]
    /\ pc' = [pc EXCEPT ![p] = "ilock"]
    /\ UNCHANGED <<dinode, icache, lock, dir, fip, panicked>>

Step(p) ==
    \/ ilock(p)
    \/ iput_lock(p) \/ iput_ref(p) \/ iput_free(p) \/ iput_unlock(p) \/ iput_dec(p)
    \/ create_link(p) \/ open_file(p)
    \/ unlink_entry(p) \/ drop_link(p)
    \/ link_count(p) \/ link_entry(p) \/ link_exists(p) \/ link_bad(p)

Next ==
    \/ \E p \in Proc : Step(p)
    \/ \E p \in Proc, n \in Name : sys_open(p, n) \/ create(p, n) \/ sys_unlink(p, n)
    \/ \E p \in Proc, old, new \in Name : sys_link(p, old, new)
    \/ \E p \in Proc, f \in File : sys_close(p, f)

Spec == Init /\ [][Next]_vars

-----------------------------------------------------------------------------
(* Properties                                                              *)

PC == {"idle", "ilock", "iput", "iput_ref", "iput_free", "iput_unlock", "iput_dec",
       "create", "open", "unlink", "drop", "link", "dirlink", "bad"}

\* The state stays in its types; reference and link counts never go below zero.
TypeOK ==
    /\ dinode \in [Inum -> [type : {"free", "file"}, nlink : Nat]]
    /\ icache \in [Entry -> [inum : Inum \cup {0}, ref : Nat, valid : BOOLEAN,
                             type : {"free", "file"}, nlink : Nat]]
    /\ lock \in [Entry -> Proc \cup {NoProc}]
    /\ dir \in [Name -> Inum \cup {0}]
    /\ dirlock \in Proc \cup {NoProc}
    /\ fip \in [File -> Entry \cup {0}]
    /\ pc \in [Proc -> PC]

\* References to cache entry e: open files, and processes inside a call.
Holders(e) == Cardinality({f \in File : fip[f] = e})
              + Cardinality({p \in Proc : at[p].ip = e})
              + Cardinality({p \in Proc : at[p].put = e})

\* ip->ref counts exactly the open files and the calls in progress that refer
\* to the entry, and no inode is cached twice: on this rest "ref < 1" never
\* seen by ilock or iunlock, and one sleep-lock per inode.
RefCounts ==
    /\ \A e \in Entry : icache[e].ref = Holders(e)
    /\ \A i \in Inum : Cardinality(Hits(i)) <= 1

\* The cache is write-through: a valid entry nobody has locked says what the
\* disk says, also after the inode was freed and its number used again.
CacheCoherent ==
    \A e \in Entry : icache[e].ref > 0 /\ icache[e].valid /\ lock[e] = NoProc =>
        dinode[icache[e].inum] = [type |-> icache[e].type, nlink |-> icache[e].nlink]

\* Links a call in progress has counted in inode i and not yet made, or removed
\* and not yet discounted.
Pending(i) == {p \in Proc : at[p].ip # 0 /\ icache[at[p].ip].inum = i /\ at[p].call \in {"link", "unlink", "drop"}
                              /\ (\/ pc[p] \in {"dirlink", "bad", "drop"}
                                  \/ pc[p] \in {"iput", "iput_ref", "iput_free", "iput_unlock", "iput_dec"}
                                  \/ pc[p] = "ilock" /\ at[p].call = "drop")}

\* nlink on disk counts the names of the inode and the links being made or
\* removed, whatever other calls on the same names do meanwhile.
LinkCounts ==
    Running => \A i \in Inum :
        dinode[i].nlink = Cardinality({n \in Name : dir[n] = i}) + Cardinality(Pending(i))

\* No name and no open file ever refers to a free inode: iput frees an inode
\* only when nothing can reach it, and the panics that would mean otherwise never
\* happen (running out of inodes or of cache entries is another matter).
NoDangling ==
    /\ panicked \notin {"ilock: no type", "unlink: nlink < 1"}
    /\ \A n \in Name : dir[n] # 0 => dinode[dir[n]].type = "file"
    /\ \A f \in File : fip[f] # 0 => dinode[icache[fip[f]].inum].type = "file"

\* The calls never wait for each other in a circle: the directory's lock is
\* taken before an inode's, and no call keeps one when it returns.
NotStuck ==
    Running => /\ \A p \in Proc : pc[p] = "idle" => dirlock # p /\ \A e \in Entry : lock[e] # p
               /\ (\E p \in Proc : pc[p] # "idle") => ENABLED (\E p \in Proc : Step(p))

\* The comment of iput: the last reference to an inode without links frees it.
\* So an allocated inode has a link or a reference (or is being created).
NoOrphan ==
    Running => \A i \in Inum :
        dinode[i].type = "file" => dinode[i].nlink > 0 \/ Hits(i) # {}
=============================================================================
