------------------------------- MODULE CsFile -------------------------------
(***************************************************************************)
(* Files of the continuous-sector file system (xv6-continuous-sector-fs):  *)
(* block allocation, the extent map of a CS file (csbmap) next to the      *)
(* direct and indirect pointers of an ordinary one (bmap), and the path    *)
(* of a write from filewrite through writei to the blocks, and of a read.  *)
(*                                                                         *)
(* An inode is locked for one chunk of a write; between two blocks of the  *)
(* chunk other processes allocate from the same bitmap.  Crashes are the   *)
(* log's business (module Log), reference counts those of module Inode.    *)
(***************************************************************************)
EXTENDS Integers, FiniteSets, FiniteSetsExt

CONSTANTS Proc,            \* processes
          Ino,             \* inodes
          File,            \* open-file structures
          NBLOCK,          \* data blocks 1..NBLOCK; address 0 means none
          BSIZE,           \* bytes in a block
          NDIRECT,         \* entries of addrs used as extents or direct blocks
          NINDIRECT,       \* pointers in the indirect block
          CS_LENGTH_BITS,  \* bits of an extent entry that hold its length
          CS_MAX_LENGTH,   \* longest run of one entry
          CS_MAX_START,    \* largest block number an entry can hold
          MaxChunk,        \* bytes written in one transaction by filewrite
          Lengths, ReadLengths,    \* the lengths of writes and reads tried
          Junk,            \* what a byte of a free block may hold
          NoIno, NoProc, NoFile    \* sentinels

ASSUME GeometryAssumption ==
    /\ {NBLOCK, BSIZE, NDIRECT, NINDIRECT, CS_LENGTH_BITS, CS_MAX_LENGTH, MaxChunk}
          \subseteq Nat \ {0}
    /\ Lengths \cup ReadLengths \subseteq Nat \ {0}
    /\ CS_MAX_START \in Nat
    /\ CS_MAX_LENGTH < 2^CS_LENGTH_BITS

ASSUME SentinelAssumption == NoIno \notin Ino /\ NoProc \notin Proc /\ NoFile \notin File

VARIABLES
    bitmap,    \* blocks marked in use
    data,      \* contents of each block: the file each byte was written to, 0 if none
    ind,       \* contents of each block read as an indirect block
    itype,     \* "free", "T_FILE" or "T_CS"
    linked,    \* nlink > 0
    addrs,     \* ip->addrs
    size,      \* ip->size
    fip, off,  \* f->ip and f->off of each open file; NoIno and 0 when closed
    lock,      \* holder of each inode's sleep-lock
    pc, wr,    \* where each process is, and its write in progress
    panicked   \* "" or the reason of a panic

inodeVars == <<itype, linked, addrs, size>>
vars == <<bitmap, data, ind, inodeVars, fip, off, lock, pc, wr, panicked>>

Byte == Ino \cup {0, Junk}

\* Seeded fault: the scan for a free bit runs one past the last block.
Free_Past == (1..NBLOCK+1) \ bitmap

\* The blocks whose bit in the bitmap is clear.
Free == (1..NBLOCK) \ bitmap

ZeroBlock == [x \in 0..BSIZE-1 |-> 0]
JunkBlock == [x \in 0..BSIZE-1 |-> Junk]
ZeroPointers == [x \in 0..NINDIRECT-1 |-> 0]
ZeroAddrs == [x \in 0..NDIRECT |-> 0]

MAXCSBLOCKS == NDIRECT * CS_MAX_LENGTH
MAXFILE == NDIRECT + NINDIRECT

\* An extent entry packs its first block and its length into one word.
Pack(start, length) == start * 2^CS_LENGTH_BITS + length
Start(entry)  == entry \div 2^CS_LENGTH_BITS
Length(entry) == entry % 2^CS_LENGTH_BITS

-----------------------------------------------------------------------------
(* Extents: csbmap as a function of addrs                                  *)

\* The loop of csbmap stops at the first zero entry.
Extents(a) == Min({i \in 0..NDIRECT : i = NDIRECT \/ a[i] = 0})

\* Blocks mapped by the entries before the i-th.
Before(a) ==
    LET sum[i \in 0..NDIRECT] == IF i = 0 THEN 0 ELSE sum[i-1] + Length(a[i-1])
    IN  sum

Total(a) == Before(a)[Extents(a)]

\* The block that logical block bn already has, or 0.
CsLookup(a, bn) ==
    LET hit == {i \in 0..Extents(a)-1 : bn < Before(a)[i] + Length(a[i])}
    IN  IF hit = {} THEN 0 ELSE Start(a[Min(hit)]) + (bn - Before(a)[Min(hit)])

\* An entry of length 0 makes csbmap give up before it reaches bn.
CsInvalid(a, bn) ==
    \E i \in 0..Extents(a)-1 : Length(a[i]) = 0 /\ Before(a)[i] <= bn

\* Seeded fault: a run is closed one block early.
CsAppend_Short(a, b) ==
    LET last == Extents(a) - 1
    IN  IF last >= 0 /\ Length(a[last]) < CS_MAX_LENGTH - 1
           /\ b = Start(a[last]) + Length(a[last])
        THEN [a EXCEPT ![last] = Pack(Start(a[last]), Length(a[last]) + 1)]
        ELSE IF last + 1 >= NDIRECT THEN a
        ELSE [a EXCEPT ![last + 1] = Pack(b, 1)]

\* addrs with block b appended to the last extent or as a new one; the same
\* addrs when neither is possible.
CsAppend(a, b) ==
    LET last == Extents(a) - 1
    IN  IF last >= 0 /\ Length(a[last]) < CS_MAX_LENGTH /\ b = Start(a[last]) + Length(a[last])
        THEN [a EXCEPT ![last] = Pack(Start(a[last]), Length(a[last]) + 1)]
        ELSE IF last + 1 >= NDIRECT THEN a
        ELSE [a EXCEPT ![last + 1] = Pack(b, 1)]

\* Everything itrunc frees, and how many times it calls bfree.
CsBlocks(a) ==
    UNION {Start(a[i]) .. Start(a[i]) + Length(a[i]) - 1 : i \in {x \in 0..NDIRECT-1 : a[x] # 0}}

FileBlocks(a) ==
    ({a[i] : i \in 0..NDIRECT}
        \cup (IF a[NDIRECT] = 0 THEN {} ELSE {ind[a[NDIRECT]][i] : i \in 0..NINDIRECT-1}))
    \ {0}

Blocks(ip) == IF itype[ip] = "T_CS" THEN CsBlocks(addrs[ip]) ELSE FileBlocks(addrs[ip])

Frees(ip) ==
    LET a == addrs[ip]
    IN  IF itype[ip] = "T_CS"
        THEN MapThenSumSet(LAMBDA i : Length(a[i]), 0..NDIRECT-1)
        ELSE Cardinality({i \in 0..NDIRECT : a[i] # 0})
             + (IF a[NDIRECT] = 0 THEN 0
                ELSE Cardinality({i \in 0..NINDIRECT-1 : ind[a[NDIRECT]][i] # 0}))

\* The block of logical block bn of inode ip, 0 if bmap would have to allocate.
Lookup(ip, bn) ==
    LET a == addrs[ip]
    IN  IF itype[ip] = "T_CS" THEN CsLookup(a, bn)
        ELSE IF bn < NDIRECT THEN a[bn]
        ELSE IF a[NDIRECT] = 0 THEN 0 ELSE ind[a[NDIRECT]][bn - NDIRECT]

-----------------------------------------------------------------------------
NoWrite == [f |-> NoFile, n |-> 0, i |-> 0, n1 |-> 0, nn |-> 0, tot |-> 0, o |-> 0]

Init ==
    /\ bitmap = {}
    /\ data = [b \in 1..NBLOCK |-> JunkBlock]
    /\ ind = [b \in 1..NBLOCK |-> ZeroPointers]
    /\ itype = [ip \in Ino |-> "free"]
    /\ linked = [ip \in Ino |-> FALSE]
    /\ addrs = [ip \in Ino |-> ZeroAddrs]
    /\ size = [ip \in Ino |-> 0]
    /\ fip = [f \in File |-> NoIno]
    /\ off = [f \in File |-> 0]
    /\ lock = [ip \in Ino |-> NoProc]
    /\ pc = [p \in Proc |-> "idle"]
    /\ wr = [p \in Proc |-> NoWrite]
    /\ panicked = ""

Running == panicked = ""

-----------------------------------------------------------------------------
(* Opening, unlinking and closing                                          *)

\* open(O_CREATE), with O_CS or not, of a name that does not exist: ialloc
\* hands out a zeroed inode of the wanted type.
create(f, ip, type) ==
    /\ Running
    /\ fip[f] = NoIno
    /\ itype[ip] = "free"
    /\ itype' = [itype EXCEPT ![ip] = type]
    /\ linked' = [linked EXCEPT ![ip] = TRUE]
    /\ addrs' = [addrs EXCEPT ![ip] = ZeroAddrs]
    /\ size' = [size EXCEPT ![ip] = 0]
    /\ fip' = [fip EXCEPT ![f] = ip]
    /\ off' = [off EXCEPT ![f] = 0]
    /\ UNCHANGED <<bitmap, data, ind, lock, pc, wr, panicked>>

\* open of an existing name, for writing.
open(f, ip) ==
    /\ Running
    /\ fip[f] = NoIno
    /\ linked[ip]
    /\ lock[ip] = NoProc
    /\ fip' = [fip EXCEPT ![f] = ip]
    /\ off' = [off EXCEPT ![f] = 0]
    /\ UNCHANGED <<bitmap, data, ind, inodeVars, lock, pc, wr, panicked>>

\* itrunc and the freeing of the inode, in iput; bfree panics on a free block.
\* What a freed block held is junk from now on.
FreeInode(ip) ==
    /\ bitmap' = bitmap \ Blocks(ip)
    /\ data' = [b \in 1..NBLOCK |-> IF b \in Blocks(ip) THEN JunkBlock ELSE data[b]]
    /\ ind' = [b \in 1..NBLOCK |-> IF b \in Blocks(ip) THEN ZeroPointers ELSE ind[b]]
    /\ addrs' = [addrs EXCEPT ![ip] = ZeroAddrs]
    /\ size' = [size EXCEPT ![ip] = 0]
    /\ itype' = [itype EXCEPT ![ip] = "free"]
    /\ panicked' = IF Blocks(ip) \subseteq bitmap /\ Cardinality(Blocks(ip)) = Frees(ip)
                   THEN "" ELSE "freeing free block"

Opened(ip) == {f \in File : fip[f] = ip}

unlink(ip) ==
    /\ Running
    /\ linked[ip]
    /\ lock[ip] = NoProc
    /\ linked' = [linked EXCEPT ![ip] = FALSE]
    /\ IF Opened(ip) = {} THEN FreeInode(ip)
       ELSE UNCHANGED <<bitmap, data, ind, addrs, size, itype, panicked>>
    /\ UNCHANGED <<fip, off, lock, pc, wr>>

\* The last close of an open file; a process inside write() still holds it.
fileclose(f) ==
    /\ Running
    /\ fip[f] # NoIno
    /\ \A p \in Proc : wr[p].f # f
    /\ fip' = [fip EXCEPT ![f] = NoIno]
    /\ off' = [off EXCEPT ![f] = 0]
    /\ IF Opened(fip[f]) = {f} /\ ~linked[fip[f]] THEN FreeInode(fip[f])
       ELSE UNCHANGED <<bitmap, data, ind, addrs, size, itype, panicked>>
    /\ UNCHANGED <<linked, lock, pc, wr>>

-----------------------------------------------------------------------------
(* write()                                                                 *)

sys_write(p, f, n) ==
    /\ Running
    /\ pc[p] = "idle"
    /\ fip[f] # NoIno
    /\ wr' = [wr EXCEPT ![p] = [NoWrite EXCEPT !.f = f, !.n = n]]
    /\ pc' = [pc EXCEPT ![p] = "chunk"]
    /\ UNCHANGED <<bitmap, data, ind, inodeVars, fip, off, lock, panicked>>

Limit(ip) == (IF itype[ip] = "T_CS" THEN MAXCSBLOCKS ELSE MAXFILE) * BSIZE

\* filewrite takes the next chunk; ilock; the range tests of writei.
writei_begin(p) ==
    /\ Running
    /\ pc[p] = "chunk"
    /\ LET w == wr[p]  ip == fip[w.f]  o == off[w.f]
           n1 == Min({w.n - w.i, MaxChunk})
           refused == \/ o > size[ip]
                      \/ o + n1 > Limit(ip) /\ (itype[ip] # "T_CS" \/ o >= Limit(ip))
       IN  /\ lock[ip] = NoProc
           /\ IF refused
              THEN /\ pc' = [pc EXCEPT ![p] = "idle"]
                   /\ wr' = [wr EXCEPT ![p] = NoWrite]
                   /\ UNCHANGED lock
              ELSE /\ lock' = [lock EXCEPT ![ip] = p]
                   /\ pc' = [pc EXCEPT ![p] = "block"]
                   /\ wr' = [wr EXCEPT ![p] = [w EXCEPT !.n1 = n1, !.tot = 0, !.o = o,
                                                        !.nn = Min({n1, Limit(ip) - o})]]
    /\ UNCHANGED <<bitmap, data, ind, inodeVars, fip, off, panicked>>

More(p) == pc[p] = "block" /\ wr[p].tot < wr[p].nn

\* One turn of writei's loop: m bytes go to block b, whose contents were old.
Put(p, b, old) ==
    LET w == wr[p]
        x0 == w.o % BSIZE
        m == Min({w.nn - w.tot, BSIZE - x0})
    IN  /\ data' = [data EXCEPT ![b] = [x \in 0..BSIZE-1 |->
                        IF x \in x0..x0+m-1 THEN fip[w.f] ELSE old[x]]]
        /\ wr' = [wr EXCEPT ![p] = [w EXCEPT !.tot = @ + m, !.o = @ + m]]

\* bmap finds the block.
write_mapped(p) ==
    /\ Running
    /\ More(p)
    /\ LET ip == fip[wr[p].f]  b == Lookup(ip, wr[p].o \div BSIZE)
       IN  /\ b # 0
           /\ Put(p, b, data[b])
    /\ UNCHANGED <<bitmap, ind, inodeVars, fip, off, lock, pc, panicked>>

\* The block ballocx picks.
FirstFree == Min(Free)

CanGrow(ip, bn) ==
    /\ ~CsInvalid(addrs[ip], bn)
    /\ bn = Total(addrs[ip])
    /\ bn < MAXCSBLOCKS
    /\ Free # {}
    /\ FirstFree <= CS_MAX_START
    /\ CsAppend(addrs[ip], FirstFree) # addrs[ip]

\* Seeded fault: ballocx hands out the block without zeroing it.
write_csgrow_Unzeroed(p) ==
    /\ Running
    /\ More(p)
    /\ LET ip == fip[wr[p].f]  bn == wr[p].o \div BSIZE
       IN  /\ itype[ip] = "T_CS"
           /\ Lookup(ip, bn) = 0
           /\ CanGrow(ip, bn)
           /\ bitmap' = bitmap \cup {FirstFree}
           /\ addrs' = [addrs EXCEPT ![ip] = CsAppend(@, FirstFree)]
           /\ Put(p, FirstFree, data[FirstFree])
    /\ UNCHANGED <<ind, itype, linked, size, fip, off, lock, pc, panicked>>

\* csbmap appends a zeroed block to the file.
write_csgrow(p) ==
    /\ Running
    /\ More(p)
    /\ LET ip == fip[wr[p].f]  bn == wr[p].o \div BSIZE
       IN  /\ itype[ip] = "T_CS"
           /\ Lookup(ip, bn) = 0
           /\ CanGrow(ip, bn)
           /\ bitmap' = bitmap \cup {FirstFree}
           /\ ind' = [ind EXCEPT ![FirstFree] = ZeroPointers]
           /\ addrs' = [addrs EXCEPT ![ip] = CsAppend(@, FirstFree)]
           /\ Put(p, FirstFree, ZeroBlock)
    /\ UNCHANGED <<itype, linked, size, fip, off, lock, pc, panicked>>

\* Seeded fault: the block allocated in vain is not given back.
write_csfail_Leak(p) ==
    /\ Running
    /\ More(p)
    /\ LET ip == fip[wr[p].f]  bn == wr[p].o \div BSIZE
       IN  /\ itype[ip] = "T_CS"
           /\ Lookup(ip, bn) = 0
           /\ ~CanGrow(ip, bn)
           /\ bitmap' = IF Free = {} THEN bitmap ELSE bitmap \cup {FirstFree}
    /\ pc' = [pc EXCEPT ![p] = "end"]
    /\ UNCHANGED <<data, ind, inodeVars, fip, off, lock, wr, panicked>>

\* csbmap returns 0 and the loop breaks.  A block it allocated before it found
\* no entry for it has been freed again.
write_csfail(p) ==
    /\ Running
    /\ More(p)
    /\ LET ip == fip[wr[p].f]  bn == wr[p].o \div BSIZE
       IN  /\ itype[ip] = "T_CS"
           /\ Lookup(ip, bn) = 0
           /\ ~CanGrow(ip, bn)
    /\ pc' = [pc EXCEPT ![p] = "end"]
    /\ UNCHANGED <<bitmap, data, ind, inodeVars, fip, off, lock, wr, panicked>>

\* bmap adds a block to an ordinary file, directly or through the indirect
\* block, which is allocated first; balloc panics when the disk is full.
write_grow(p) ==
    /\ Running
    /\ More(p)
    /\ LET ip == fip[wr[p].f]  bn == wr[p].o \div BSIZE  a == addrs[ip]
           viaInd == bn >= NDIRECT
           newInd == viaInd /\ a[NDIRECT] = 0
           b1 == FirstFree
           b2 == IF newInd THEN Min(Free \ {b1}) ELSE b1   \* the data block
           pb == IF newInd THEN b1 ELSE a[NDIRECT]          \* the indirect block
       IN  /\ itype[ip] = "T_FILE"
           /\ Lookup(ip, bn) = 0
           /\ IF Cardinality(Free) < (IF newInd THEN 2 ELSE 1)
              THEN /\ panicked' = "balloc: out of blocks"
                   /\ UNCHANGED <<bitmap, data, ind, addrs, wr>>
              ELSE /\ bitmap' = bitmap \cup {b1, b2}
                   /\ addrs' = [addrs EXCEPT ![ip] =
                                  IF ~viaInd THEN [a EXCEPT ![bn] = b2]
                                  ELSE [a EXCEPT ![NDIRECT] = pb]]
                   /\ ind' = IF viaInd
                             THEN [ind EXCEPT ![b2] = ZeroPointers,
                                              ![pb] = [(IF newInd THEN ZeroPointers ELSE ind[pb])
                                                          EXCEPT ![bn - NDIRECT] = b2]]
                             ELSE [ind EXCEPT ![b2] = ZeroPointers]
                   /\ Put(p, b2, ZeroBlock)
                   /\ UNCHANGED panicked
    /\ UNCHANGED <<itype, linked, size, fip, off, lock, pc>>

\* Seeded fault: a chunk cut short by csbmap does not update the size.
writei_end_NoSize(p) ==
    /\ Running
    /\ pc[p] = "end" \/ (pc[p] = "block" /\ ~More(p))
    /\ LET w == wr[p]  ip == fip[w.f]
           i == w.i + w.tot
           over == w.tot # w.n1 \/ i >= w.n
       IN  /\ size' = [size EXCEPT ![ip] = IF pc[p] = "block" /\ w.o > @ THEN w.o ELSE @]
           /\ off' = [off EXCEPT ![w.f] = @ + w.tot]
           /\ lock' = [lock EXCEPT ![ip] = NoProc]
           /\ wr' = [wr EXCEPT ![p] = IF over THEN NoWrite
                                      ELSE [NoWrite EXCEPT !.f = w.f, !.n = w.n, !.i = i]]
           /\ pc' = [pc EXCEPT ![p] = IF over THEN "idle" ELSE "chunk"]
    /\ UNCHANGED <<bitmap, data, ind, itype, linked, addrs, fip, panicked>>

\* Seeded fault: the offset moves by what was asked for, not by what was written.
writei_end_Asked(p) ==
    /\ Running
    /\ pc[p] = "end" \/ (pc[p] = "block" /\ ~More(p))
    /\ LET w == wr[p]  ip == fip[w.f]
           i == w.i + w.tot
           over == w.tot # w.n1 \/ i >= w.n
       IN  /\ size' = [size EXCEPT ![ip] = IF w.nn > 0 /\ w.o > @ THEN w.o ELSE @]
           /\ off' = [off EXCEPT ![w.f] = @ + w.n1]
           /\ lock' = [lock EXCEPT ![ip] = NoProc]
           /\ wr' = [wr EXCEPT ![p] = IF over THEN NoWrite
                                      ELSE [NoWrite EXCEPT !.f = w.f, !.n = w.n, !.i = i]]
           /\ pc' = [pc EXCEPT ![p] = IF over THEN "idle" ELSE "chunk"]
    /\ UNCHANGED <<bitmap, data, ind, itype, linked, addrs, fip, panicked>>

\* The end of writei and of the chunk in filewrite: the size and the offset
\* move on, the inode is unlocked, and the loop goes on or stops short.
writei_end(p) ==
    /\ Running
    /\ pc[p] = "end" \/ (pc[p] = "block" /\ ~More(p))
    /\ LET w == wr[p]  ip == fip[w.f]
           i == w.i + w.tot
           over == w.tot # w.n1 \/ i >= w.n
       IN  /\ size' = [size EXCEPT ![ip] = IF w.nn > 0 /\ w.o > @ THEN w.o ELSE @]
           /\ off' = [off EXCEPT ![w.f] = @ + w.tot]
           /\ lock' = [lock EXCEPT ![ip] = NoProc]
           /\ wr' = [wr EXCEPT ![p] = IF over THEN NoWrite
                                      ELSE [NoWrite EXCEPT !.f = w.f, !.n = w.n, !.i = i]]
           /\ pc' = [pc EXCEPT ![p] = IF over THEN "idle" ELSE "chunk"]
    /\ UNCHANGED <<bitmap, data, ind, itype, linked, addrs, fip, panicked>>

-----------------------------------------------------------------------------
(* read()                                                                  *)

\* What readi returns at offset o: up to the end of the file, or to the first block that
\* csbmap does not find (bmap of an ordinary file would allocate one: MapsSize excludes it).
readi(ip, o, n) ==
    LET want == Min({n, size[ip] - o})
        gaps == {x \in 0..want-1 : Lookup(ip, (o + x) \div BSIZE) = 0}
    IN  IF o > size[ip] THEN 0 ELSE Min(gaps \cup {want})

\* fileread moves the offset under the lock of the inode: between two chunks of a write
\* through the same open file too.
fileread(p, f, n) ==
    /\ Running
    /\ pc[p] = "idle"
    /\ fip[f] # NoIno
    /\ lock[fip[f]] = NoProc
    /\ off' = [off EXCEPT ![f] = @ + readi(fip[f], @, n)]
    /\ UNCHANGED <<bitmap, data, ind, inodeVars, fip, lock, pc, wr, panicked>>

Next ==
    \/ \E f \in File, ip \in Ino, type \in {"T_FILE", "T_CS"} : create(f, ip, type)
    \/ \E f \in File, ip \in Ino : open(f, ip)
    \/ \E ip \in Ino : unlink(ip)
    \/ \E f \in File : fileclose(f)
    \/ \E p \in Proc, f \in File, n \in Lengths : sys_write(p, f, n)
    \/ \E p \in Proc, f \in File, n \in ReadLengths : fileread(p, f, n)
    \/ \E p \in Proc : \/ writei_begin(p) \/ writei_end(p)
                       \/ write_mapped(p) \/ write_grow(p)
                       \/ write_csgrow(p) \/ write_csfail(p)

Spec == Init /\ [][Next]_vars

-----------------------------------------------------------------------------
(* Properties                                                              *)

\* The state stays in its types: in particular no write, however the disk fills
\* up, marks or maps a block beyond the end of the disk.
TypeOK ==
    /\ bitmap \subseteq 1..NBLOCK
    /\ data \in [1..NBLOCK -> [0..BSIZE-1 -> Byte]]
    /\ ind \in [1..NBLOCK -> [0..NINDIRECT-1 -> 0..NBLOCK]]
    /\ itype \in [Ino -> {"free", "T_FILE", "T_CS"}]
    /\ linked \in [Ino -> BOOLEAN]
    /\ addrs \in [Ino -> [0..NDIRECT -> 0..Pack(NBLOCK, CS_MAX_LENGTH)]]
    /\ size \in [Ino -> Nat]
    /\ fip \in [File -> Ino \cup {NoIno}]
    /\ off \in [File -> Nat]
    /\ lock \in [Ino -> Proc \cup {NoProc}]
    /\ pc \in [Proc -> {"idle", "chunk", "block", "end"}]

\* Every block in use belongs to exactly one inode, once: no write, short or
\* failed, and no unlink leaks a block, shares one between two files or frees a
\* free one (the panic in bfree; running out of blocks is another matter).
BlocksOwned ==
    /\ panicked # "freeing free block"
    /\ Running =>
         /\ bitmap = UNION {Blocks(ip) : ip \in Ino}
         /\ \A ip \in Ino : Cardinality(Blocks(ip)) = Frees(ip)
         /\ \A ip, jp \in Ino : ip # jp => Blocks(ip) \cap Blocks(jp) = {}

Ceil(n) == (n + BSIZE - 1) \div BSIZE

\* Between writes an inode maps exactly the blocks its size needs, so that
\* readi always finds its blocks and csbmap never sees a gap.
MapsSize ==
    \A ip \in Ino : Running /\ itype[ip] # "free" /\ lock[ip] = NoProc =>
        /\ \A bn \in 0..Ceil(size[ip])-1 : Lookup(ip, bn) # 0
        /\ Ceil(size[ip]) >= Limit(ip) \div BSIZE \/ Lookup(ip, Ceil(size[ip])) = 0
        /\ itype[ip] = "T_CS" => Total(addrs[ip]) = Ceil(size[ip])

\* The bytes of a file below its size were written to this file, and those
\* above it in its last block are zero: nothing of a deleted file shows through.
OwnBytes ==
    \A ip \in Ino : Running /\ itype[ip] # "free" /\ lock[ip] = NoProc =>
        \A x \in 0..(Ceil(size[ip]) * BSIZE)-1 :
            data[Lookup(ip, x \div BSIZE)][x % BSIZE] = IF x < size[ip] THEN ip ELSE 0

\* No open file's offset runs ahead of the file: concurrent writers through
\* one or several open files never make writei refuse a write as a hole.
OffsetInFile ==
    \A f \in File : fip[f] # NoIno => off[f] <= size[fip[f]]

\* Runs are as long as they can be: two neighbouring entries touch only when
\* the first one has its full length.
RunsMaximal ==
    \A ip \in Ino : itype[ip] = "T_CS" =>
        \A i \in 1..Extents(addrs[ip])-1 :
            LET e == addrs[ip][i-1]
            IN  Start(e) + Length(e) = Start(addrs[ip][i]) => Length(e) = CS_MAX_LENGTH
=============================================================================
