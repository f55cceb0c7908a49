----------------------------- MODULE Multilevel -----------------------------
(***************************************************************************)
(* Files with direct, indirect, double and triple indirect blocks: written *)
(* by mkfs into the image, then extended, overwritten and truncated by the *)
(* kernel, which looks them up with bmap().  One action is one block; the  *)
(* log makes a whole call atomic (module Log).                             *)
(***************************************************************************)
EXTENDS Integers, Sequences, FiniteSets, FiniteSetsExt

CONSTANTS NDIRECT, NSINDIRECT, NDINDIRECT,   \* addresses of each level; one is triple
          NINDIRECT,                         \* addresses in an index block
          NBLOCKS,                           \* data blocks of the disk
          MaxBlocks,                         \* bound: blocks of each file
          MaxTruncs                          \* bound: truncations

ASSUME LevelsAssumption ==
    /\ NDIRECT \in Nat /\ NSINDIRECT \in Nat /\ NDINDIRECT \in Nat
    /\ NINDIRECT \in Nat \ {0} /\ NBLOCKS \in Nat

VARIABLES fs       \* booted, addrs of each file, size in blocks, contents of index
                   \* and data blocks, blocks in use, mkfs's freeblock, panic, truncations

File == DOMAIN MaxBlocks
Block == 1..NBLOCKS
NDOUBLE == NINDIRECT * NINDIRECT
NADDRS == NDIRECT + NSINDIRECT + NDINDIRECT + 1
MAXFILE == NDIRECT + NSINDIRECT * NINDIRECT + NDINDIRECT * NDOUBLE + NDOUBLE * NINDIRECT
Entries == 0..(NINDIRECT - 1)

FilesInit ==
    fs = [booted |-> FALSE, truncs |-> 0, panicked |-> FALSE, freeblock |-> 1, used |-> {},
          addrs |-> [f \in File |-> [i \in 0..(NADDRS - 1) |-> 0]],
          size |-> [f \in File |-> 0],
          ind |-> [b \in Block |-> [i \in Entries |-> 0]],
          data |-> [b \in Block |-> <<0, 0>>]]

-----------------------------------------------------------------------------
(* Which address, and which entry of each index block below it             *)

\* Seeded fault: the triple level forgets the blocks of the double one.
Path_Triple(bn) ==
    LET n1 == bn - NDIRECT
        n2 == n1 - NSINDIRECT * NINDIRECT
        n3 == n2
        high(n) == (n % NDOUBLE) \div NINDIRECT
        low(n) == (n % NDOUBLE) % NINDIRECT
    IN  CASE bn < NDIRECT -> <<bn>>
          [] bn >= NDIRECT /\ n1 < NSINDIRECT * NINDIRECT ->
                <<NDIRECT + n1 \div NINDIRECT, n1 % NINDIRECT>>
          [] OTHER -> <<NDIRECT + NSINDIRECT + NDINDIRECT, (n3 \div NDOUBLE) % NINDIRECT, high(n3), low(n3)>>

Path(bn) ==
    LET n1 == bn - NDIRECT
        n2 == n1 - NSINDIRECT * NINDIRECT
        n3 == n2 - NDINDIRECT * NDOUBLE
        high(n) == (n % NDOUBLE) \div NINDIRECT
        low(n) == (n % NDOUBLE) % NINDIRECT
    IN  CASE bn < NDIRECT -> <<bn>>
          [] bn >= NDIRECT /\ n1 < NSINDIRECT * NINDIRECT ->
                <<NDIRECT + n1 \div NINDIRECT, n1 % NINDIRECT>>
          [] n1 >= NSINDIRECT * NINDIRECT /\ n2 < NDINDIRECT * NDOUBLE ->
                <<NDIRECT + NSINDIRECT + n2 \div NDOUBLE, high(n2), low(n2)>>
          [] n2 >= NDINDIRECT * NDOUBLE ->
                <<NDIRECT + NSINDIRECT + NDINDIRECT, n3 \div NDOUBLE, high(n3), low(n3)>>

\* The block at the end of the path, 0 if an entry on the way is empty.
Lookup(d, f, bn) ==
    LET p == Path(bn)
        below(b, k) == IF k > Len(p) \/ b = 0 THEN b ELSE d.ind[b][p[k]]
    IN  below(below(below(d.addrs[f][p[1]], 2), 3), 4)

\* The block an entry names: 0 is the inode itself.
EntryOf(d, f, b, i) == IF b = 0 THEN d.addrs[f][i] ELSE d.ind[b][i]

\* The empty entry i of block b gets the cleared block nb.
Link(d, f, b, i, nb) ==
    LET cleared == [d.ind EXCEPT ![nb] = [e \in Entries |-> 0]]
    IN  [d EXCEPT !.used = @ \cup {nb}, !.freeblock = nb + 1,
                  !.addrs = IF b = 0 THEN [@ EXCEPT ![f][i] = nb] ELSE @,
                  !.ind = IF b = 0 THEN cleared ELSE [cleared EXCEPT ![b][i] = nb]]

\* Entry i of block w.b, nb when it is empty; -1 when there is no block to give.
Child(w, f, i, nb) ==
    LET child == EntryOf(w.d, f, w.b, i)
    IN  CASE w.b = -1 -> w
          [] w.b # -1 /\ child # 0 -> [d |-> w.d, b |-> child]
          [] w.b # -1 /\ child = 0 /\ nb = 0 -> [d |-> w.d, b |-> -1]
          [] OTHER -> [d |-> Link(w.d, f, w.b, i, nb), b |-> nb]

\* Down the path, one entry in each block on it.
Descend(d, f, path, new(_)) ==
    LET child(w, k) == IF k > Len(path) THEN w ELSE Child(w, f, path[k], new(w.d))
    IN  child(child(child(child([d |-> d, b |-> 0], 1), 2), 3), 4)

\* The allocators: the first free bit of the bitmap, or the next block of the image.
balloc(d) == IF d.used = Block THEN 0 ELSE Min(Block \ d.used)
freeblock(d) == IF d.freeblock > NBLOCKS THEN 0 ELSE d.freeblock

bmap(d, f, bn) == Descend(d, f, Path(bn), balloc)
appendblock(d, f, bn) == Descend(d, f, Path(bn), freeblock)

-----------------------------------------------------------------------------

\* mkfs: one more block of a file.
iappend(f) ==
    LET bn == fs.size[f]
        w == appendblock(fs, f, bn)
    IN  /\ ~fs.booted
        /\ bn < MaxBlocks[f] /\ bn < MAXFILE
        /\ w.b # -1
        /\ fs' = [w.d EXCEPT !.size[f] = bn + 1, !.data[w.b] = <<f, bn>>]

\* mkfs: the bitmap gets a bit for every block below freeblock, and the kernel runs.
mkfs_balloc ==
    /\ ~fs.booted
    /\ fs' = [fs EXCEPT !.used = 1..(fs.freeblock - 1), !.booted = TRUE, !.freeblock = 1]

\* The kernel writes block bn, or the one after the last; freeblock is mkfs's alone.
writei(f, bn) ==
    LET w == bmap(fs, f, bn)
    IN  /\ fs.booted /\ ~fs.panicked
        /\ bn <= fs.size[f] /\ bn < MaxBlocks[f] /\ bn < MAXFILE
        /\ fs' = IF w.b = -1 THEN [fs EXCEPT !.panicked = TRUE]        \* balloc: out of blocks
                 ELSE [w.d EXCEPT !.size[f] = IF bn = @ THEN bn + 1 ELSE @,
                                  !.data[w.b] = <<f, bn>>, !.freeblock = 1]

\* bfreeindirect: an index block of a level and all that is below it.
Below(d, b) == {d.ind[b][i] : i \in Entries} \ {0}
bfreeindirect(d, b, level) ==
    LET one(a) == {a} \cup Below(d, a)
        two(a) == {a} \cup UNION {one(c) : c \in Below(d, a)}
    IN  CASE level = 0 -> {b}
          [] level = 1 -> one(b)
          [] level = 2 -> two(b)
          [] level = 3 -> {b} \cup UNION {two(c) : c \in Below(d, b)}

Level(i) == CASE i < NDIRECT -> 0
              [] i \in NDIRECT..(NDIRECT + NSINDIRECT - 1) -> 1
              [] i \in (NDIRECT + NSINDIRECT)..(NADDRS - 2) -> 2
              [] i = NADDRS - 1 -> 3

Owned(d, f) == UNION {bfreeindirect(d, d.addrs[f][i], Level(i)) : i \in {j \in 0..(NADDRS - 1) : d.addrs[f][j] # 0}}

\* balloc() clears a block before it is used again: the model forgets it here.
itrunc(f) ==
    /\ fs.booted /\ ~fs.panicked
    /\ fs.size[f] > 0 /\ fs.truncs < MaxTruncs
    /\ fs' = [fs EXCEPT !.used = @ \ Owned(fs, f), !.size[f] = 0, !.truncs = @ + 1,
                        !.addrs[f] = [i \in 0..(NADDRS - 1) |-> 0],
                        !.ind = [b \in Block |-> IF b \in Owned(fs, f) THEN [i \in Entries |-> 0] ELSE @[b]],
                        !.data = [b \in Block |-> IF b \in Owned(fs, f) THEN <<0, 0>> ELSE @[b]]]

FilesNext ==
    \/ mkfs_balloc
    \/ \E f \in File : iappend(f) \/ itrunc(f) \/ \E bn \in 0..fs.size[f] : writei(f, bn)

FilesSpec == FilesInit /\ [][FilesNext]_fs

-----------------------------------------------------------------------------

\* What is read through bmap() is what was written there, by mkfs or by the kernel: no
\* two blocks of a file, and no two files, meet in one disk block, at any level boundary.
ReadsBack ==
    \A f \in File : \A bn \in 0..(fs.size[f] - 1) : LET b == Lookup(fs, f, bn)
                                                    IN  b # 0 /\ fs.data[b] = <<f, bn>>

\* The bitmap has exactly the blocks of the files, index blocks included: mkfs marked
\* them all, itrunc freed them all, and none is in two trees.
BitmapExact ==
    fs.booted =>
        /\ fs.used = UNION {Owned(fs, f) : f \in File}
        /\ \A f, g \in File : f # g => Owned(fs, f) \cap Owned(fs, g) = {}

\* Both, of bmap(), bfreeindirect() and mkfs's iappend() together.
MultilevelRight == ReadsBack /\ BitmapExact
=============================================================================
