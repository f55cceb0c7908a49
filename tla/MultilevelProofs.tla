-------------------------- MODULE MultilevelProofs --------------------------
(***************************************************************************)
(* Proofs about files with double and triple indirect blocks.  The blocks  *)
(* in use form a forest: each hangs in one entry of an inode or of an      *)
(* index block.  A number of a block and the path bmap() takes to it       *)
(* determine each other, so what a file reads back is what it wrote, and   *)
(* itrunc() frees what hangs below the addresses of its file.              *)
(***************************************************************************)
EXTENDS Multilevel, FiniteSetTheorems, WellFoundedInduction, TLAPS

-----------------------------------------------------------------------------
(* The forest of blocks                                                    *)

\* Where a block hangs: in an address of the inode (up = 0) or in an entry of an index block,
\* under which address, and how many blocks down from the inode.
Links(d) == [file : File, up : d.used \cup {0}, at : Nat, root : 0..(NADDRS - 1), depth : 1..4]

\* Types of the state.
Disks == [booted : BOOLEAN, truncs : Int, panicked : BOOLEAN, freeblock : Nat, used : SUBSET Block,
          addrs : [File -> [0..(NADDRS - 1) -> Block \cup {0}]], size : [File -> 0..MAXFILE],
          ind : [Block -> [Entries -> Block \cup {0}]], data : [Block -> (File \cup {0}) \X Nat]]

\* A block that is used hangs in one place, no deeper than its address allows, and an entry
\* that is not empty is the place of the block it names.
Hangs(d, par, b) ==
    LET l == par[b]
    IN  /\ l \in Links(d) /\ l.depth <= Level(l.root) + 1
        /\ l.up = 0 => l.depth = 1 /\ l.at = l.root /\ d.addrs[l.file][l.root] = b
        /\ l.up # 0 => /\ par[l.up].file = l.file /\ par[l.up].root = l.root
                       /\ l.depth = par[l.up].depth + 1 /\ l.at \in Entries /\ d.ind[l.up][l.at] = b
Forest(d, par) ==
    /\ \A b \in d.used : Hangs(d, par, b)
    /\ \A f \in File, i \in 0..(NADDRS - 1) : LET b == d.addrs[f][i] IN
          b # 0 => b \in d.used /\ par[b].up = 0 /\ par[b].file = f /\ par[b].root = i
    /\ \A a \in d.used, j \in Entries : LET b == d.ind[a][j] IN
          b # 0 => b \in d.used /\ par[b].up = a /\ par[b].at = j

\* Index entries of a free block are empty; mkfs has used the blocks below freeblock.
Clear(d) == /\ \A b \in Block \ d.used : \A j \in Entries : d.ind[b][j] = 0
            /\ ~d.booted => d.freeblock \in 1..(NBLOCKS + 1) /\ d.used = 1..(d.freeblock - 1)

Tree(d, par) == d \in Disks /\ Clear(d) /\ Forest(d, par)

Grown == (\E par : Tree(fs, par)) /\ ReadsBack

-----------------------------------------------------------------------------
(* Numbers                                                                 *)

\* Min finds an element.
LEMMA MinIs ==
  ASSUME NEW S \in SUBSET Nat, S # {}
  PROVE  Min(S) \in S /\ \A y \in S : Min(S) <= y
<1> DEFINE R == StrictSubsetOrdering(Nat)
           F == FiniteSubsetsOf(Nat)
           T == {1..x : x \in S}
<1>1. IsWellFoundedOn(R, F)
  BY FS_StrictSubsetOrderingWellFounded
<1>2. T \subseteq F /\ T # {}
  <2>1. \A x \in Nat : IsFiniteSet(1..x) /\ 1..x \in SUBSET Nat
    BY FS_Interval
  <2> QED
    BY <2>1 DEF FiniteSubsetsOf
<1>3. PICK t \in T : \A u \in T : ~ (<<u, t>> \in R)
  <2> HIDE DEF R, F, T
  <2> QED
    BY <1>1, <1>2, WFMin
<1>4. PICK x \in S : t = 1..x
  OBVIOUS
<1>5. ASSUME NEW y \in S, y < x
      PROVE  FALSE
  <2>1. 1..y \in SUBSET (1..x) /\ x \in 1..x /\ x \notin 1..y
    BY <1>5
  <2>2. 1..y \in F /\ 1..x \in F
    BY <1>2
  <2>3. <<1..y, 1..x>> \in R
    BY <2>1, <2>2 DEF StrictSubsetOrdering, FiniteSubsetsOf
  <2> QED
    BY <1>3, <1>4, <2>3
<1>6. \A y \in S : x <= y
  BY <1>5
<1> QED
  BY <1>6 DEF Min

\* Division with remainder, as the provers know it.
LEMMA ModDiv ==
  ASSUME NEW a \in Int, NEW n \in Nat \ {0}
  PROVE  /\ a \div n \in Int /\ a % n \in 0..(n - 1)
         /\ a = n * (a \div n) + (a % n)
  OBVIOUS

\* The quotient of two numbers is a number no larger than the first.
LEMMA DivSmaller ==
  ASSUME NEW a \in Nat, NEW n \in Nat \ {0}
  PROVE  a \div n \in 0..a
<1> DEFINE q == a \div n
           r == a % n
<1>1. q \in Int /\ r \in 0..(n - 1) /\ a = n * q + r
  BY ModDiv
<1> HIDE DEF q, r
<1>2. ASSUME q < 0
      PROVE  FALSE
  <2>1. n * q <= n * (-1)
    BY <1>1, <1>2
  <2> QED
    BY <1>1, <2>1
<1>3. n * q >= 1 * q
  BY <1>1, <1>2
<1> QED
  BY <1>1, <1>2, <1>3 DEF q

\* The quotient is below a bound when the number is below the bound's multiple.
LEMMA DivBelow ==
  ASSUME NEW a \in Nat, NEW n \in Nat \ {0}, NEW k \in Nat, a < k * n
  PROVE  a \div n \in Nat /\ a \div n < k
<1> DEFINE q == a \div n
           r == a % n
<1>1. q \in Int /\ r \in 0..(n - 1) /\ a = n * q + r
  BY ModDiv
<1>2. q \in 0..a
  BY DivSmaller
<1> HIDE DEF q, r
<1>3. ASSUME q >= k PROVE FALSE
  <2>1. n * q >= n * k
    BY <1>1, <1>3
  <2> QED
    BY <1>1, <2>1
<1>4. q \in Nat /\ q < k
  BY <1>1, <1>2, <1>3
<1> QED
  BY <1>4 DEF q

-----------------------------------------------------------------------------
(* Paths                                                                   *)

\* The sizes are numbers.
LEMMA Sizes ==
  /\ NDIRECT \in Nat /\ NSINDIRECT \in Nat /\ NDINDIRECT \in Nat /\ NINDIRECT \in Nat \ {0} /\ NBLOCKS \in Nat
  /\ NDOUBLE \in Nat \ {0} /\ NSINDIRECT * NINDIRECT \in Nat /\ NDINDIRECT * NDOUBLE \in Nat /\ NDOUBLE * NINDIRECT \in Nat
  /\ NADDRS \in Nat \ {0} /\ MAXFILE \in Nat
<1>1. \A a, b \in Nat : a * b \in Nat
  OBVIOUS
<1>2. \A a, b \in Nat \ {0} : a * b \in Nat \ {0}
  OBVIOUS
<1>3. NDOUBLE \in Nat \ {0}
  BY <1>2, LevelsAssumption DEF NDOUBLE
<1>4. NSINDIRECT * NINDIRECT \in Nat /\ NDINDIRECT * NDOUBLE \in Nat /\ NDOUBLE * NINDIRECT \in Nat
  BY <1>1, <1>3, LevelsAssumption
<1> QED
  BY <1>3, <1>4, LevelsAssumption DEF NADDRS, MAXFILE

\* The shape of a path: an address of the inode, and an entry of each index block of its level.
Fits(p) ==
    /\ Len(p) \in 1..4 /\ p[1] \in 0..(NADDRS - 1) /\ Len(p) = Level(p[1]) + 1
    /\ \A k \in 2..4 : k <= Len(p) => p[k] \in Entries

\* The block that a path leads to.
BlockAt(p) ==
    LET s == NDIRECT + NSINDIRECT * NINDIRECT
        t == s + NDINDIRECT * NDOUBLE
    IN  CASE Len(p) = 1 -> p[1]
          [] Len(p) = 2 -> NDIRECT + (NINDIRECT * (p[1] - NDIRECT) + p[2])
          [] Len(p) = 3 -> s + (NDOUBLE * (p[1] - NDIRECT - NSINDIRECT) + (NINDIRECT * p[2] + p[3]))
          [] Len(p) = 4 -> t + (NDOUBLE * p[2] + (NINDIRECT * p[3] + p[4]))

\* A number by its double index blocks, index blocks and entries.
LEMMA TwoLevels ==
  ASSUME NEW n \in Nat
  PROVE  /\ n \div NDOUBLE \in Nat
         /\ (n % NDOUBLE) \div NINDIRECT \in Entries /\ (n % NDOUBLE) % NINDIRECT \in Entries
         /\ n = NDOUBLE * (n \div NDOUBLE)
                + (NINDIRECT * ((n % NDOUBLE) \div NINDIRECT) + ((n % NDOUBLE) % NINDIRECT))
<1> DEFINE m == n % NDOUBLE
           q == n \div NDOUBLE
           a == m \div NINDIRECT
           b == m % NINDIRECT
<1>1. m \in 0..(NDOUBLE - 1) /\ q \in Int /\ n = NDOUBLE * q + m
  BY Sizes, ModDiv
<1>2. q \in Nat
  BY Sizes, DivSmaller
<1>3. m < NINDIRECT * NINDIRECT /\ m \in Nat
  BY <1>1, Sizes DEF NDOUBLE
<1>4. a \in Nat /\ a < NINDIRECT
  <2> HIDE DEF m
  <2> QED
    BY <1>3, Sizes, DivBelow
<1>5. b \in 0..(NINDIRECT - 1) /\ m = NINDIRECT * a + b
  <2> HIDE DEF m
  <2> QED
    BY <1>3, Sizes, ModDiv
<1>6. a \in Entries /\ b \in Entries
  BY <1>4, <1>5, Sizes DEF Entries
<1> HIDE DEF m, q, a, b
<1>7. n = NDOUBLE * q + (NINDIRECT * a + b)
  BY <1>1, <1>5
<1> QED
  BY <1>2, <1>6, <1>7 DEF m, q, a, b

\* The path that bmap() takes has an entry for each level of its address, and leads to one block.
LEMMA PathFits ==
  ASSUME NEW bn \in Nat, bn < MAXFILE
  PROVE  Fits(Path(bn)) /\ BlockAt(Path(bn)) = bn
<1> DEFINE s == NSINDIRECT * NINDIRECT
           t == NDINDIRECT * NDOUBLE
           u == NDOUBLE * NINDIRECT
           n1 == bn - NDIRECT
           n2 == n1 - s
           n3 == n2 - t
<1>1. s \in Nat /\ t \in Nat /\ u \in Nat /\ bn < NDIRECT + s + t + u
  BY Sizes DEF MAXFILE
<1>2. CASE bn < NDIRECT
  <2>1. Path(bn) = <<bn>>
    BY <1>2, Sizes DEF Path
  <2>2. bn \in 0..(NADDRS - 1) /\ Level(bn) = 0
    BY <1>2, Sizes DEF NADDRS, Level
  <2> QED
    BY <2>1, <2>2 DEF Fits, BlockAt
<1>3. CASE bn >= NDIRECT /\ n1 < s
  <2> DEFINE a == n1 \div NINDIRECT
             e == n1 % NINDIRECT
  <2>1. Path(bn) = <<NDIRECT + a, e>>
    BY <1>3, Sizes DEF Path
  <2>2. n1 \in Nat
    BY <1>3, Sizes
  <2>3. a \in Nat /\ a < NSINDIRECT /\ e \in 0..(NINDIRECT - 1) /\ n1 = NINDIRECT * a + e
    <3>1. n1 < NSINDIRECT * NINDIRECT
      BY <1>3
    <3> HIDE DEF n1
    <3>2. a \in Nat /\ a < NSINDIRECT
      BY <3>1, <2>2, Sizes, DivBelow
    <3>3. e \in 0..(NINDIRECT - 1) /\ n1 = NINDIRECT * a + e
      BY <2>2, Sizes, ModDiv
    <3> QED
      BY <3>2, <3>3
  <2> HIDE DEF a, e
  <2>4. NDIRECT + a \in 0..(NADDRS - 1) /\ Level(NDIRECT + a) = 1
    BY <2>3, Sizes DEF NADDRS, Level
  <2>5. bn = NDIRECT + (NINDIRECT * ((NDIRECT + a) - NDIRECT) + e)
    <3>1. (NDIRECT + a) - NDIRECT = a
      BY <2>3, Sizes
    <3> QED
      BY <2>3, <3>1, Sizes
  <2> QED
    BY <2>1, <2>3, <2>4, <2>5 DEF Fits, BlockAt, Entries
<1>4. CASE bn >= NDIRECT /\ n1 >= s /\ n2 < t
  <2> DEFINE q == n2 \div NDOUBLE
             a == (n2 % NDOUBLE) \div NINDIRECT
             e == (n2 % NDOUBLE) % NINDIRECT
             r == NDIRECT + NSINDIRECT + q
  <2>1. Path(bn) = <<r, a, e>>
    BY <1>1, <1>4, Sizes DEF Path
  <2>2. n2 \in Nat
    BY <1>1, <1>4, Sizes
  <2>3. q \in Nat /\ a \in Entries /\ e \in Entries /\ n2 = NDOUBLE * q + (NINDIRECT * a + e)
    <3> HIDE DEF n2
    <3> QED
      BY <2>2, TwoLevels
  <2>4. q < NDINDIRECT
    <3> HIDE DEF n2
    <3> QED
      BY <1>4, <2>2, Sizes, DivBelow
  <2> HIDE DEF q, a, e
  <2>5. r \in 0..(NADDRS - 1) /\ Level(r) = 2
    BY <2>3, <2>4, Sizes DEF NADDRS, Level
  <2>6. bn = NDIRECT + s + (NDOUBLE * (r - NDIRECT - NSINDIRECT) + (NINDIRECT * a + e))
    <3>1. r - NDIRECT - NSINDIRECT = q
      BY <2>3, Sizes
    <3>2. bn = NDIRECT + s + n2
      BY <1>1, Sizes
    <3> HIDE DEF r, n2, s
    <3> QED
      BY <2>3, <3>1, <3>2
  <2> HIDE DEF r
  <2> QED
    BY <2>1, <2>3, <2>5, <2>6 DEF Fits, BlockAt
<1>5. CASE bn >= NDIRECT /\ n1 >= s /\ n2 >= t
  <2> DEFINE q == n3 \div NDOUBLE
             a == (n3 % NDOUBLE) \div NINDIRECT
             e == (n3 % NDOUBLE) % NINDIRECT
             r == NDIRECT + NSINDIRECT + NDINDIRECT
  <2>1. Path(bn) = <<r, q, a, e>>
    BY <1>1, <1>5, Sizes DEF Path
  <2>2. n3 \in Nat /\ n3 < u
    BY <1>1, <1>5, Sizes
  <2>3. q \in Nat /\ a \in Entries /\ e \in Entries /\ n3 = NDOUBLE * q + (NINDIRECT * a + e)
    <3> HIDE DEF n3
    <3> QED
      BY <2>2, TwoLevels
  <2>4. q < NINDIRECT
    <3>1. n3 < NINDIRECT * NDOUBLE
      BY <2>2, Sizes
    <3> HIDE DEF n3
    <3> QED
      BY <3>1, <2>2, Sizes, DivBelow
  <2> HIDE DEF q, a, e
  <2>5. r \in 0..(NADDRS - 1) /\ Level(r) = 3
    BY <2>3, <2>4, Sizes DEF NADDRS, Level
  <2>6. bn = NDIRECT + s + t + (NDOUBLE * q + (NINDIRECT * a + e))
    <3>1. bn = NDIRECT + s + t + n3
      BY <1>1, Sizes
    <3> HIDE DEF n3
    <3> QED
      BY <2>3, <3>1
  <2>8. q \in Entries
    BY <2>3, <2>4, Sizes DEF Entries
  <2> HIDE DEF r
  <2> QED
    BY <2>1, <2>3, <2>5, <2>6, <2>8 DEF Fits, BlockAt
<1> QED
  BY <1>1, <1>2, <1>3, <1>4, <1>5, Sizes

-----------------------------------------------------------------------------
(* Blocks on a path                                                        *)

\* Block b is where the first k entries of path p of file f lead.
On1(par, f, p, b) == par[b].up = 0 /\ par[b].file = f /\ par[b].root = p[1]
On2(par, f, p, b) == par[b].up # 0 /\ par[b].at = p[2] /\ On1(par, f, p, par[b].up)
On3(par, f, p, b) == par[b].up # 0 /\ par[b].at = p[3] /\ On2(par, f, p, par[b].up)
On4(par, f, p, b) == par[b].up # 0 /\ par[b].at = p[4] /\ On3(par, f, p, par[b].up)
On(par, f, p, k, b) == /\ k = 1 => On1(par, f, p, b)
                       /\ k = 2 => On2(par, f, p, b)
                       /\ k = 3 => On3(par, f, p, b)
                       /\ k = 4 => On4(par, f, p, b)

\* What is above a block.
LEMMA LinkIs ==
  ASSUME NEW d, NEW par, Tree(d, par), NEW b \in d.used
  PROVE  /\ b \in Block /\ b # 0 /\ par[b] \in Links(d)
         /\ par[b].file \in File /\ par[b].at \in Nat /\ par[b].root \in 0..(NADDRS - 1) /\ par[b].depth \in 1..4
         /\ par[b].up \in d.used \cup {0} /\ par[b].depth <= Level(par[b].root) + 1
         /\ par[b].up = 0 => par[b].depth = 1 /\ par[b].at = par[b].root /\ d.addrs[par[b].file][par[b].root] = b
         /\ par[b].up # 0 => /\ par[b].up \in d.used /\ par[par[b].up].file = par[b].file
                             /\ par[par[b].up].root = par[b].root /\ par[b].depth = par[par[b].up].depth + 1
                             /\ par[b].at \in Entries /\ d.ind[par[b].up][par[b].at] = b
<1>1. Hangs(d, par, b) /\ d.used \subseteq Block
  BY DEF Tree, Forest, Disks
<1>2. b \in Block /\ b # 0
  BY <1>1, Sizes DEF Block
<1> QED
  BY <1>1, <1>2 DEF Hangs, Links

\* How deep a block on a path is, and whose.
LEMMA OnIs ==
  ASSUME NEW d, NEW par, Tree(d, par), NEW b \in d.used, NEW f, NEW p, NEW k \in 1..4, On(par, f, p, k, b)
  PROVE  par[b].depth = k /\ par[b].file = f /\ par[b].root = p[1]
<1>1. \A c \in d.used : On1(par, f, p, c) => par[c].depth = 1 /\ par[c].file = f /\ par[c].root = p[1]
  BY LinkIs DEF On1
<1>2. \A c \in d.used : On2(par, f, p, c) => par[c].depth = 2 /\ par[c].file = f /\ par[c].root = p[1]
  BY <1>1, LinkIs DEF On2
<1>3. \A c \in d.used : On3(par, f, p, c) => par[c].depth = 3 /\ par[c].file = f /\ par[c].root = p[1]
  BY <1>2, LinkIs DEF On3
<1>4. \A c \in d.used : On4(par, f, p, c) => par[c].depth = 4 /\ par[c].file = f /\ par[c].root = p[1]
  BY <1>3, LinkIs DEF On4
<1> QED
  BY <1>1, <1>2, <1>3, <1>4 DEF On

\* A block is on one path only.
LEMMA OnSame ==
  ASSUME NEW d, NEW par, Tree(d, par), NEW b \in d.used,
         NEW f, NEW p, NEW k \in 1..4, On(par, f, p, k, b),
         NEW g, NEW q, NEW l \in 1..4, On(par, g, q, l, b)
  PROVE  f = g /\ k = l /\ \A j \in 1..k : p[j] = q[j]
<1>1. f = g /\ k = l /\ p[1] = q[1]
  BY OnIs
<1>2. \A c \in d.used : On2(par, f, p, c) /\ On2(par, g, q, c) => p[2] = q[2]
  BY DEF On2
<1>3. \A c \in d.used : On3(par, f, p, c) /\ On3(par, g, q, c) => p[2] = q[2] /\ p[3] = q[3]
  BY <1>2, LinkIs DEF On3
<1>4. \A c \in d.used : On4(par, f, p, c) /\ On4(par, g, q, c) => p[2] = q[2] /\ p[3] = q[3] /\ p[4] = q[4]
  BY <1>3, LinkIs DEF On4
<1>5. CASE k = 1
  BY <1>1, <1>5
<1>6. CASE k = 2
  BY <1>1, <1>2, <1>6 DEF On
<1>7. CASE k = 3
  BY <1>1, <1>3, <1>7 DEF On
<1>8. CASE k = 4
  BY <1>1, <1>4, <1>8 DEF On
<1> QED
  BY <1>5, <1>6, <1>7, <1>8

\* What is on a path stays there when blocks are added to the forest.
LEMMA OnStays ==
  ASSUME NEW d, NEW par, Tree(d, par), NEW b \in d.used, NEW f, NEW p, NEW k \in 1..4, On(par, f, p, k, b),
         NEW par2, \A c \in d.used : par2[c] = par[c]
  PROVE  On(par2, f, p, k, b)
<1>1. \A c \in d.used : On1(par, f, p, c) => On1(par2, f, p, c)
  BY DEF On1
<1>2. \A c \in d.used : On2(par, f, p, c) => On2(par2, f, p, c)
  BY <1>1, LinkIs DEF On2
<1>3. \A c \in d.used : On3(par, f, p, c) => On3(par2, f, p, c)
  BY <1>2, LinkIs DEF On3
<1>4. \A c \in d.used : On4(par, f, p, c) => On4(par2, f, p, c)
  BY <1>3, LinkIs DEF On4
<1> QED
  BY <1>1, <1>2, <1>3, <1>4 DEF On

\* An entry that is not empty names a block in use, one step further on the path.
LEMMA EntryIs ==
  ASSUME NEW d, NEW par, Tree(d, par), NEW f \in File, NEW p, Fits(p)
  PROVE  /\ d.addrs[f][p[1]] # 0 => d.addrs[f][p[1]] \in d.used /\ On(par, f, p, 1, d.addrs[f][p[1]])
         /\ \A b \in d.used, k \in 1..3 : On(par, f, p, k, b) /\ k < Len(p) /\ d.ind[b][p[k + 1]] # 0 =>
               d.ind[b][p[k + 1]] \in d.used /\ On(par, f, p, k + 1, d.ind[b][p[k + 1]])
<1>1. d.addrs[f][p[1]] # 0 => d.addrs[f][p[1]] \in d.used /\ On(par, f, p, 1, d.addrs[f][p[1]])
  BY DEF Tree, Forest, Fits, On, On1
<1>2. ASSUME NEW b \in d.used, NEW k \in 1..3, On(par, f, p, k, b), k < Len(p), d.ind[b][p[k + 1]] # 0
      PROVE  d.ind[b][p[k + 1]] \in d.used /\ On(par, f, p, k + 1, d.ind[b][p[k + 1]])
  <2> DEFINE c == d.ind[b][p[k + 1]]
  <2>1. p[k + 1] \in Entries
    BY <1>2 DEF Fits
  <2>2. c \in d.used /\ par[c].up = b /\ par[c].at = p[k + 1]
    BY <1>2, <2>1 DEF Tree, Forest
  <2>3. b # 0
    BY LinkIs
  <2> HIDE DEF c
  <2>4. ASSUME k = 1 PROVE On(par, f, p, k + 1, c)
    <3>1. On1(par, f, p, b)
      BY <1>2, <2>4 DEF On
    <3>2. On2(par, f, p, c)
      BY <2>2, <2>3, <2>4, <3>1 DEF On2
    <3> QED
      BY <2>4, <3>2 DEF On
  <2>5. ASSUME k = 2 PROVE On(par, f, p, k + 1, c)
    <3>1. On2(par, f, p, b)
      BY <1>2, <2>5 DEF On
    <3>2. On3(par, f, p, c)
      BY <2>2, <2>3, <2>5, <3>1 DEF On3
    <3> QED
      BY <2>5, <3>2 DEF On
  <2>6. ASSUME k = 3 PROVE On(par, f, p, k + 1, c)
    <3>1. On3(par, f, p, b)
      BY <1>2, <2>6 DEF On
    <3>2. On4(par, f, p, c)
      BY <2>2, <2>3, <2>6, <3>1 DEF On4
    <3> QED
      BY <2>6, <3>2 DEF On
  <2> QED
    BY <2>2, <2>4, <2>5, <2>6 DEF c
<1> QED
  BY <1>1, <1>2

\* Lookup() finds the block on the path, and no other.
LEMMA LookupIs ==
  ASSUME NEW d, NEW par, Tree(d, par), NEW f \in File, NEW bn \in Nat, bn < MAXFILE
  PROVE  /\ Lookup(d, f, bn) # 0 => /\ Lookup(d, f, bn) \in d.used
                                    /\ On(par, f, Path(bn), Len(Path(bn)), Lookup(d, f, bn))
         /\ \A b \in d.used : On(par, f, Path(bn), Len(Path(bn)), b) => Lookup(d, f, bn) = b
<1> DEFINE p == Path(bn)
           b1 == d.addrs[f][p[1]]
           b2 == IF 2 > Len(p) \/ b1 = 0 THEN b1 ELSE d.ind[b1][p[2]]
           b3 == IF 3 > Len(p) \/ b2 = 0 THEN b2 ELSE d.ind[b2][p[3]]
           b4 == IF 4 > Len(p) \/ b3 = 0 THEN b3 ELSE d.ind[b3][p[4]]
<1>1. Fits(p)
  BY PathFits
<1>2. Lookup(d, f, bn) = b4
  BY DEF Lookup
<1> HIDE DEF p
<1>3. Len(p) \in 1..4
  BY <1>1 DEF Fits
<1>15. PICK n \in 1..4 : n = Len(p)
  BY <1>3
<1>4. b1 # 0 => b1 \in d.used /\ On(par, f, p, 1, b1)
  BY <1>1, EntryIs
<1>5. \A b \in d.used, k \in 1..3 : On(par, f, p, k, b) /\ k < Len(p) /\ d.ind[b][p[k + 1]] # 0 =>
         d.ind[b][p[k + 1]] \in d.used /\ On(par, f, p, k + 1, d.ind[b][p[k + 1]])
  BY <1>1, EntryIs
<1> HIDE DEF b1
<1>6. b2 # 0 => b2 \in d.used /\ On(par, f, p, IF Len(p) < 2 THEN Len(p) ELSE 2, b2)
  <2>1. CASE 2 > Len(p)
    <3>1. b2 = b1
      BY <2>1
    <3>2. Len(p) = 1
      BY <1>3, <2>1
    <3> QED
      BY <1>3, <1>4, <2>1, <3>1, <3>2
  <2>3. CASE b1 = 0
    BY <2>3
  <2>2. CASE ~(2 > Len(p) \/ b1 = 0)
    <3>1. b2 = d.ind[b1][p[2]] /\ b1 # 0 /\ 1 < Len(p)
      BY <1>3, <2>2
    <3>2. b1 \in d.used /\ On(par, f, p, 1, b1)
      BY <1>4, <3>1
    <3>3. b2 # 0 => b2 \in d.used /\ On(par, f, p, 2, b2)
      BY <1>5, <3>1, <3>2
    <3>4. (IF Len(p) < 2 THEN Len(p) ELSE 2) = 2
      BY <1>3, <3>1
    <3> QED
      BY <3>3, <3>4
  <2> QED
    BY <2>1, <2>2, <2>3
<1> HIDE DEF b2
<1>7. b3 # 0 => b3 \in d.used /\ On(par, f, p, IF Len(p) < 3 THEN Len(p) ELSE 3, b3)
  <2>1. CASE 3 > Len(p)
    <3>1. b3 = b2
      BY <2>1
    <3>2. n \in {1, 2}
      BY <1>15, <2>1
    <3> QED
      BY <1>6, <1>15, <2>1, <3>1, <3>2
  <2>3. CASE b2 = 0
    BY <2>3
  <2>2. CASE ~(3 > Len(p) \/ b2 = 0)
    <3>1. b3 = d.ind[b2][p[3]] /\ b2 # 0 /\ 2 < Len(p)
      BY <1>3, <2>2
    <3>2. b2 \in d.used /\ On(par, f, p, 2, b2)
      BY <1>6, <3>1
    <3>3. b3 # 0 => b3 \in d.used /\ On(par, f, p, 3, b3)
      BY <1>5, <3>1, <3>2
    <3>4. (IF Len(p) < 3 THEN Len(p) ELSE 3) = 3
      BY <1>3, <3>1
    <3> QED
      BY <3>3, <3>4
  <2> QED
    BY <2>1, <2>2, <2>3
<1> HIDE DEF b3
<1>8. b4 # 0 => b4 \in d.used /\ On(par, f, p, IF Len(p) < 4 THEN Len(p) ELSE 4, b4)
  <2>1. CASE 4 > Len(p)
    <3>1. b4 = b3
      BY <2>1
    <3>2. n \in {1, 2, 3}
      BY <1>15, <2>1
    <3> QED
      BY <1>7, <1>15, <2>1, <3>1, <3>2
  <2>3. CASE b3 = 0
    BY <2>3
  <2>2. CASE ~(4 > Len(p) \/ b3 = 0)
    <3>1. b4 = d.ind[b3][p[4]] /\ b3 # 0 /\ 3 < Len(p)
      BY <1>3, <2>2
    <3>2. b3 \in d.used /\ On(par, f, p, 3, b3)
      BY <1>7, <3>1
    <3>3. b4 # 0 => b4 \in d.used /\ On(par, f, p, 4, b4)
      BY <1>5, <3>1, <3>2
    <3>4. (IF Len(p) < 4 THEN Len(p) ELSE 4) = 4
      BY <1>3, <3>1
    <3> QED
      BY <3>3, <3>4
  <2> QED
    BY <2>1, <2>2, <2>3
<1>9. \A c \in d.used : On1(par, f, p, c) => c # 0 /\ d.addrs[f][p[1]] = c
  BY LinkIs DEF On1
<1>10. \A c \in d.used : On2(par, f, p, c) => c # 0 /\ par[c].up \in d.used /\ On1(par, f, p, par[c].up) /\ d.ind[par[c].up][p[2]] = c
  BY LinkIs DEF On2
<1>11. \A c \in d.used : On3(par, f, p, c) => c # 0 /\ par[c].up \in d.used /\ On2(par, f, p, par[c].up) /\ d.ind[par[c].up][p[3]] = c
  BY LinkIs DEF On3
<1>12. \A c \in d.used : On4(par, f, p, c) => c # 0 /\ par[c].up \in d.used /\ On3(par, f, p, par[c].up) /\ d.ind[par[c].up][p[4]] = c
  BY LinkIs DEF On4
<1>13. ASSUME NEW b \in d.used, On(par, f, p, Len(p), b)
       PROVE  b4 = b
  <2>1. CASE Len(p) = 1
    <3>1. b1 = b
      BY <1>9, <1>13, <2>1 DEF On, b1
    <3> QED
      BY <2>1, <3>1 DEF b2, b3
  <2>2. CASE Len(p) = 2
    <3>1. On2(par, f, p, b)
      BY <1>13, <2>2 DEF On
    <3>2. PICK c \in d.used : c # 0 /\ On1(par, f, p, c) /\ d.ind[c][p[2]] = b
      BY <1>9, <1>10, <3>1
    <3>3. b1 = c
      BY <1>9, <3>2 DEF b1
    <3>4. b2 = b
      BY <2>2, <3>2, <3>3 DEF b2
    <3> QED
      BY <2>2, <3>4 DEF b3
  <2>3. CASE Len(p) = 3
    <3>1. On3(par, f, p, b)
      BY <1>13, <2>3 DEF On
    <3>2. PICK c \in d.used : c # 0 /\ On2(par, f, p, c) /\ d.ind[c][p[3]] = b
      BY <1>10, <1>11, <3>1
    <3>3. PICK e \in d.used : e # 0 /\ On1(par, f, p, e) /\ d.ind[e][p[2]] = c
      BY <1>9, <1>10, <3>2
    <3>4. b1 = e
      BY <1>9, <3>3 DEF b1
    <3>5. b2 = c
      BY <2>3, <3>3, <3>4 DEF b2
    <3>6. b3 = b
      BY <2>3, <3>2, <3>5 DEF b3
    <3> QED
      BY <2>3, <3>6
  <2>4. CASE Len(p) = 4
    <3>1. On4(par, f, p, b)
      BY <1>13, <2>4 DEF On
    <3>2. PICK g \in d.used : g # 0 /\ On3(par, f, p, g) /\ d.ind[g][p[4]] = b
      BY <1>11, <1>12, <3>1
    <3>3. PICK c \in d.used : c # 0 /\ On2(par, f, p, c) /\ d.ind[c][p[3]] = g
      BY <1>10, <1>11, <3>2
    <3>4. PICK e \in d.used : e # 0 /\ On1(par, f, p, e) /\ d.ind[e][p[2]] = c
      BY <1>9, <1>10, <3>3
    <3>5. b1 = e
      BY <1>9, <3>4 DEF b1
    <3>6. b2 = c
      BY <2>4, <3>4, <3>5 DEF b2
    <3>7. b3 = g
      BY <2>4, <3>3, <3>6 DEF b3
    <3> QED
      BY <2>4, <3>2, <3>7
  <2> QED
    BY <1>3, <2>1, <2>2, <2>3, <2>4
<1>14. (IF n < 4 THEN n ELSE 4) = n
  OBVIOUS
<1> QED
  BY <1>2, <1>8, <1>13, <1>14, <1>15 DEF p

-----------------------------------------------------------------------------
(* One more block                                                          *)

\* A block that an allocator may give: none, or a free one, in mkfs the next of the image.
Fresh(d, nb) == nb = 0 \/ (nb \in Block \ d.used /\ (~d.booted => nb = d.freeblock))

\* The types of a state.
LEMMA StateIs ==
  ASSUME NEW d, NEW par, Tree(d, par)
  PROVE  /\ d \in Disks /\ Block \subseteq Nat /\ 0 \notin Block /\ -1 \notin Block /\ Entries \subseteq Nat
         /\ d.booted \in BOOLEAN /\ d.used \subseteq Block /\ d.freeblock \in Nat
         /\ d.addrs \in [File -> [0..(NADDRS - 1) -> Block \cup {0}]]
         /\ d.ind \in [Block -> [Entries -> Block \cup {0}]]
         /\ d.size \in [File -> 0..MAXFILE] /\ d.data \in [Block -> (File \cup {0}) \X Nat]
<1>1. d \in Disks
  BY DEF Tree
<1>2. Block \subseteq Nat /\ 0 \notin Block /\ -1 \notin Block /\ Entries \subseteq Nat
  BY Sizes DEF Block, Entries
<1> HIDE DEF Block, Entries
<1> QED
  BY <1>1, <1>2 DEF Disks

\* A tree with more blocks, and the same contents.
Adds(d, par, d2, par2) ==
    /\ Tree(d2, par2) /\ d.used \subseteq d2.used /\ \A b \in d.used : par2[b] = par[b]
    /\ d2.size = d.size /\ d2.data = d.data
    /\ d2.booted = d.booted /\ d2.truncs = d.truncs /\ d2.panicked = d.panicked

LEMMA AddsMore ==
  ASSUME NEW d, NEW par, NEW d2, NEW par2, NEW d3, NEW par3, Adds(d, par, d2, par2), Adds(d2, par2, d3, par3)
  PROVE  Adds(d, par, d3, par3)
BY DEF Adds

\* What both allocators give is free.
LEMMA AllocIs ==
  ASSUME NEW d, NEW par, Tree(d, par)
  PROVE  /\ d.booted => Fresh(d, balloc(d))
         /\ ~d.booted => Fresh(d, freeblock(d))
<1>1. d.used \subseteq Block /\ Block \subseteq Nat
  BY StateIs
<1>2. ASSUME d.booted
      PROVE  Fresh(d, balloc(d))
  <2>1. CASE d.used # Block
    <3>1. Block \ d.used \in SUBSET Nat /\ Block \ d.used # {}
      BY <1>1, <2>1
    <3>2. Min(Block \ d.used) \in Block \ d.used
      BY <3>1, MinIs
    <3>3. balloc(d) = Min(Block \ d.used)
      BY <2>1 DEF balloc
    <3> QED
      BY <1>2, <3>2, <3>3 DEF Fresh
  <2>2. CASE d.used = Block
    BY <2>2 DEF balloc, Fresh
  <2> QED
    BY <2>1, <2>2
<1>4. ASSUME ~d.booted
      PROVE  Fresh(d, freeblock(d))
  <2>1. d.freeblock \in 1..(NBLOCKS + 1) /\ d.used = 1..(d.freeblock - 1)
    BY <1>4 DEF Tree, Clear
  <2>2. CASE d.freeblock > NBLOCKS
    BY <2>2 DEF freeblock, Fresh
  <2>3. CASE ~(d.freeblock > NBLOCKS)
    <3>1. d.freeblock \in Block \ d.used
      BY <2>1, <2>3, Sizes DEF Block
    <3> QED
      BY <2>3, <3>1 DEF freeblock, Fresh
  <2> QED
    BY <2>2, <2>3
<1> QED
  BY <1>2, <1>4

\* d2 is d with the free block nb in the empty entry after the first k of path p, where block b is.
Hung(d, par, f, p, k, b, nb, d2, par2) ==
    /\ Tree(d, par) /\ f \in File /\ Fits(p) /\ k \in 0..3 /\ k < Len(p)
    /\ k = 0 => b = 0
    /\ k # 0 => b \in d.used /\ On(par, f, p, k, b)
    /\ nb \in Block \ d.used /\ (~d.booted => nb = d.freeblock)
    /\ EntryOf(d, f, b, p[k + 1]) = 0
    /\ d2 \in Disks /\ d2.used = d.used \cup {nb} /\ d2.freeblock = nb + 1 /\ d2.booted = d.booted
    /\ \A g \in File, i \in 0..(NADDRS - 1) :
          d2.addrs[g][i] = IF b = 0 /\ g = f /\ i = p[1] THEN nb ELSE d.addrs[g][i]
    /\ \A a \in Block, j \in Entries :
          d2.ind[a][j] = IF a = nb THEN 0 ELSE IF b # 0 /\ a = b /\ j = p[k + 1] THEN nb ELSE d.ind[a][j]
    /\ par2 = [x \in d.used \cup {nb} |->
                 IF x = nb THEN [file |-> f, up |-> b, at |-> p[k + 1], root |-> p[1], depth |-> k + 1] ELSE par[x]]

\* A block taken from the free ones and put in an empty entry extends the forest.
LEMMA HangIs ==
  ASSUME NEW d, NEW par, NEW f, NEW p, NEW k, NEW b, NEW nb, NEW d2, NEW par2, Hung(d, par, f, p, k, b, nb, d2, par2)
  PROVE  Tree(d2, par2) /\ On(par2, f, p, k + 1, nb)
<1> USE DEF Hung
<1>1. /\ d.used \subseteq Block /\ Block \subseteq Nat /\ 0 \notin Block /\ Entries \subseteq Nat
      /\ nb \notin d.used /\ nb \in Block /\ nb # 0
      /\ \A x \in d.used : par2[x] = par[x] /\ x # nb
      /\ par2[nb] = [file |-> f, up |-> b, at |-> p[k + 1], root |-> p[1], depth |-> k + 1]
  BY StateIs
<1>2. Len(p) \in 1..4 /\ p[1] \in 0..(NADDRS - 1) /\ Len(p) = Level(p[1]) + 1 /\ (k # 0 => p[k + 1] \in Entries)
  BY DEF Fits
<1>3. /\ k # 0 => b \in d.used /\ b # 0 /\ par[b].depth = k /\ par[b].file = f /\ par[b].root = p[1]
      /\ k = 0 <=> b = 0
  BY <1>1, OnIs
<1>4. b = 0 => d.addrs[f][p[1]] = 0
  BY <1>3 DEF EntryOf
<1>5. b # 0 => d.ind[b][p[k + 1]] = 0
  BY DEF EntryOf
<1>6. Clear(d2)
  <2>1. ASSUME NEW a \in Block \ d2.used, NEW j \in Entries
        PROVE  d2.ind[a][j] = 0
    BY <1>3, <2>1 DEF Tree, Clear
  <2>2. ASSUME ~d2.booted
        PROVE  d2.freeblock \in 1..(NBLOCKS + 1) /\ d2.used = 1..(d2.freeblock - 1)
    <3>1. nb = d.freeblock /\ d.used = 1..(nb - 1) /\ nb \in 1..NBLOCKS
      BY <2>2 DEF Tree, Clear, Block
    <3>2. 1..nb = 1..(nb - 1) \cup {nb}
      BY <3>1, Sizes
    <3> QED
      BY <3>1, <3>2, Sizes
  <2> QED
    BY <2>1, <2>2 DEF Clear
<1>7. ASSUME NEW x \in d.used
      PROVE  Hangs(d2, par2, x)
  <2> DEFINE l == par[x]
  <2>1. /\ x \in Block /\ x # 0 /\ l \in Links(d)
        /\ l.file \in File /\ l.root \in 0..(NADDRS - 1) /\ l.up \in d.used \cup {0} /\ l.depth <= Level(l.root) + 1
        /\ l.up = 0 => l.depth = 1 /\ l.at = l.root /\ d.addrs[l.file][l.root] = x
        /\ l.up # 0 => /\ l.up \in d.used /\ par[l.up].file = l.file /\ par[l.up].root = l.root
                       /\ l.depth = par[l.up].depth + 1 /\ l.at \in Entries /\ d.ind[l.up][l.at] = x
    BY LinkIs
  <2> HIDE DEF l
  <2>2. par2[x] = l
    BY <1>1 DEF l
  <2>3. l \in Links(d2)
    BY <2>1 DEF Links
  <2>4. l.up = 0 => d2.addrs[l.file][l.root] = x
    BY <1>4, <2>1
  <2>5. l.up # 0 => par2[l.up] = par[l.up] /\ l.up # nb /\ d2.ind[l.up][l.at] = x
    <3>1. ASSUME l.up # 0
          PROVE  l.up \in d.used /\ l.up \in Block /\ l.up # nb /\ par2[l.up] = par[l.up] /\ l.at \in Entries
                 /\ d.ind[l.up][l.at] = x
      BY <1>1, <2>1, <3>1
    <3>2. ASSUME l.up # 0
          PROVE  d2.ind[l.up][l.at] = x
      BY <1>5, <2>1, <3>1, <3>2
    <3> QED
      BY <3>1, <3>2
  <2> QED
    BY <2>1, <2>2, <2>3, <2>4, <2>5 DEF Hangs
<1>8. Hangs(d2, par2, nb)
  <2> DEFINE l == par2[nb]
  <2>1. /\ l.file = f /\ l.up = b /\ l.at = p[k + 1] /\ l.root = p[1] /\ l.depth = k + 1
        /\ l = [file |-> f, up |-> b, at |-> p[k + 1], root |-> p[1], depth |-> k + 1]
    BY <1>1
  <2>2. k + 1 \in 1..4 /\ k + 1 <= Level(p[1]) + 1 /\ b \in d2.used \cup {0}
    BY <1>2, <1>3
  <2>3. p[k + 1] \in Nat
    <3>1. CASE k = 0
      BY <1>2, <3>1, Sizes
    <3>2. CASE k # 0
      BY <1>1, <1>2, <3>2
    <3> QED
      BY <3>1, <3>2
  <2>4. l \in Links(d2)
    BY <1>2, <2>1, <2>2, <2>3 DEF Links
  <2>5. b = 0 => k + 1 = 1 /\ p[k + 1] = p[1] /\ d2.addrs[f][p[1]] = nb
    BY <1>2, <1>3
  <2>6. b # 0 => b \in Block /\ b # nb /\ par2[b] = par[b] /\ d2.ind[b][p[k + 1]] = nb /\ p[k + 1] \in Entries
    BY <1>1, <1>2, <1>3
  <2> HIDE DEF l
  <2> QED
    BY <1>3, <2>1, <2>2, <2>4, <2>5, <2>6 DEF Hangs, l
<1>9. ASSUME NEW g \in File, NEW i \in 0..(NADDRS - 1), d2.addrs[g][i] # 0
      PROVE  d2.addrs[g][i] \in d2.used /\ par2[d2.addrs[g][i]].up = 0 /\ par2[d2.addrs[g][i]].file = g
             /\ par2[d2.addrs[g][i]].root = i
  <2>1. CASE b = 0 /\ g = f /\ i = p[1]
    BY <1>1, <2>1
  <2>2. CASE ~(b = 0 /\ g = f /\ i = p[1])
    <3>1. d2.addrs[g][i] = d.addrs[g][i]
      BY <2>2
    <3> QED
      BY <1>1, <1>9, <3>1 DEF Tree, Forest
  <2> QED
    BY <2>1, <2>2
<1>10. ASSUME NEW a \in d2.used, NEW j \in Entries, d2.ind[a][j] # 0
       PROVE  d2.ind[a][j] \in d2.used /\ par2[d2.ind[a][j]].up = a /\ par2[d2.ind[a][j]].at = j
  <2>1. a \in Block /\ a # nb /\ a \in d.used
    BY <1>1, <1>10
  <2>2. CASE b # 0 /\ a = b /\ j = p[k + 1]
    BY <1>1, <2>1, <2>2
  <2>3. CASE ~(b # 0 /\ a = b /\ j = p[k + 1])
    <3>1. d2.ind[a][j] = d.ind[a][j]
      BY <2>1, <2>3
    <3> QED
      BY <1>1, <1>10, <2>1, <3>1 DEF Tree, Forest
  <2> QED
    BY <2>2, <2>3
<1>11. Forest(d2, par2)
  BY <1>7, <1>8, <1>9, <1>10 DEF Forest
<1>12. k # 0 => On(par2, f, p, k, b)
  BY <1>1, OnStays
<1>13. On(par2, f, p, k + 1, nb)
  <2>1. par2[nb].up = b /\ par2[nb].at = p[k + 1] /\ par2[nb].file = f /\ par2[nb].root = p[1]
    BY <1>1
  <2>2. CASE k = 0
    BY <1>3, <2>1, <2>2 DEF On, On1
  <2>3. CASE k = 1
    <3>1. On2(par2, f, p, nb)
      BY <1>3, <1>12, <2>1, <2>3 DEF On, On2
    <3> QED
      BY <2>3, <3>1 DEF On
  <2>4. CASE k = 2
    <3>1. On3(par2, f, p, nb)
      BY <1>3, <1>12, <2>1, <2>4 DEF On, On3
    <3> QED
      BY <2>4, <3>1 DEF On
  <2>5. CASE k = 3
    <3>1. On4(par2, f, p, nb)
      BY <1>3, <1>12, <2>1, <2>5 DEF On, On4
    <3> QED
      BY <2>5, <3>1 DEF On
  <2> QED
    BY <2>2, <2>3, <2>4, <2>5
<1> QED
  BY <1>6, <1>11, <1>13 DEF Tree

\* Child() goes one entry further on the path, or finds no block to put there.
LEMMA ChildIs ==
  ASSUME NEW d, NEW par, Tree(d, par), NEW f \in File, NEW p, Fits(p), NEW k \in 0..3, k < Len(p),
         NEW b, k = 0 => b = 0, k # 0 => b \in d.used /\ On(par, f, p, k, b),
         NEW nb, Fresh(d, nb), NEW w, w = Child([d |-> d, b |-> b], f, p[k + 1], nb)
  PROVE  /\ w = [d |-> w.d, b |-> w.b]
         /\ w.b # -1 => \E par2 : Adds(d, par, w.d, par2) /\ w.b \in w.d.used /\ On(par2, f, p, k + 1, w.b)
<1> DEFINE e == EntryOf(d, f, b, p[k + 1])
<1>1. /\ d \in Disks /\ d.used \subseteq Block /\ Block \subseteq Nat /\ 0 \notin Block /\ -1 \notin Block
      /\ d.booted \in BOOLEAN /\ d.freeblock \in Nat
      /\ d.addrs \in [File -> [0..(NADDRS - 1) -> Block \cup {0}]]
      /\ d.ind \in [Block -> [Entries -> Block \cup {0}]]
      /\ p[1] \in 0..(NADDRS - 1) /\ (k # 0 => p[k + 1] \in Entries)
  BY StateIs DEF Fits
<1>2. (k = 0 <=> b = 0) /\ b # -1
  <2>1. CASE k = 0
    BY <2>1
  <2>2. CASE k # 0
    <3>1. b \in Block
      BY <1>1, <2>2
    <3> QED
      BY <1>1, <2>2, <3>1
  <2> QED
    BY <2>1, <2>2
<1>3. CASE e # 0
  <2>1. w = [d |-> d, b |-> e]
    BY <1>2, <1>3 DEF Child
  <2>2. e \in d.used /\ On(par, f, p, k + 1, e)
    <3>1. CASE k = 0
      <4>1. e = d.addrs[f][p[1]]
        BY <1>2, <3>1 DEF EntryOf
      <4> QED
        BY <1>3, <3>1, <4>1, EntryIs
    <3>2. CASE k # 0
      <4>1. e = d.ind[b][p[k + 1]] /\ k \in 1..3
        BY <1>2, <3>2 DEF EntryOf
      <4> QED
        BY <1>3, <3>2, <4>1, EntryIs
    <3> QED
      BY <3>1, <3>2
  <2>3. Adds(d, par, d, par)
    BY DEF Adds
  <2> QED
    BY <2>1, <2>2, <2>3
<1>4. CASE e = 0 /\ nb = 0
  <2>1. w = [d |-> d, b |-> -1]
    BY <1>2, <1>4 DEF Child
  <2> QED
    BY <2>1
<1>5. CASE e = 0 /\ nb # 0
  <2> DEFINE d2 == Link(d, f, b, p[k + 1], nb)
             par2 == [x \in d.used \cup {nb} |->
                        IF x = nb THEN [file |-> f, up |-> b, at |-> p[k + 1], root |-> p[1], depth |-> k + 1]
                                  ELSE par[x]]
  <2>1. w = [d |-> d2, b |-> nb]
    BY <1>2, <1>5 DEF Child
  <2>2. nb \in Block \ d.used /\ (~d.booted => nb = d.freeblock) /\ nb \in Nat
    BY <1>1, <1>5 DEF Fresh
  <2>3. /\ d2 \in Disks
        /\ d2.used = d.used \cup {nb} /\ d2.freeblock = nb + 1 /\ d2.booted = d.booted
        /\ d2.size = d.size /\ d2.data = d.data /\ d2.truncs = d.truncs /\ d2.panicked = d.panicked
        /\ \A g \in File, i \in 0..(NADDRS - 1) :
              d2.addrs[g][i] = IF b = 0 /\ g = f /\ i = p[1] THEN nb ELSE d.addrs[g][i]
        /\ \A a \in Block, j \in Entries :
              d2.ind[a][j] = IF a = nb THEN 0 ELSE IF b # 0 /\ a = b /\ j = p[k + 1] THEN nb ELSE d.ind[a][j]
    <3> DEFINE z == [x \in Entries |-> 0]
               cleared == [d.ind EXCEPT ![nb] = z]
               addrs2 == IF b = 0 THEN [d.addrs EXCEPT ![f][p[k + 1]] = nb] ELSE d.addrs
               ind2 == IF b = 0 THEN cleared ELSE [cleared EXCEPT ![b][p[k + 1]] = nb]
    <3>1. d2 = [d EXCEPT !.used = d.used \cup {nb}, !.freeblock = nb + 1, !.addrs = addrs2, !.ind = ind2]
      BY DEF Link
    <3> HIDE DEF d2, addrs2, ind2
    <3>2. /\ d2.booted = d.booted /\ d2.truncs = d.truncs /\ d2.panicked = d.panicked
          /\ d2.size = d.size /\ d2.data = d.data
          /\ d2.freeblock = nb + 1 /\ d2.used = d.used \cup {nb} /\ d2.addrs = addrs2 /\ d2.ind = ind2
      BY <1>1, <3>1 DEF Disks
    <3>3. /\ addrs2 \in [File -> [0..(NADDRS - 1) -> Block \cup {0}]]
          /\ \A g \in File, i \in 0..(NADDRS - 1) :
                addrs2[g][i] = IF b = 0 /\ g = f /\ i = p[1] THEN nb ELSE d.addrs[g][i]
      <4>1. CASE b = 0
        <5>1. addrs2 = [d.addrs EXCEPT ![f][p[1]] = nb]
          BY <1>2, <4>1 DEF addrs2
        <5> QED
          BY <1>1, <2>2, <4>1, <5>1
      <4>2. CASE b # 0
        <5>1. addrs2 = d.addrs
          BY <4>2 DEF addrs2
        <5> QED
          BY <1>1, <4>2, <5>1
      <4> QED
        BY <4>1, <4>2
    <3>4. cleared \in [Block -> [Entries -> Block \cup {0}]] /\ cleared[nb] = z
          /\ \A a \in Block : a # nb => cleared[a] = d.ind[a]
      BY <1>1, <2>2
    <3>5. \A j \in Entries : z[j] = 0
      OBVIOUS
    <3> HIDE DEF cleared, z
    <3>6. /\ ind2 \in [Block -> [Entries -> Block \cup {0}]]
          /\ \A a \in Block, j \in Entries :
                ind2[a][j] = IF a = nb THEN 0 ELSE IF b # 0 /\ a = b /\ j = p[k + 1] THEN nb ELSE d.ind[a][j]
      <4>1. CASE b = 0
        <5>1. ind2 = cleared
          BY <4>1 DEF ind2
        <5> QED
          BY <3>4, <3>5, <4>1, <5>1
      <4>2. CASE b # 0
        <5>1. ind2 = [cleared EXCEPT ![b][p[k + 1]] = nb]
          BY <4>2 DEF ind2
        <5>2. b \in d.used /\ b \in Block /\ b # nb /\ p[k + 1] \in Entries
          BY <1>1, <1>2, <2>2, <4>2
        <5> QED
          BY <2>2, <3>4, <3>5, <4>2, <5>1, <5>2
      <4> QED
        BY <4>1, <4>2
    <3>7. d2.used \in SUBSET Block /\ d2.freeblock \in Nat
      BY <1>1, <2>2, <3>2
    <3>8. d2 \in Disks
      BY <1>1, <3>1, <3>3, <3>6, <3>7 DEF Disks
    <3> QED
      BY <3>2, <3>3, <3>6, <3>8
  <2>4. par2 = [x \in d.used \cup {nb} |->
                  IF x = nb THEN [file |-> f, up |-> b, at |-> p[k + 1], root |-> p[1], depth |-> k + 1] ELSE par[x]]
    OBVIOUS
  <2> HIDE DEF d2, par2
  <2>5. Hung(d, par, f, p, k, b, nb, d2, par2)
    BY <1>5, <2>2, <2>3, <2>4 DEF Hung
  <2>7. Tree(d2, par2) /\ On(par2, f, p, k + 1, nb)
    BY <2>5, HangIs
  <2>6. Adds(d, par, d2, par2)
    BY <2>2, <2>3, <2>4, <2>7 DEF Adds
  <2> QED
    BY <2>1, <2>3, <2>6, <2>7
<1> QED
  BY <1>3, <1>4, <1>5

-----------------------------------------------------------------------------
(* A whole path                                                            *)

\* How far w is after the k-th call of Child() along path p.
Far(p, k) == IF k > Len(p) THEN Len(p) ELSE k
Reached(d, par, f, p, k, w) ==
    /\ w = [d |-> w.d, b |-> w.b]
    /\ w.b # -1 => \E par2 : Adds(d, par, w.d, par2) /\ w.b \in w.d.used /\ On(par2, f, p, Far(p, k), w.b)

LEMMA ReachOne ==
  ASSUME NEW d, NEW par, Tree(d, par), NEW f \in File, NEW p, Fits(p), NEW nb, Fresh(d, nb)
  PROVE  Reached(d, par, f, p, 1, Child([d |-> d, b |-> 0], f, p[1], nb))
<1> DEFINE w == Child([d |-> d, b |-> 0], f, p[1], nb)
<1>1. Len(p) \in 1..4
  BY DEF Fits
<1>2. PICK n \in 1..4 : n = Len(p)
  BY <1>1
<1>3. PICK k \in 0..3 : k = 0
  OBVIOUS
<1>4. w = Child([d |-> d, b |-> 0], f, p[k + 1], nb)
  BY <1>3
<1> HIDE DEF w
<1>5. /\ w = [d |-> w.d, b |-> w.b]
      /\ w.b # -1 => \E par2 : Adds(d, par, w.d, par2) /\ w.b \in w.d.used /\ On(par2, f, p, k + 1, w.b)
  BY <1>2, <1>3, <1>4, ChildIs
<1>6. Far(p, 1) = k + 1
  BY <1>2, <1>3 DEF Far
<1> QED
  BY <1>5, <1>6 DEF Reached, w

LEMMA ReachMore ==
  ASSUME NEW d, NEW par, NEW f \in File, NEW p, Fits(p), NEW k \in 1..3, NEW w, Reached(d, par, f, p, k, w),
         NEW nb, w.b # -1 => Fresh(w.d, nb),
         NEW w2, w2 = IF k + 1 > Len(p) THEN w ELSE Child(w, f, p[k + 1], nb)
  PROVE  Reached(d, par, f, p, k + 1, w2)
<1>1. PICK n \in 1..4 : n = Len(p)
  BY DEF Fits
<1>2. CASE k + 1 > n
  <2>1. w2 = w /\ Far(p, k) = Far(p, k + 1)
    BY <1>1, <1>2 DEF Far
  <2> QED
    BY <2>1 DEF Reached
<1>3. CASE k + 1 <= n /\ w.b = -1
  <2>1. w2 = w
    BY <1>1, <1>3 DEF Child
  <2> QED
    BY <1>3, <2>1 DEF Reached
<1>4. CASE k + 1 <= n /\ w.b # -1
  <2>1. Far(p, k) = k /\ Far(p, k + 1) = k + 1 /\ k < Len(p) /\ k # 0 /\ k \in 0..3
    BY <1>1, <1>4 DEF Far
  <2>2. PICK par2 : Adds(d, par, w.d, par2) /\ w.b \in w.d.used /\ On(par2, f, p, k, w.b)
    BY <1>4, <2>1 DEF Reached
  <2>3. w = [d |-> w.d, b |-> w.b] /\ w2 = Child(w, f, p[k + 1], nb)
    BY <1>1, <1>4 DEF Reached
  <2> DEFINE e == w.d
             c == w.b
  <2>4. w2 = Child([d |-> e, b |-> c], f, p[k + 1], nb)
    BY <2>3
  <2>5. Tree(e, par2) /\ Fresh(e, nb) /\ c \in e.used /\ On(par2, f, p, k, c)
    BY <1>4, <2>2 DEF Adds
  <2> HIDE DEF e, c
  <2>6. /\ w2 = [d |-> w2.d, b |-> w2.b]
        /\ w2.b # -1 => \E par3 : Adds(e, par2, w2.d, par3) /\ w2.b \in w2.d.used /\ On(par3, f, p, k + 1, w2.b)
    BY <2>1, <2>4, <2>5, ChildIs
  <2>7. ASSUME w2.b # -1
        PROVE  \E par3 : Adds(d, par, w2.d, par3) /\ w2.b \in w2.d.used /\ On(par3, f, p, k + 1, w2.b)
    <3>1. PICK par3 : Adds(e, par2, w2.d, par3) /\ w2.b \in w2.d.used /\ On(par3, f, p, k + 1, w2.b)
      BY <2>6, <2>7
    <3>2. Adds(d, par, w2.d, par3)
      BY <2>2, <3>1, AddsMore DEF e
    <3> QED
      BY <3>1, <3>2
  <2> QED
    BY <2>1, <2>6, <2>7 DEF Reached
<1> QED
  BY <1>1, <1>2, <1>3, <1>4

\* After four calls, with what the kernel's allocator, or mkfs's, gives, the path is at its end.
LEMMA BmapIs ==
  ASSUME NEW d, NEW par, Tree(d, par), NEW f \in File, NEW bn \in Nat, bn < MAXFILE, d.booted
  PROVE  Reached(d, par, f, Path(bn), 4, bmap(d, f, bn))
<1> DEFINE p == Path(bn)
           w1 == Child([d |-> d, b |-> 0], f, p[1], balloc(d))
           w2 == IF 2 > Len(p) THEN w1 ELSE Child(w1, f, p[2], balloc(w1.d))
           w3 == IF 3 > Len(p) THEN w2 ELSE Child(w2, f, p[3], balloc(w2.d))
           w4 == IF 4 > Len(p) THEN w3 ELSE Child(w3, f, p[4], balloc(w3.d))
<1>1. Fits(p)
  BY PathFits
<1>2. bmap(d, f, bn) = w4
  <2>1. Len(p) \in 1..4 /\ ~(1 > Len(p))
    BY <1>1 DEF Fits
  <2> QED
    BY <2>1 DEF bmap, Descend
<1> HIDE DEF p
<1>3. \A w, k : Reached(d, par, f, p, k, w) /\ w.b # -1 => Fresh(w.d, balloc(w.d))
  BY AllocIs DEF Reached, Adds
<1>4. Reached(d, par, f, p, 1, w1)
  BY <1>1, AllocIs, ReachOne
<1> HIDE DEF w1
<1>5. Reached(d, par, f, p, 2, w2)
  <2>1. PICK k \in 1..3 : k = 1
    OBVIOUS
  <2>2. w2 = IF k + 1 > Len(p) THEN w1 ELSE Child(w1, f, p[k + 1], balloc(w1.d))
    BY <2>1
  <2>3. Reached(d, par, f, p, k, w1)
    BY <1>4, <2>1
  <2>4. Reached(d, par, f, p, k + 1, w2)
    BY <1>1, <1>3, <2>2, <2>3, ReachMore
  <2> QED
    BY <2>1, <2>4
<1> HIDE DEF w2
<1>6. Reached(d, par, f, p, 3, w3)
  <2>1. PICK k \in 1..3 : k = 2
    OBVIOUS
  <2>2. w3 = IF k + 1 > Len(p) THEN w2 ELSE Child(w2, f, p[k + 1], balloc(w2.d))
    BY <2>1
  <2>3. Reached(d, par, f, p, k, w2)
    BY <1>5, <2>1
  <2>4. Reached(d, par, f, p, k + 1, w3)
    BY <1>1, <1>3, <2>2, <2>3, ReachMore
  <2> QED
    BY <2>1, <2>4
<1> HIDE DEF w3
<1>7. Reached(d, par, f, p, 4, w4)
  <2>1. PICK k \in 1..3 : k = 3
    OBVIOUS
  <2>2. w4 = IF k + 1 > Len(p) THEN w3 ELSE Child(w3, f, p[k + 1], balloc(w3.d))
    BY <2>1
  <2>3. Reached(d, par, f, p, k, w3)
    BY <1>6, <2>1
  <2>4. Reached(d, par, f, p, k + 1, w4)
    BY <1>1, <1>3, <2>2, <2>3, ReachMore
  <2> QED
    BY <2>1, <2>4
<1> QED
  BY <1>2, <1>7 DEF p

LEMMA AppendIs ==
  ASSUME NEW d, NEW par, Tree(d, par), NEW f \in File, NEW bn \in Nat, bn < MAXFILE, ~d.booted
  PROVE  Reached(d, par, f, Path(bn), 4, appendblock(d, f, bn))
<1> DEFINE p == Path(bn)
           w1 == Child([d |-> d, b |-> 0], f, p[1], freeblock(d))
           w2 == IF 2 > Len(p) THEN w1 ELSE Child(w1, f, p[2], freeblock(w1.d))
           w3 == IF 3 > Len(p) THEN w2 ELSE Child(w2, f, p[3], freeblock(w2.d))
           w4 == IF 4 > Len(p) THEN w3 ELSE Child(w3, f, p[4], freeblock(w3.d))
<1>1. Fits(p)
  BY PathFits
<1>2. appendblock(d, f, bn) = w4
  <2>1. Len(p) \in 1..4 /\ ~(1 > Len(p))
    BY <1>1 DEF Fits
  <2> QED
    BY <2>1 DEF appendblock, Descend
<1> HIDE DEF p
<1>3. \A w, k : Reached(d, par, f, p, k, w) /\ w.b # -1 => Fresh(w.d, freeblock(w.d))
  BY AllocIs DEF Reached, Adds
<1>4. Reached(d, par, f, p, 1, w1)
  BY <1>1, AllocIs, ReachOne
<1> HIDE DEF w1
<1>5. Reached(d, par, f, p, 2, w2)
  <2>1. PICK k \in 1..3 : k = 1
    OBVIOUS
  <2>2. w2 = IF k + 1 > Len(p) THEN w1 ELSE Child(w1, f, p[k + 1], freeblock(w1.d))
    BY <2>1
  <2>3. Reached(d, par, f, p, k, w1)
    BY <1>4, <2>1
  <2>4. Reached(d, par, f, p, k + 1, w2)
    BY <1>1, <1>3, <2>2, <2>3, ReachMore
  <2> QED
    BY <2>1, <2>4
<1> HIDE DEF w2
<1>6. Reached(d, par, f, p, 3, w3)
  <2>1. PICK k \in 1..3 : k = 2
    OBVIOUS
  <2>2. w3 = IF k + 1 > Len(p) THEN w2 ELSE Child(w2, f, p[k + 1], freeblock(w2.d))
    BY <2>1
  <2>3. Reached(d, par, f, p, k, w2)
    BY <1>5, <2>1
  <2>4. Reached(d, par, f, p, k + 1, w3)
    BY <1>1, <1>3, <2>2, <2>3, ReachMore
  <2> QED
    BY <2>1, <2>4
<1> HIDE DEF w3
<1>7. Reached(d, par, f, p, 4, w4)
  <2>1. PICK k \in 1..3 : k = 3
    OBVIOUS
  <2>2. w4 = IF k + 1 > Len(p) THEN w3 ELSE Child(w3, f, p[k + 1], freeblock(w3.d))
    BY <2>1
  <2>3. Reached(d, par, f, p, k, w3)
    BY <1>6, <2>1
  <2>4. Reached(d, par, f, p, k + 1, w4)
    BY <1>1, <1>3, <2>2, <2>3, ReachMore
  <2> QED
    BY <2>1, <2>4
<1> QED
  BY <1>2, <1>7 DEF p

-----------------------------------------------------------------------------
(* Contents                                                                *)

\* ReadsBack of a state.
Reads(d) == \A f \in File : \A bn \in 0..(d.size[f] - 1) : Lookup(d, f, bn) # 0 /\ d.data[Lookup(d, f, bn)] = <<f, bn>>

\* Writing block bn where its path ends keeps the other blocks, and no file has a hole.
LEMMA WriteReads ==
  ASSUME NEW d, NEW par, Tree(d, par), Reads(d), NEW d2, NEW par2, Adds(d, par, d2, par2),
         NEW f \in File, NEW bn \in Nat, bn <= d.size[f], bn < MAXFILE,
         NEW b \in d2.used, On(par2, f, Path(bn), Len(Path(bn)), b),
         NEW d3, d3 \in Disks, d3.addrs = d2.addrs, d3.ind = d2.ind, d3.used = d2.used, d3.booted = d2.booted,
         ~d2.booted => d3.freeblock = d2.freeblock,
         d3.data = [d.data EXCEPT ![b] = <<f, bn>>],
         d3.size = [d.size EXCEPT ![f] = IF bn = @ THEN bn + 1 ELSE @]
  PROVE  Tree(d3, par2) /\ Reads(d3)
<1>1. Tree(d2, par2) /\ d.used \subseteq d2.used /\ \A x \in d.used : par2[x] = par[x]
  BY DEF Adds
<1>2. Tree(d3, par2)
  <2>1. Clear(d3)
    BY <1>1 DEF Tree, Clear
  <2>2. Forest(d3, par2)
    BY <1>1 DEF Tree, Forest, Hangs, Links
  <2> QED
    BY <2>1, <2>2 DEF Tree
<1>3. d.size \in [File -> 0..MAXFILE] /\ d.data \in [Block -> (File \cup {0}) \X Nat] /\ d.used \subseteq Block
      /\ b \in Block /\ d2.used \subseteq Block
  BY <1>1, StateIs
<1>4. Lookup(d3, f, bn) = b /\ b # 0
  <2>1. b \in d3.used /\ bn \in Nat /\ bn < MAXFILE /\ f \in File
    OBVIOUS
  <2>2. Lookup(d3, f, bn) = b
    BY <1>2, <2>1, LookupIs
  <2>3. b # 0
    BY <1>2, <2>1, LinkIs
  <2> QED
    BY <2>2, <2>3
<1>5. Fits(Path(bn)) /\ BlockAt(Path(bn)) = bn
  BY PathFits
<1>6. ASSUME NEW g \in File, NEW bm \in 0..(d3.size[g] - 1)
      PROVE  Lookup(d3, g, bm) # 0 /\ d3.data[Lookup(d3, g, bm)] = <<g, bm>>
  <2>1. CASE g = f /\ bm = bn
    BY <1>3, <1>4, <2>1
  <2>2. CASE ~(g = f /\ bm = bn)
    <3>1. bm \in 0..(d.size[g] - 1) /\ bm \in Nat /\ bm < MAXFILE
      <4>1. d.size[g] \in 0..MAXFILE /\ d.size[f] \in 0..MAXFILE
        BY <1>3
      <4>2. CASE g = f
        <5>1. d3.size[g] = IF bn = d.size[g] THEN bn + 1 ELSE d.size[g]
          BY <1>3, <4>2
        <5> QED
          BY <1>6, <2>2, <4>1, <4>2, <5>1, Sizes
      <4>3. CASE g # f
        <5>1. d3.size[g] = d.size[g]
          BY <1>3, <4>3
        <5> QED
          BY <1>6, <4>1, <5>1, Sizes
      <4> QED
        BY <4>2, <4>3
    <3> DEFINE c == Lookup(d, g, bm)
               q == Path(bm)
               p == Path(bn)
    <3>2. c # 0 /\ d.data[c] = <<g, bm>>
      BY <3>1 DEF Reads
    <3>3. c \in d.used /\ On(par, g, q, Len(q), c)
      BY <3>1, <3>2, LookupIs
    <3>4. Fits(q) /\ BlockAt(q) = bm
      BY <3>1, PathFits
    <3>5. Len(q) \in 1..4 /\ Len(p) \in 1..4
      BY <1>5, <3>4 DEF Fits
    <3> HIDE DEF c, q, p
    <3>10. PICK l \in 1..4, k \in 1..4 : l = Len(q) /\ k = Len(p)
      BY <3>5
    <3>6. c \in d2.used /\ On(par2, g, q, l, c)
      <4>1. c \in d.used /\ On(par, g, q, l, c) /\ \A x \in d.used : par2[x] = par[x]
        BY <1>1, <3>3, <3>10
      <4>2. On(par2, g, q, l, c)
        BY <4>1, OnStays
      <4> QED
        BY <1>1, <4>1, <4>2
    <3>7. Lookup(d3, g, bm) = c
      <4>1. c \in d3.used /\ On(par2, g, Path(bm), Len(Path(bm)), c)
        BY <3>6, <3>10 DEF q
      <4> QED
        BY <1>2, <3>1, <4>1, LookupIs
    <3>8. ASSUME c = b
          PROVE  FALSE
      <4>1. On(par2, f, p, k, c)
        BY <3>8, <3>10 DEF p
      <4>2. f = g /\ k = l /\ \A j \in 1..k : p[j] = q[j]
        BY <1>1, <3>6, <4>1, OnSame
      <4>3. BlockAt(p) = BlockAt(q)
        <5>1. CASE k = 1
          BY <3>10, <4>2, <5>1 DEF BlockAt
        <5>2. CASE k = 2
          BY <3>10, <4>2, <5>2 DEF BlockAt
        <5>3. CASE k = 3
          BY <3>10, <4>2, <5>3 DEF BlockAt
        <5>4. CASE k = 4
          BY <3>10, <4>2, <5>4 DEF BlockAt
        <5> QED
          BY <5>1, <5>2, <5>3, <5>4
      <4> QED
        BY <1>5, <2>2, <3>4, <4>2, <4>3 DEF p
    <3>9. d3.data[c] = d.data[c]
      BY <1>3, <3>3, <3>8
    <3> QED
      BY <3>2, <3>7, <3>9
  <2> QED
    BY <2>1, <2>2
<1> QED
  BY <1>2, <1>6 DEF Reads

-----------------------------------------------------------------------------
(* What a file owns                                                        *)

\* The blocks below an index block hang in its entries.
LEMMA BelowIs ==
  ASSUME NEW d, NEW par, Tree(d, par), NEW a \in d.used
  PROVE  Below(d, a) = {b \in d.used : par[b].up = a}
<1>1. a # 0
  BY LinkIs
<1>2. ASSUME NEW b \in Below(d, a)
      PROVE  b \in d.used /\ par[b].up = a
  BY <1>2 DEF Below, Tree, Forest
<1>3. ASSUME NEW b \in d.used, par[b].up = a
      PROVE  b \in Below(d, a)
  <2>1. b # 0 /\ par[b].at \in Entries /\ d.ind[a][par[b].at] = b
    BY <1>1, <1>3, LinkIs
  <2> QED
    BY <2>1 DEF Below
<1> QED
  BY <1>2, <1>3

LEMMA LevelIs ==
  ASSUME NEW i \in 0..(NADDRS - 1)
  PROVE  Level(i) \in 0..3
<1>1. CASE i < NDIRECT
  BY <1>1, Sizes DEF Level
<1>2. CASE i >= NDIRECT /\ i < NDIRECT + NSINDIRECT
  BY <1>2, Sizes DEF Level
<1>3. CASE i >= NDIRECT + NSINDIRECT /\ i < NADDRS - 1
  BY <1>3, Sizes DEF Level, NADDRS
<1>4. CASE i = NADDRS - 1
  BY <1>4, Sizes DEF Level, NADDRS
<1> QED
  BY <1>1, <1>2, <1>3, <1>4, Sizes

\* bfreeindirect() on an address of the inode visits all that hangs below it.
LEMMA TreeBelow ==
  ASSUME NEW d, NEW par, Tree(d, par), NEW f \in File, NEW i \in 0..(NADDRS - 1), d.addrs[f][i] # 0
  PROVE  bfreeindirect(d, d.addrs[f][i], Level(i)) = {b \in d.used : par[b].file = f /\ par[b].root = i}
<1> DEFINE a == d.addrs[f][i]
           S == {b \in d.used : par[b].file = f /\ par[b].root = i}
           one(x) == {x} \cup Below(d, x)
           two(x) == {x} \cup UNION {one(c) : c \in Below(d, x)}
           three(x) == {x} \cup UNION {two(c) : c \in Below(d, x)}
<1>1. a \in d.used /\ par[a].up = 0 /\ par[a].file = f /\ par[a].root = i
  BY DEF Tree, Forest
<1>2. PICK l \in 0..3 : l = Level(i)
  BY LevelIs
<1>3. \A b \in S : /\ b \in d.used /\ b # 0 /\ par[b].depth \in 1..4 /\ par[b].depth <= l + 1
                   /\ par[b].up = 0 => b = a /\ par[b].depth = 1
                   /\ par[b].up # 0 => par[b].up \in S /\ par[b].depth = par[par[b].up].depth + 1
  <2> SUFFICES ASSUME NEW b \in S
               PROVE  /\ b \in d.used /\ b # 0 /\ par[b].depth \in 1..4 /\ par[b].depth <= l + 1
                      /\ par[b].up = 0 => b = a /\ par[b].depth = 1
                      /\ par[b].up # 0 => par[b].up \in S /\ par[b].depth = par[par[b].up].depth + 1
    OBVIOUS
  <2> QED
    BY <1>2, LinkIs
<1>4. \A b \in d.used : par[b].up \in S => b \in S
  BY LinkIs
<1>5. a \in S
  BY <1>1
<1>6. \A x \in S : Below(d, x) = {b \in d.used : par[b].up = x}
  BY BelowIs
<1>7. \A x \in S : Below(d, x) \subseteq S
  BY <1>4, <1>6
<1> HIDE DEF S, a
<1>8. \A b \in S : par[b].depth = 1 => b = a
  BY <1>3
<1>9. \A b \in S : par[b].depth = 2 => b \in Below(d, a)
  BY <1>3, <1>6, <1>8
<1>10. \A b \in S : par[b].depth = 3 => \E c \in Below(d, a) : b \in Below(d, c)
  <2> SUFFICES ASSUME NEW b \in S, par[b].depth = 3
               PROVE  \E c \in Below(d, a) : b \in Below(d, c)
    OBVIOUS
  <2>1. par[b].up \in S /\ par[par[b].up].depth = 2
    BY <1>3
  <2> QED
    BY <1>3, <1>6, <1>9, <2>1
<1>11. \A b \in S : par[b].depth = 4 => \E c \in Below(d, a) : \E e \in Below(d, c) : b \in Below(d, e)
  <2> SUFFICES ASSUME NEW b \in S, par[b].depth = 4
               PROVE  \E c \in Below(d, a) : \E e \in Below(d, c) : b \in Below(d, e)
    OBVIOUS
  <2>1. par[b].up \in S /\ par[par[b].up].depth = 3
    BY <1>3
  <2> QED
    BY <1>3, <1>6, <1>10, <2>1
<1>12. \A x \in S : one(x) \subseteq S
  BY <1>7
<1>13. \A x \in S : two(x) \subseteq S
  BY <1>7
<1>14. three(a) \subseteq S
  BY <1>5, <1>7
<1>15. \A b \in S : \/ par[b].depth = 1
                    \/ l >= 1 /\ par[b].depth = 2
                    \/ l >= 2 /\ par[b].depth = 3
                    \/ l >= 3 /\ par[b].depth = 4
  BY <1>3
<1>16. CASE l = 0
  <2>1. bfreeindirect(d, a, l) = {a}
    BY <1>16 DEF bfreeindirect
  <2>2. S \subseteq {a}
    BY <1>8, <1>15, <1>16
  <2> QED
    BY <1>2, <1>5, <2>1, <2>2 DEF S, a
<1>17. CASE l = 1
  <2>1. bfreeindirect(d, a, l) = one(a)
    BY <1>17 DEF bfreeindirect
  <2>2. S \subseteq one(a)
    BY <1>8, <1>9, <1>15, <1>17
  <2> QED
    BY <1>2, <1>5, <1>12, <2>1, <2>2 DEF S, a
<1>18. CASE l = 2
  <2>1. bfreeindirect(d, a, l) = two(a)
    BY <1>18 DEF bfreeindirect
  <2>2. S \subseteq two(a)
    BY <1>8, <1>9, <1>10, <1>15, <1>18
  <2> QED
    BY <1>2, <1>5, <1>13, <2>1, <2>2 DEF S, a
<1>19. CASE l = 3
  <2>1. bfreeindirect(d, a, l) = three(a)
    BY <1>19 DEF bfreeindirect
  <2>2. S \subseteq three(a)
    BY <1>8, <1>9, <1>10, <1>11, <1>15, <1>19
  <2> QED
    BY <1>2, <1>5, <1>14, <2>1, <2>2 DEF S, a
<1> QED
  BY <1>2, <1>16, <1>17, <1>18, <1>19

\* itrunc() finds all blocks of its file, and no other's.
LEMMA OwnedIs ==
  ASSUME NEW d, NEW par, Tree(d, par), NEW f \in File
  PROVE  Owned(d, f) = {b \in d.used : par[b].file = f}
<1> DEFINE S(i) == {b \in d.used : par[b].file = f /\ par[b].root = i}
           I == {j \in 0..(NADDRS - 1) : d.addrs[f][j] # 0}
<1>1. \A i \in I : bfreeindirect(d, d.addrs[f][i], Level(i)) = S(i)
  BY TreeBelow
<1>2. Owned(d, f) = UNION {S(i) : i \in I}
  BY <1>1 DEF Owned
<1>3. \A b \in d.used : par[b].root \in 0..(NADDRS - 1)
  BY LinkIs
<1>4. ASSUME NEW b \in d.used, par[b].file = f
      PROVE  par[b].root \in I
  <2>0. par[b].root \in 0..(NADDRS - 1)
    BY <1>3
  <2> DEFINE r == par[b].root
             S1 == {c \in d.used : par[c].file = f /\ par[c].root = r}
  <2>1. \A c \in S1 : par[c].root = r /\ par[c].depth \in 1..4 /\ c # 0
                      /\ (par[c].up = 0 => d.addrs[f][r] = c)
                      /\ (par[c].up # 0 => par[c].up \in S1 /\ par[c].depth = par[par[c].up].depth + 1)
    <3> SUFFICES ASSUME NEW c \in S1
                 PROVE  par[c].root = r /\ par[c].depth \in 1..4 /\ c # 0
                        /\ (par[c].up = 0 => d.addrs[f][r] = c)
                        /\ (par[c].up # 0 => par[c].up \in S1 /\ par[c].depth = par[par[c].up].depth + 1)
      OBVIOUS
    <3> QED
      BY LinkIs
  <2>2. b \in S1
    BY <1>4
  <2> HIDE DEF S1, r
  <2>3. \A c \in S1 : par[c].depth = 1 => d.addrs[f][r] # 0
    BY <2>1
  <2>4. \A c \in S1 : par[c].depth = 2 => d.addrs[f][r] # 0
    BY <2>1, <2>3
  <2>5. \A c \in S1 : par[c].depth = 3 => d.addrs[f][r] # 0
    BY <2>1, <2>4
  <2>6. \A c \in S1 : par[c].depth = 4 => d.addrs[f][r] # 0
    BY <2>1, <2>5
  <2> QED
    BY <2>1, <2>2, <2>3, <2>4, <2>5, <2>6, <2>0 DEF r
<1> QED
  BY <1>2, <1>4

\* The bitmap and the trees agree.
LEMMA TreeExact ==
  ASSUME NEW d, NEW par, Tree(d, par)
  PROVE  /\ d.used = UNION {Owned(d, f) : f \in File}
         /\ \A f, g \in File : f # g => Owned(d, f) \cap Owned(d, g) = {}
<1>1. \A f \in File : Owned(d, f) = {b \in d.used : par[b].file = f}
  BY OwnedIs
<1>2. \A b \in d.used : par[b].file \in File
  BY LinkIs
<1> QED
  BY <1>1, <1>2

\* A step that leaves the blocks alone.
LEMMA SameReads ==
  ASSUME NEW d, NEW par, Tree(d, par), Reads(d), NEW d2, d2 \in Disks,
         d2.addrs = d.addrs, d2.ind = d.ind, d2.used = d.used, d2.size = d.size, d2.data = d.data,
         ~d2.booted => ~d.booted /\ d2.freeblock = d.freeblock
  PROVE  Tree(d2, par) /\ Reads(d2)
<1>1. Clear(d2)
  BY DEF Tree, Clear
<1>2. Forest(d2, par)
  BY DEF Tree, Forest, Hangs, Links
<1>3. \A f, bn : Lookup(d2, f, bn) = Lookup(d, f, bn)
  BY DEF Lookup
<1> QED
  BY <1>1, <1>2, <1>3 DEF Tree, Reads

\* The state d2 after f is truncated.
Truncated(d, par, f, d2) ==
    /\ Tree(d, par) /\ Reads(d) /\ d.booted /\ f \in File
    /\ d2 \in Disks /\ d2.booted /\ d2.used = d.used \ Owned(d, f) /\ d2.size = [d.size EXCEPT ![f] = 0]
    /\ d2.addrs = [d.addrs EXCEPT ![f] = [i \in 0..(NADDRS - 1) |-> 0]]
    /\ d2.ind = [b \in Block |-> IF b \in Owned(d, f) THEN [i \in Entries |-> 0] ELSE d.ind[b]]
    /\ d2.data = [b \in Block |-> IF b \in Owned(d, f) THEN <<0, 0>> ELSE d.data[b]]

\* Truncation takes the blocks of one file away, and the entries that named them.
LEMMA TruncReads ==
  ASSUME NEW d, NEW par, NEW f, NEW d2, Truncated(d, par, f, d2)
  PROVE  Tree(d2, par) /\ Reads(d2)
<1>0. /\ Tree(d, par) /\ Reads(d) /\ d.booted /\ f \in File
      /\ d2 \in Disks /\ d2.booted /\ d2.used = d.used \ Owned(d, f) /\ d2.size = [d.size EXCEPT ![f] = 0]
      /\ d2.addrs = [d.addrs EXCEPT ![f] = [i \in 0..(NADDRS - 1) |-> 0]]
      /\ d2.ind = [b \in Block |-> IF b \in Owned(d, f) THEN [i \in Entries |-> 0] ELSE d.ind[b]]
      /\ d2.data = [b \in Block |-> IF b \in Owned(d, f) THEN <<0, 0>> ELSE d.data[b]]
  BY DEF Truncated
<1> USE <1>0
<1>1. Owned(d, f) = {b \in d.used : par[b].file = f}
  BY OwnedIs
<1>2. /\ d.used \subseteq Block /\ d.size \in [File -> 0..MAXFILE]
      /\ d.addrs \in [File -> [0..(NADDRS - 1) -> Block \cup {0}]] /\ 0 \notin Block
  BY StateIs
<1>3. \A b \in d2.used : b \in d.used /\ b \in Block /\ par[b].file # f /\ d2.ind[b] = d.ind[b] /\ d2.data[b] = d.data[b]
  BY <1>1, <1>2
<1>4. \A g \in File : g # f => d2.addrs[g] = d.addrs[g] /\ d2.size[g] = d.size[g]
  BY <1>2
<1>5. \A i \in 0..(NADDRS - 1) : d2.addrs[f][i] = 0
  BY <1>2
<1>6. d2.size[f] = 0
  BY <1>2
<1>7. Clear(d2)
  <2>1. ASSUME NEW b \in Block \ d2.used, NEW j \in Entries
        PROVE  d2.ind[b][j] = 0
    <3>1. CASE b \in Owned(d, f)
      BY <3>1
    <3>2. CASE b \notin Owned(d, f)
      <4>1. b \in Block \ d.used /\ d2.ind[b] = d.ind[b]
        BY <3>2
      <4> QED
        BY <4>1 DEF Tree, Clear
    <3> QED
      BY <3>1, <3>2
  <2> QED
    BY <2>1 DEF Clear
<1>8. ASSUME NEW b \in d2.used
      PROVE  Hangs(d2, par, b)
  <2> DEFINE l == par[b]
  <2>1. /\ b \in d.used /\ l.file # f /\ l \in Links(d) /\ l.file \in File /\ l.depth <= Level(l.root) + 1
        /\ l.up \in d.used \cup {0}
        /\ l.up = 0 => l.depth = 1 /\ l.at = l.root /\ d.addrs[l.file][l.root] = b
        /\ l.up # 0 => /\ l.up \in d.used /\ par[l.up].file = l.file /\ par[l.up].root = l.root
                       /\ l.depth = par[l.up].depth + 1 /\ l.at \in Entries /\ d.ind[l.up][l.at] = b
    <3>1. b \in d.used /\ par[b].file # f /\ Tree(d, par)
      BY <1>3
    <3> HIDE <1>0
    <3> QED
      BY <3>1, LinkIs
  <2> HIDE DEF l
  <2>2. l.up # 0 => l.up \in d2.used
    BY <1>1, <2>1
  <2>3. l \in Links(d2)
    BY <2>1, <2>2 DEF Links
  <2>4. l.up # 0 => d2.ind[l.up][l.at] = b
    BY <1>3, <2>1, <2>2
  <2>5. l.up = 0 => d2.addrs[l.file][l.root] = b
    BY <1>4, <2>1
  <2> QED
    BY <2>1, <2>3, <2>4, <2>5 DEF Hangs, l
<1>9. ASSUME NEW g \in File, NEW i \in 0..(NADDRS - 1), d2.addrs[g][i] # 0
      PROVE  d2.addrs[g][i] \in d2.used /\ par[d2.addrs[g][i]].up = 0 /\ par[d2.addrs[g][i]].file = g
             /\ par[d2.addrs[g][i]].root = i
  <2>1. g # f /\ d2.addrs[g][i] = d.addrs[g][i]
    BY <1>4, <1>5, <1>9
  <2>2. d.addrs[g][i] \in d.used /\ par[d.addrs[g][i]].up = 0 /\ par[d.addrs[g][i]].file = g /\ par[d.addrs[g][i]].root = i
    BY <1>9, <2>1 DEF Tree, Forest
  <2> QED
    BY <1>1, <2>1, <2>2
<1>10. ASSUME NEW a \in d2.used, NEW j \in Entries, d2.ind[a][j] # 0
       PROVE  d2.ind[a][j] \in d2.used /\ par[d2.ind[a][j]].up = a /\ par[d2.ind[a][j]].at = j
  <2>1. a \in d.used /\ par[a].file # f /\ d2.ind[a][j] = d.ind[a][j] /\ a # 0
    BY <1>2, <1>3
  <2>2. d.ind[a][j] \in d.used /\ par[d.ind[a][j]].up = a /\ par[d.ind[a][j]].at = j
    BY <1>10, <2>1 DEF Tree, Forest
  <2>3. par[d.ind[a][j]].file # f
    BY <2>1, <2>2, LinkIs
  <2> QED
    BY <1>1, <2>1, <2>2, <2>3
<1>11. Tree(d2, par)
  BY <1>7, <1>8, <1>9, <1>10 DEF Tree, Forest
<1>12. ASSUME NEW g \in File, NEW bm \in 0..(d2.size[g] - 1)
       PROVE  Lookup(d2, g, bm) # 0 /\ d2.data[Lookup(d2, g, bm)] = <<g, bm>>
  <2>1. g # f
    BY <1>6, <1>12
  <2>2. bm \in 0..(d.size[g] - 1) /\ bm \in Nat /\ bm < MAXFILE
    <3>1. d2.size[g] = d.size[g] /\ d.size[g] \in 0..MAXFILE
      BY <1>2, <1>4, <2>1
    <3> QED
      BY <1>12, <3>1, Sizes
  <2> DEFINE c == Lookup(d, g, bm)
             q == Path(bm)
  <2>3. c # 0 /\ d.data[c] = <<g, bm>>
    BY <2>2 DEF Reads
  <2>4. c \in d.used /\ On(par, g, q, Len(q), c)
    BY <2>2, <2>3, LookupIs
  <2>5. Len(q) \in 1..4
    BY <2>2, PathFits DEF Fits
  <2> HIDE DEF c, q
  <2>6. PICK l \in 1..4 : l = Len(q)
    BY <2>5
  <2>7. par[c].file = g
    <3>1. c \in d.used /\ On(par, g, q, l, c)
      BY <2>4, <2>6
    <3> QED
      BY <3>1, OnIs
  <2>8. c \in d2.used
    BY <1>1, <2>1, <2>4, <2>7
  <2>9. Lookup(d2, g, bm) = c
    BY <1>11, <2>2, <2>4, <2>8, LookupIs DEF q
  <2> QED
    BY <1>3, <2>3, <2>8, <2>9
<1> QED
  BY <1>11, <1>12 DEF Reads

-----------------------------------------------------------------------------
(* The actions                                                             *)

\* The state d3 after block bn of f is written in b, the blocks on the way to it linked in d2.
Wrote(d, par, d2, par2, f, bn, b, d3) ==
    /\ Tree(d, par) /\ Reads(d) /\ Adds(d, par, d2, par2) /\ f \in File /\ bn \in Nat /\ bn <= d.size[f] /\ bn < MAXFILE
    /\ b \in d2.used /\ On(par2, f, Path(bn), Len(Path(bn)), b)
    /\ d3 \in Disks /\ d3.addrs = d2.addrs /\ d3.ind = d2.ind /\ d3.used = d2.used /\ d3.booted = d2.booted
    /\ ~d2.booted => d3.freeblock = d2.freeblock
    /\ d3.data = [d.data EXCEPT ![b] = <<f, bn>>]
    /\ d3.size = [d.size EXCEPT ![f] = IF bn = @ THEN bn + 1 ELSE @]
LEMMA WroteReads ==
  ASSUME NEW d, NEW par, NEW d2, NEW par2, NEW f, NEW bn, NEW b, NEW d3, Wrote(d, par, d2, par2, f, bn, b, d3)
  PROVE  Tree(d3, par2) /\ Reads(d3)
BY WriteReads DEF Wrote

LEMMA InitGrown == FilesInit => Grown
<1> SUFFICES ASSUME FilesInit
             PROVE  Grown
  OBVIOUS
<1>1. /\ fs.booted = FALSE /\ fs.truncs = 0 /\ fs.panicked = FALSE /\ fs.freeblock = 1 /\ fs.used = {}
      /\ fs.addrs = [f \in File |-> [i \in 0..(NADDRS - 1) |-> 0]] /\ fs.size = [f \in File |-> 0]
      /\ fs.ind = [b \in Block |-> [i \in Entries |-> 0]] /\ fs.data = [b \in Block |-> <<0, 0>>]
  BY DEF FilesInit
<1>2. fs \in Disks
  <2>1. 0 \in 0..MAXFILE /\ <<0, 0>> \in (File \cup {0}) \X Nat
    BY Sizes
  <2> QED
    BY <2>1 DEF FilesInit, Disks
<1>3. Clear(fs)
  BY <1>1, Sizes DEF Clear
<1>4. Forest(fs, <<>>)
  BY <1>1, Sizes DEF Forest, Block
<1>5. ReadsBack
  BY <1>1 DEF ReadsBack
<1> QED
  BY <1>2, <1>3, <1>4, <1>5 DEF Grown, Tree

LEMMA FarIs ==
  ASSUME NEW bn \in Nat, bn < MAXFILE
  PROVE  Far(Path(bn), 4) = Len(Path(bn))
<1>1. Len(Path(bn)) \in 1..4
  BY PathFits DEF Fits
<1>2. PICK n \in 1..4 : n = Len(Path(bn))
  BY <1>1
<1> QED
  BY <1>2 DEF Far

LEMMA ReadsIs == ReadsBack <=> Reads(fs)
BY DEF ReadsBack, Reads

LEMMA ReadsIsNext == ReadsBack' <=> Reads(fs')
BY DEF ReadsBack, Reads

\* mkfs appends a block.
LEMMA AppendGrown ==
  ASSUME Grown, NEW f \in File, iappend(f)
  PROVE  Grown'
<1> DEFINE bn == fs.size[f]
           w == appendblock(fs, f, bn)
<1>1. PICK par : Tree(fs, par)
  BY DEF Grown
<1>2. Reads(fs) /\ fs \in Disks /\ fs.size \in [File -> 0..MAXFILE] /\ fs.data \in [Block -> (File \cup {0}) \X Nat]
  BY <1>1, ReadsIs, StateIs DEF Grown
<1>3. bn \in Nat /\ bn < MAXFILE /\ ~fs.booted /\ w.b # -1 /\ fs' = [w.d EXCEPT !.size[f] = bn + 1, !.data[w.b] = <<f, bn>>]
  BY <1>2, Sizes DEF iappend
<1> HIDE DEF bn, w
<1>4. Reached(fs, par, f, Path(bn), 4, w)
  BY <1>1, <1>3, AppendIs DEF w
<1>5. PICK par2 : Adds(fs, par, w.d, par2) /\ w.b \in w.d.used /\ On(par2, f, Path(bn), Far(Path(bn), 4), w.b)
  BY <1>3, <1>4 DEF Reached
<1> DEFINE e == w.d
           b == w.b
<1>6. /\ e \in Disks /\ e.size = fs.size /\ e.data = fs.data /\ e.booted = fs.booted /\ b \in Block /\ b \in e.used
  BY <1>5, StateIs DEF Adds
<1>7. fs' = [e EXCEPT !.size = [e.size EXCEPT ![f] = bn + 1], !.data = [e.data EXCEPT ![b] = <<f, bn>>]]
  BY <1>3
<1>8. On(par2, f, Path(bn), Len(Path(bn)), b)
  BY <1>3, <1>5, FarIs
<1>9. Adds(fs, par, e, par2)
  BY <1>5
<1> HIDE DEF e, b
<1>10. /\ fs'.addrs = e.addrs /\ fs'.ind = e.ind /\ fs'.used = e.used /\ fs'.booted = e.booted
       /\ fs'.freeblock = e.freeblock /\ fs'.truncs = e.truncs /\ fs'.panicked = e.panicked
       /\ fs'.data = [fs.data EXCEPT ![b] = <<f, bn>>] /\ fs'.size = [fs.size EXCEPT ![f] = bn + 1]
  BY <1>6, <1>7 DEF Disks
<1>11. fs' \in Disks
  <2>1. bn + 1 \in 0..MAXFILE /\ <<f, bn>> \in (File \cup {0}) \X Nat
    BY <1>3, Sizes
  <2>2. fs'.data \in [Block -> (File \cup {0}) \X Nat] /\ fs'.size \in [File -> 0..MAXFILE]
    BY <1>2, <1>6, <1>10, <2>1
  <2> QED
    BY <1>6, <1>7, <1>10, <2>2 DEF Disks
<1>12. fs'.size = [fs.size EXCEPT ![f] = IF bn = @ THEN bn + 1 ELSE @]
  BY <1>10 DEF bn
<1>13. Tree(fs', par2) /\ Reads(fs')
  <2>1. bn <= fs.size[f]
    BY <1>3 DEF bn
  <2>2. /\ fs'.addrs = e.addrs /\ fs'.ind = e.ind /\ fs'.used = e.used /\ fs'.booted = e.booted
        /\ ~e.booted => fs'.freeblock = e.freeblock
        /\ fs'.data = [fs.data EXCEPT ![b] = <<f, bn>>]
    BY <1>10
  <2>3. b \in e.used /\ bn \in Nat /\ bn < MAXFILE
    BY <1>3, <1>6
  <2> HIDE DEF bn
  <2> QED
    <3>1. Wrote(fs, par, e, par2, f, bn, b, fs')
      BY <1>1, <1>2, <1>8, <1>9, <1>11, <1>12, <2>1, <2>2, <2>3 DEF Wrote
    <3> QED
      BY <3>1, WroteReads
<1> QED
  BY <1>13, ReadsIsNext DEF Grown

LEMMA BootGrown ==
  ASSUME Grown, mkfs_balloc
  PROVE  Grown'
<1>1. PICK par : Tree(fs, par)
  BY DEF Grown
<1>2. Reads(fs) /\ fs \in Disks
  BY <1>1, ReadsIs, StateIs DEF Grown
<1>3. ~fs.booted /\ fs' = [fs EXCEPT !.used = 1..(fs.freeblock - 1), !.booted = TRUE, !.freeblock = 1]
  BY DEF mkfs_balloc
<1>4. fs.used = 1..(fs.freeblock - 1)
  BY <1>1, <1>3 DEF Tree, Clear
<1>5. /\ fs'.addrs = fs.addrs /\ fs'.ind = fs.ind /\ fs'.used = fs.used /\ fs'.size = fs.size /\ fs'.data = fs.data
      /\ fs'.booted = TRUE
  BY <1>2, <1>3, <1>4 DEF Disks
<1>6. fs' \in Disks
  BY <1>2, <1>3, <1>4 DEF Disks
<1>7. Tree(fs', par) /\ Reads(fs')
  BY <1>1, <1>2, <1>5, <1>6, SameReads
<1> QED
  BY <1>7, ReadsIsNext DEF Grown

\* The kernel writes a block.
LEMMA WriteGrown ==
  ASSUME Grown, NEW f \in File, NEW bn \in 0..fs.size[f], writei(f, bn)
  PROVE  Grown'
<1> DEFINE w == bmap(fs, f, bn)
<1>1. PICK par : Tree(fs, par)
  BY DEF Grown
<1>2. Reads(fs) /\ fs \in Disks /\ fs.size \in [File -> 0..MAXFILE] /\ fs.data \in [Block -> (File \cup {0}) \X Nat]
  BY <1>1, ReadsIs, StateIs DEF Grown
<1>3. /\ bn \in Nat /\ bn <= fs.size[f] /\ bn < MAXFILE /\ fs.booted
      /\ w.b = -1 => fs' = [fs EXCEPT !.panicked = TRUE]
      /\ w.b # -1 => fs' = [w.d EXCEPT !.size[f] = IF bn = @ THEN bn + 1 ELSE @,
                                       !.data[w.b] = <<f, bn>>, !.freeblock = 1]
  BY <1>2, Sizes DEF writei
<1> HIDE DEF w
<1>4. CASE w.b = -1
  <2>1. fs' = [fs EXCEPT !.panicked = TRUE]
    BY <1>3, <1>4
  <2>2. /\ fs'.addrs = fs.addrs /\ fs'.ind = fs.ind /\ fs'.used = fs.used /\ fs'.size = fs.size /\ fs'.data = fs.data
        /\ fs'.booted = fs.booted /\ fs' \in Disks
    BY <1>2, <2>1 DEF Disks
  <2>3. Tree(fs', par) /\ Reads(fs')
    BY <1>1, <1>2, <1>3, <2>2, SameReads
  <2> QED
    BY <2>3, ReadsIsNext DEF Grown
<1>5. CASE w.b # -1
  <2>1. Reached(fs, par, f, Path(bn), 4, w)
    BY <1>1, <1>3, BmapIs DEF w
  <2>2. PICK par2 : Adds(fs, par, w.d, par2) /\ w.b \in w.d.used /\ On(par2, f, Path(bn), Far(Path(bn), 4), w.b)
    BY <1>5, <2>1 DEF Reached
  <2> DEFINE e == w.d
             b == w.b
  <2>3. /\ e \in Disks /\ e.size = fs.size /\ e.data = fs.data /\ e.booted = fs.booted /\ b \in Block /\ b \in e.used
    BY <2>2, StateIs DEF Adds
  <2>4. fs' = [e EXCEPT !.size = [e.size EXCEPT ![f] = IF bn = @ THEN bn + 1 ELSE @],
                        !.data = [e.data EXCEPT ![b] = <<f, bn>>], !.freeblock = 1]
    BY <1>3, <1>5
  <2>5. On(par2, f, Path(bn), Len(Path(bn)), b)
    BY <1>3, <2>2, FarIs
  <2>6. Adds(fs, par, e, par2)
    BY <2>2
  <2> HIDE DEF e, b
  <2>7. /\ fs'.addrs = e.addrs /\ fs'.ind = e.ind /\ fs'.used = e.used /\ fs'.booted = e.booted
        /\ fs'.truncs = e.truncs /\ fs'.panicked = e.panicked
        /\ fs'.data = [fs.data EXCEPT ![b] = <<f, bn>>]
        /\ fs'.size = [fs.size EXCEPT ![f] = IF bn = @ THEN bn + 1 ELSE @]
        /\ fs'.freeblock = 1
    BY <2>3, <2>4 DEF Disks
  <2>8. fs' \in Disks
    <3>1. bn + 1 \in 0..MAXFILE /\ <<f, bn>> \in (File \cup {0}) \X Nat
      BY <1>3, Sizes
    <3>2. fs'.data \in [Block -> (File \cup {0}) \X Nat] /\ fs'.size \in [File -> 0..MAXFILE]
      BY <1>2, <2>3, <2>7, <3>1
    <3> QED
      BY <2>3, <2>4, <2>7, <3>2 DEF Disks
  <2>9. Tree(fs', par2) /\ Reads(fs')
    BY <1>1, <1>2, <1>3, <2>3, <2>5, <2>6, <2>7, <2>8, WriteReads
  <2> QED
    BY <2>9, ReadsIsNext DEF Grown
<1> QED
  BY <1>4, <1>5

LEMMA TruncGrown ==
  ASSUME Grown, NEW f \in File, itrunc(f)
  PROVE  Grown'
<1>1. PICK par : Tree(fs, par)
  BY DEF Grown
<1>2. Reads(fs) /\ fs \in Disks /\ fs.size \in [File -> 0..MAXFILE] /\ fs.data \in [Block -> (File \cup {0}) \X Nat]
      /\ fs.ind \in [Block -> [Entries -> Block \cup {0}]] /\ fs.used \subseteq Block
      /\ fs.addrs \in [File -> [0..(NADDRS - 1) -> Block \cup {0}]]
  BY <1>1, ReadsIs, StateIs DEF Grown
<1> DEFINE O == Owned(fs, f)
           zero == [i \in 0..(NADDRS - 1) |-> 0]
           ind2 == [b \in Block |-> IF b \in O THEN [i \in Entries |-> 0] ELSE fs.ind[b]]
           data2 == [b \in Block |-> IF b \in O THEN <<0, 0>> ELSE fs.data[b]]
<1>3. /\ fs.booted
      /\ fs' = [fs EXCEPT !.used = fs.used \ O, !.size = [fs.size EXCEPT ![f] = 0], !.truncs = fs.truncs + 1,
                          !.addrs = [fs.addrs EXCEPT ![f] = zero], !.ind = ind2, !.data = data2]
  BY DEF itrunc
<1> HIDE DEF O, zero, ind2, data2
<1>4. /\ fs'.booted = fs.booted /\ fs'.panicked = fs.panicked /\ fs'.freeblock = fs.freeblock
      /\ fs'.used = fs.used \ O /\ fs'.size = [fs.size EXCEPT ![f] = 0] /\ fs'.truncs = fs.truncs + 1
      /\ fs'.addrs = [fs.addrs EXCEPT ![f] = zero] /\ fs'.ind = ind2 /\ fs'.data = data2
  BY <1>2, <1>3 DEF Disks
<1>5. /\ ind2 \in [Block -> [Entries -> Block \cup {0}]] /\ data2 \in [Block -> (File \cup {0}) \X Nat]
      /\ zero \in [0..(NADDRS - 1) -> Block \cup {0}]
  BY <1>2 DEF ind2, data2, zero
<1>6. fs' \in Disks
  <2>1. fs'.addrs \in [File -> [0..(NADDRS - 1) -> Block \cup {0}]] /\ fs'.size \in [File -> 0..MAXFILE]
    BY <1>2, <1>4, <1>5, Sizes
  <2>2. fs.truncs + 1 \in Int /\ fs'.used \in SUBSET Block
    BY <1>2, <1>4 DEF Disks
  <2> QED
    BY <1>2, <1>3, <1>4, <1>5, <2>1, <2>2 DEF Disks
<1>7. Tree(fs', par) /\ Reads(fs')
  <2>1. fs'.used = fs.used \ Owned(fs, f) /\ fs'.size = [fs.size EXCEPT ![f] = 0]
    BY <1>4 DEF O
  <2>2. fs'.addrs = [fs.addrs EXCEPT ![f] = [i \in 0..(NADDRS - 1) |-> 0]]
    BY <1>4 DEF zero
  <2>3. fs'.ind = [b \in Block |-> IF b \in Owned(fs, f) THEN [i \in Entries |-> 0] ELSE fs.ind[b]]
    BY <1>4 DEF O, ind2
  <2>4. fs'.data = [b \in Block |-> IF b \in Owned(fs, f) THEN <<0, 0>> ELSE fs.data[b]]
    BY <1>4 DEF O, data2
  <2>5. fs'.booted
    BY <1>3, <1>4
  <2> QED
    <3>1. Truncated(fs, par, f, fs')
      BY <1>1, <1>2, <1>3, <1>6, <2>1, <2>2, <2>3, <2>4, <2>5 DEF Truncated
    <3> QED
      BY <3>1, TruncReads
<1> QED
  BY <1>7, ReadsIsNext DEF Grown

-----------------------------------------------------------------------------
(* Theorems                                                                *)

LEMMA StepGrown ==
  ASSUME Grown, [FilesNext]_fs
  PROVE  Grown'
<1>1. CASE mkfs_balloc
  BY <1>1, BootGrown
<1>2. CASE \E f \in File : iappend(f)
  BY <1>2, AppendGrown
<1>3. CASE \E f \in File : itrunc(f)
  BY <1>3, TruncGrown
<1>4. CASE \E f \in File : \E bn \in 0..fs.size[f] : writei(f, bn)
  BY <1>4, WriteGrown
<1>5. CASE UNCHANGED fs
  <2>1. PICK par : Tree(fs, par)
    BY DEF Grown
  <2>2. Tree(fs', par) /\ Reads(fs')
    BY <1>5, <2>1, ReadsIs DEF Grown
  <2> QED
    BY <2>2, ReadsIsNext DEF Grown
<1> QED
  BY <1>1, <1>2, <1>3, <1>4, <1>5 DEF FilesNext

\* The blocks in use form a forest below the inodes and no file has a hole, in every reachable
\* state, for any number of addresses of each level, of entries in an index block and of blocks.
\* (types: what each field of the state can be.)
THEOREM GrownInvariant == FilesSpec => []Grown
<1> QED
  BY InitGrown, StepGrown, PTL DEF FilesSpec

\* bmap() finds in each block of a file what was written there, by mkfs or by the kernel, across
\* all levels, and the bitmap marks the blocks that files reach, each file its own.
THEOREM MultilevelRightInvariant == FilesSpec => []MultilevelRight
<1>1. Grown => MultilevelRight
  <2> SUFFICES ASSUME Grown
               PROVE  MultilevelRight
    OBVIOUS
  <2>1. PICK par : Tree(fs, par)
    BY DEF Grown
  <2>2. BitmapExact
    BY <2>1, TreeExact DEF BitmapExact
  <2> QED
    BY <2>2 DEF Grown, MultilevelRight
<1> QED
  BY <1>1, GrownInvariant, PTL

=============================================================================
