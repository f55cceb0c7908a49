---------------------------- MODULE CsFileProofs ----------------------------
(***************************************************************************)
(* Proofs about CsFile, for any number of processes, inodes, open files    *)
(* and blocks and any geometry: types, offsets, maximal runs, that every   *)
(* block in use has one owner, and that a file maps and holds exactly its  *)
(* own bytes.                                                              *)
(*                                                                         *)
(* Three invariants, each resting on the ones before it.  IInv says what a *)
(* process inside write() relies on (its lock, its offset, the limit) and  *)
(* that extents are runs followed by zeros.  Owned says that the bitmap is *)
(* the disjoint union of the files' blocks, which needs the runs.  DataInv *)
(* says what a file holds, also in the middle of a write: it needs Owned,  *)
(* because a write to one file must not reach a block of another.          *)
(***************************************************************************)
EXTENDS CsFile, FiniteSetTheorems, WellFoundedInduction, TLAPS

-----------------------------------------------------------------------------
(* The inductive invariant                                                 *)

\* A write in progress.
Write == [f : File \cup {NoFile}, n : Nat, i : Nat, n1 : Nat, nn : Nat, tot : Nat, o : Nat]

\* How the kernel may have stopped.
Panic == {"", "freeing free block", "balloc: out of blocks"}

\* An entry of a CS file that is in use: a run of blocks that lies on the disk.
Run(e) ==
    /\ Length(e) \in 1..CS_MAX_LENGTH /\ Start(e) \in 1..NBLOCK
    /\ Start(e) + Length(e) - 1 <= NBLOCK

\* addrs of a CS file: runs as long as they can be, then zeros.
Runs(a) ==
    /\ \A i \in 0..NDIRECT : i < Extents(a) => Run(a[i])
    /\ \A i \in 0..NDIRECT : i >= Extents(a) => a[i] = 0
    /\ \A i \in 1..Extents(a)-1 : Start(a[i-1]) + Length(a[i-1]) = Start(a[i]) => Length(a[i-1]) = CS_MAX_LENGTH

\* The types, of the writes in progress too.
TypeInv == TypeOK /\ wr \in [Proc -> Write] /\ panicked \in Panic

\* An inode: nobody refers to a free one, and its map is of its type.
NodeInv(ip) ==
    /\ itype[ip] = "free" => addrs[ip] = ZeroAddrs /\ ~linked[ip] /\ Opened(ip) = {}
    /\ itype[ip] # "T_CS" => \A i \in 0..NDIRECT : addrs[ip][i] <= NBLOCK
    /\ itype[ip] = "T_CS" => Runs(addrs[ip])

\* An open file has its offset inside the file.
FileInv(f) == fip[f] \in Ino => off[f] <= size[fip[f]]

\* A process inside write() keeps its file open; while it writes a chunk it holds the inode's
\* lock, has come as far from the offset as it has written, and stays below the file's limit.
ProcInv(p) ==
    /\ pc[p] # "idle" => wr[p].f \in File /\ fip[wr[p].f] \in Ino
    /\ pc[p] = "chunk" => wr[p].i < wr[p].n
    /\ pc[p] \in {"block", "end"} =>
          /\ lock[fip[wr[p].f]] = p
          /\ wr[p].tot <= wr[p].nn /\ wr[p].nn <= wr[p].n1 /\ wr[p].nn > 0
          /\ wr[p].i + wr[p].n1 <= wr[p].n
          /\ wr[p].o = off[wr[p].f] + wr[p].tot
          /\ off[wr[p].f] + wr[p].nn <= Limit(fip[wr[p].f])

\* All of it, for every inode, open file and process.
IInv ==
    /\ TypeInv
    /\ \A ip \in Ino : NodeInv(ip)
    /\ \A f \in File : FileInv(f)
    /\ \A p \in Proc : ProcInv(p)

-----------------------------------------------------------------------------
(* Numbers                                                                 *)

\* The sizes of the file system.
LEMMA Sizes ==
  /\ NBLOCK \in Nat \ {0} /\ BSIZE \in Nat \ {0} /\ NDIRECT \in Nat \ {0} /\ NINDIRECT \in Nat \ {0}
  /\ CS_MAX_LENGTH \in Nat \ {0} /\ MaxChunk \in Nat \ {0} /\ CS_MAX_START \in Nat
  /\ 2^CS_LENGTH_BITS \in Nat /\ CS_MAX_LENGTH < 2^CS_LENGTH_BITS
  /\ Lengths \subseteq Nat \ {0} /\ ReadLengths \subseteq Nat \ {0}
  BY GeometryAssumption

\* The smaller of two numbers.
LEMMA MinTwo ==
  ASSUME NEW a \in Int, NEW b \in Int
  PROVE  Min({a, b}) \in {a, b} /\ Min({a, b}) <= a /\ Min({a, b}) <= b
<1>1. \E x \in {a, b} : \A y \in {a, b} : x <= y
  BY a <= b \/ b <= a
<1> QED
  BY <1>1 DEF Min

\* Min finds an element.
LEMMA MinIs ==
  ASSUME NEW S \in SUBSET Nat, S # {}
  PROVE  Min(S) \in S /\ \A y \in S : Min(S) <= y
<1> DEFINE R == StrictSubsetOrdering(Nat)
           F == FiniteSubsetsOf(Nat)
           T == {1..x : x \in S}
<1>1. IsWellFoundedOn(R, F)
  BY FS_StrictSubsetOrderingWellFounded
<1>2. T \subseteq F /\ T # {}
  <2>1. \A x \in Nat : IsFiniteSet(1..x) /\ 1..x \in SUBSET Nat
    BY FS_Interval
  <2> QED
    BY <2>1 DEF FiniteSubsetsOf
<1>3. PICK t \in T : \A u \in T : ~ (<<u, t>> \in R)
  <2> HIDE DEF R, F, T
  <2> QED
    BY <1>1, <1>2, WFMin
<1>4. PICK x \in S : t = 1..x
  OBVIOUS
<1>5. ASSUME NEW y \in S, y < x
      PROVE  FALSE
  <2>1. 1..y \in SUBSET (1..x) /\ x \in 1..x /\ x \notin 1..y
    BY <1>5
  <2>2. 1..y \in F /\ 1..x \in F
    BY <1>2
  <2>3. <<1..y, 1..x>> \in R
    BY <2>1, <2>2 DEF StrictSubsetOrdering, FiniteSubsetsOf
  <2> QED
    BY <1>3, <1>4, <2>3
<1>6. \A y \in S : x <= y
  BY <1>5
<1> QED
  BY <1>6 DEF Min

\* Division with remainder, as the provers know it.
LEMMA ModDiv ==
  ASSUME NEW a \in Int, NEW n \in Nat \ {0}
  PROVE  /\ a \div n \in Int /\ a % n \in 0..(n - 1)
         /\ a = n * (a \div n) + (a % n)
  OBVIOUS

\* Quotient and remainder are determined by the equation they satisfy.
LEMMA DivUnique ==
  ASSUME NEW n \in Nat \ {0}, NEW q \in Int, NEW r \in 0..(n - 1), NEW a \in Int, a = n * q + r
  PROVE  a \div n = q /\ a % n = r
<1> DEFINE e == a \div n
           f == a % n
<1>1. e \in Int /\ f \in 0..(n - 1) /\ a = n * e + f
  BY ModDiv
<1> HIDE DEF e, f
<1>2. n * (q - e) = f - r
  BY <1>1
<1>3. ASSUME q - e >= 1 PROVE FALSE
  <2>1. n * (q - e) >= n
    BY <1>1, <1>3
  <2> QED
    BY <1>1, <1>2, <2>1
<1>4. ASSUME q - e <= -1 PROVE FALSE
  <2>1. n * (q - e) <= -n
    BY <1>1, <1>4
  <2> QED
    BY <1>1, <1>2, <2>1
<1>5. q = e
  BY <1>1, <1>3, <1>4
<1>6. f = r
  BY <1>1, <1>2, <1>5
<1> QED
  BY <1>5, <1>6 DEF e, f

\* The quotient of two numbers is a number no larger than the first.
LEMMA DivSmaller ==
  ASSUME NEW a \in Nat, NEW n \in Nat \ {0}
  PROVE  a \div n \in 0..a
<1> DEFINE q == a \div n
           r == a % n
<1>1. q \in Int /\ r \in 0..(n - 1) /\ a = n * q + r
  BY ModDiv
<1> HIDE DEF q, r
<1>2. ASSUME q < 0
      PROVE  FALSE
  <2>1. n * q <= n * (-1)
    BY <1>1, <1>2
  <2> QED
    BY <1>1, <2>1
<1>3. n * q >= 1 * q
  BY <1>1, <1>2
<1> QED
  BY <1>1, <1>2, <1>3 DEF q

-----------------------------------------------------------------------------
(* Extents                                                                 *)

\* What is packed into an entry comes out again.
LEMMA PackIs ==
  ASSUME NEW s \in Nat, NEW l \in 0..CS_MAX_LENGTH
  PROVE  Pack(s, l) \in Nat /\ Start(Pack(s, l)) = s /\ Length(Pack(s, l)) = l
<1> DEFINE k == 2^CS_LENGTH_BITS
           e == s * k + l
<1>1. k \in Nat \ {0} /\ l \in 0..(k - 1)
  BY Sizes
<1>2. Pack(s, l) = e /\ Start(e) = e \div k /\ Length(e) = e % k
  BY DEF Pack, Start, Length
<1>3. e = s * k + l
  OBVIOUS
<1> HIDE DEF k, e
<1>4. e \in Nat /\ e \in Int /\ e = k * s + l
  BY <1>1, <1>3
<1>5. e \div k = s /\ e % k = l
  BY <1>1, <1>4, DivUnique
<1> QED
  BY <1>2, <1>4, <1>5

\* The parts of an entry, and their bounds.
LEMMA EntryIs ==
  ASSUME NEW e \in Nat
  PROVE  Start(e) \in Nat /\ Length(e) \in Nat
<1> DEFINE k == 2^CS_LENGTH_BITS
<1>1. k \in Nat \ {0}
  BY Sizes
<1>2. Start(e) = e \div k /\ Length(e) = e % k
  BY DEF Start, Length
<1> HIDE DEF k
<1>3. e % k \in 0..(k - 1)
  BY <1>1
<1>4. e \div k \in 0..e
  BY <1>1, DivSmaller
<1> QED
  BY <1>1, <1>2, <1>3, <1>4

\* A run fits into the word.
LEMMA RunFits ==
  ASSUME NEW s \in 0..NBLOCK, NEW l \in 0..CS_MAX_LENGTH
  PROVE  Pack(s, l) \in 0..Pack(NBLOCK, CS_MAX_LENGTH)
<1> DEFINE k == 2^CS_LENGTH_BITS
<1>1. k \in Nat \ {0} /\ NBLOCK \in Nat /\ CS_MAX_LENGTH \in Nat
  BY Sizes
<1>2. Pack(s, l) = s * k + l /\ Pack(NBLOCK, CS_MAX_LENGTH) = NBLOCK * k + CS_MAX_LENGTH
  BY DEF Pack
<1> HIDE DEF k
<1>3. s * k <= NBLOCK * k /\ s * k \in Nat /\ NBLOCK * k \in Nat
  BY <1>1
<1> QED
  BY <1>1, <1>2, <1>3

\* A block number fits into the word.
LEMMA BlockFits ==
  ASSUME NEW b \in 0..NBLOCK
  PROVE  b \in 0..Pack(NBLOCK, CS_MAX_LENGTH)
<1> DEFINE k == 2^CS_LENGTH_BITS
<1>1. k \in Nat \ {0} /\ NBLOCK \in Nat /\ CS_MAX_LENGTH \in Nat
  BY Sizes
<1>2. Pack(NBLOCK, CS_MAX_LENGTH) = NBLOCK * k + CS_MAX_LENGTH
  BY DEF Pack
<1> HIDE DEF k
<1>3. NBLOCK * k >= NBLOCK * 1 /\ NBLOCK * k \in Nat
  BY <1>1
<1> QED
  BY <1>1, <1>2, <1>3

\* The entries in use are those before the first zero.
LEMMA ExtentsIs ==
  ASSUME NEW a
  PROVE  /\ Extents(a) \in 0..NDIRECT
         /\ \A i \in 0..NDIRECT : i < Extents(a) => a[i] # 0
         /\ Extents(a) = NDIRECT \/ a[Extents(a)] = 0
<1> DEFINE S == {i \in 0..NDIRECT : i = NDIRECT \/ a[i] = 0}
<1>1. S \in SUBSET Nat /\ NDIRECT \in S
  BY Sizes
<1>2. Extents(a) = Min(S)
  BY DEF Extents
<1>3. Min(S) \in S /\ \A y \in S : Min(S) <= y
  <2> HIDE DEF S
  <2> QED
    BY <1>1, MinIs
<1>4. NDIRECT \in Nat
  BY Sizes
<1> QED
  BY <1>2, <1>3, <1>4

\* And nothing else is.
LEMMA ExtentsUnique ==
  ASSUME NEW a, NEW e \in 0..NDIRECT, \A i \in 0..NDIRECT : i < e => a[i] # 0,
         e = NDIRECT \/ a[e] = 0
  PROVE  Extents(a) = e
<1>1. NDIRECT \in Nat
  BY Sizes
<1> QED
  BY <1>1, ExtentsIs

\* addrs as the disk inode holds it.
Addrs == [0..NDIRECT -> 0..Pack(NBLOCK, CS_MAX_LENGTH)]

\* The numbers of an entry.
LEMMA AddrNat ==
  ASSUME NEW a \in Addrs
  PROVE  \A i \in 0..NDIRECT : a[i] \in Nat /\ Start(a[i]) \in Nat /\ Length(a[i]) \in Nat
<1>1. \A i \in 0..NDIRECT : a[i] \in Nat
  BY DEF Addrs
<1> QED
  BY <1>1, EntryIs

\* The two ways in which csbmap adds a block: it makes the last run longer, or starts one.
Extends(a, c, b) ==
    LET l == Extents(a) - 1
    IN  /\ l >= 0 /\ Length(a[l]) < CS_MAX_LENGTH /\ b = Start(a[l]) + Length(a[l])
        /\ c = [a EXCEPT ![l] = Pack(Start(a[l]), Length(a[l]) + 1)]

\* It starts a run in the first free entry.
Begins(a, c, b) ==
    LET l == Extents(a)
    IN  /\ ~(l - 1 >= 0 /\ Length(a[l-1]) < CS_MAX_LENGTH /\ b = Start(a[l-1]) + Length(a[l-1]))
        /\ l < NDIRECT
        /\ c = [a EXCEPT ![l] = Pack(b, 1)]

\* csbmap does one of them or nothing.
LEMMA AppendCases ==
  ASSUME NEW a, NEW b, CsAppend(a, b) # a
  PROVE  Extends(a, CsAppend(a, b), b) \/ Begins(a, CsAppend(a, b), b)
<1>1. PICK e \in 0..NDIRECT : e = Extents(a)
  BY ExtentsIs
<1>2. PICK l \in Int : l = e - 1 /\ l + 1 = e
  BY Sizes
<1> DEFINE joins == l >= 0 /\ Length(a[l]) < CS_MAX_LENGTH /\ b = Start(a[l]) + Length(a[l])
<1>3. CsAppend(a, b) = IF joins THEN [a EXCEPT ![l] = Pack(Start(a[l]), Length(a[l]) + 1)]
                       ELSE IF e >= NDIRECT THEN a
                       ELSE [a EXCEPT ![e] = Pack(b, 1)]
  BY <1>1, <1>2 DEF CsAppend
<1>4. CASE joins
  BY <1>1, <1>2, <1>3, <1>4 DEF Extends
<1>5. CASE ~joins /\ e < NDIRECT
  <2>1. CsAppend(a, b) = [a EXCEPT ![e] = Pack(b, 1)]
    BY <1>3, <1>5, Sizes
  <2> QED
    BY <1>1, <1>2, <1>5, <2>1 DEF Begins
<1> QED
  BY <1>1, <1>3, <1>4, <1>5, Sizes

\* A run that gets longer.
LEMMA ExtendsIs ==
  ASSUME NEW a \in Addrs, Runs(a), NEW b \in 1..NBLOCK, NEW c, Extends(a, c, b)
  PROVE  \E l \in 0..NDIRECT :
            /\ l = Extents(a) - 1 /\ l < NDIRECT /\ Extents(c) = Extents(a)
            /\ c \in Addrs /\ \A i \in 0..NDIRECT : i # l => c[i] = a[i]
            /\ Start(c[l]) = Start(a[l]) /\ Length(c[l]) = Length(a[l]) + 1 /\ Length(c[l]) <= CS_MAX_LENGTH
            /\ b = Start(a[l]) + Length(a[l])
<1>0. NDIRECT \in Nat /\ CS_MAX_LENGTH \in Nat /\ NBLOCK \in Nat
  BY Sizes
<1>1. Extents(a) \in 0..NDIRECT /\ \A i \in 0..NDIRECT : i < Extents(a) => a[i] # 0
  BY ExtentsIs
<1>2. PICK l \in 0..NDIRECT :
         /\ l = Extents(a) - 1 /\ l < NDIRECT /\ l < Extents(a)
         /\ Length(a[l]) < CS_MAX_LENGTH /\ b = Start(a[l]) + Length(a[l])
         /\ c = [a EXCEPT ![l] = Pack(Start(a[l]), Length(a[l]) + 1)]
  <2>1. Extents(a) - 1 >= 0
    BY DEF Extends
  <2>2. PICK l \in 0..NDIRECT : l = Extents(a) - 1 /\ l < NDIRECT /\ l < Extents(a)
    BY <1>0, <1>1, <2>1
  <2>3. /\ Length(a[l]) < CS_MAX_LENGTH /\ b = Start(a[l]) + Length(a[l])
        /\ c = [a EXCEPT ![l] = Pack(Start(a[l]), Length(a[l]) + 1)]
    BY <2>2 DEF Extends
  <2> QED
    BY <2>2, <2>3
<1>3. Run(a[l])
  BY <1>2 DEF Runs
<1>4. PICK s \in 0..NBLOCK : s = Start(a[l])
  BY <1>0, <1>3 DEF Run
<1>5. PICK m \in 1..CS_MAX_LENGTH : m = Length(a[l]) + 1
  BY <1>0, <1>2, <1>3 DEF Run
<1>6. c = [a EXCEPT ![l] = Pack(s, m)]
  BY <1>2, <1>4, <1>5
<1>7. Pack(s, m) \in Nat /\ Start(Pack(s, m)) = s /\ Length(Pack(s, m)) = m
  BY <1>0, PackIs
<1>8. Pack(s, m) \in 0..Pack(NBLOCK, CS_MAX_LENGTH)
  BY <1>0, RunFits
<1>9. c \in Addrs /\ (\A i \in 0..NDIRECT : i # l => c[i] = a[i]) /\ c[l] = Pack(s, m)
  BY <1>6, <1>8 DEF Addrs
<1>10. Pack(s, m) # 0
  <2>1. PICK z \in 0..CS_MAX_LENGTH : z = 0
    BY <1>0
  <2>2. Length(0) = 0
    <3>1. PICK k \in Nat \ {0} : k = 2^CS_LENGTH_BITS
      BY Sizes
    <3> QED
      BY <3>1 DEF Length
  <2> QED
    BY <1>7, <2>2
<1>11. Extents(c) = Extents(a)
  <2> DEFINE e == Extents(a)
  <2>1. e \in 0..NDIRECT /\ \A i \in 0..NDIRECT : i < e => c[i] # 0
    BY <1>1, <1>9, <1>10
  <2>2. e = NDIRECT \/ c[e] = 0
    BY <1>0, <1>1, <1>2, <1>9, ExtentsIs
  <2> HIDE DEF e
  <2>3. Extents(c) = e
    BY <2>1, <2>2, ExtentsUnique
  <2> QED
    BY <2>3 DEF e
<1>12. Start(c[l]) = Start(a[l]) /\ Length(c[l]) = Length(a[l]) + 1 /\ Length(c[l]) <= CS_MAX_LENGTH
  BY <1>0, <1>4, <1>5, <1>7, <1>9
<1> QED
  BY <1>2, <1>9, <1>11, <1>12

\* A run that begins.
LEMMA BeginsIs ==
  ASSUME NEW a \in Addrs, Runs(a), NEW b \in 1..NBLOCK, NEW c, Begins(a, c, b)
  PROVE  \E l \in 0..NDIRECT :
            /\ l = Extents(a) /\ l < NDIRECT /\ Extents(c) = l + 1
            /\ c \in Addrs /\ \A i \in 0..NDIRECT : i # l => c[i] = a[i]
            /\ Start(c[l]) = b /\ Length(c[l]) = 1 /\ a[l] = 0
            /\ l > 0 => ~(Length(a[l-1]) < CS_MAX_LENGTH /\ b = Start(a[l-1]) + Length(a[l-1]))
<1>0. NDIRECT \in Nat /\ CS_MAX_LENGTH \in Nat \ {0} /\ NBLOCK \in Nat
  BY Sizes
<1>1. /\ Extents(a) \in 0..NDIRECT /\ \A i \in 0..NDIRECT : i < Extents(a) => a[i] # 0
      /\ \A i \in 0..NDIRECT : i >= Extents(a) => a[i] = 0
  BY ExtentsIs DEF Runs
<1>2. PICK l \in 0..NDIRECT : l = Extents(a)
  BY <1>1
<1>3. /\ l < NDIRECT
      /\ c = [a EXCEPT ![l] = Pack(b, 1)]
      /\ l > 0 => ~(Length(a[l-1]) < CS_MAX_LENGTH /\ b = Start(a[l-1]) + Length(a[l-1]))
  <2>1. l > 0 => l - 1 >= 0
    BY <1>0
  <2> QED
    BY <1>2, <2>1 DEF Begins
<1>4. b \in Nat /\ b \in 0..NBLOCK /\ 1 \in 0..CS_MAX_LENGTH
  BY <1>0
<1>7. Pack(b, 1) \in Nat /\ Start(Pack(b, 1)) = b /\ Length(Pack(b, 1)) = 1
  BY <1>4, PackIs
<1>8. Pack(b, 1) \in 0..Pack(NBLOCK, CS_MAX_LENGTH)
  BY <1>4, RunFits
<1>9. c \in Addrs /\ (\A i \in 0..NDIRECT : i # l => c[i] = a[i]) /\ c[l] = Pack(b, 1)
  BY <1>3, <1>8 DEF Addrs
<1>10. Pack(b, 1) # 0
  <2>1. Length(0) = 0
    <3>1. PICK k \in Nat \ {0} : k = 2^CS_LENGTH_BITS
      BY Sizes
    <3> QED
      BY <3>1 DEF Length
  <2> QED
    BY <1>7, <2>1
<1>11. Extents(c) = l + 1
  <2>1. PICK e \in 0..NDIRECT : e = l + 1
    BY <1>0, <1>3
  <2>2. \A i \in 0..NDIRECT : i < e => c[i] # 0
    <3> TAKE i \in 0..NDIRECT
    <3>1. CASE i = l
      BY <1>9, <1>10, <3>1
    <3>2. CASE i # l
      BY <1>1, <1>2, <1>9, <2>1, <3>2
    <3> QED
      BY <3>1, <3>2
  <2>3. c[e] = 0
    BY <1>0, <1>1, <1>2, <1>9, <2>1
  <2>4. Extents(c) = e
    BY <2>2, <2>3, ExtentsUnique
  <2> QED
    BY <2>1, <2>4
<1>12. Start(c[l]) = b /\ Length(c[l]) = 1 /\ a[l] = 0
  BY <1>1, <1>2, <1>7, <1>9
<1> QED
  BY <1>2, <1>3, <1>9, <1>11, <1>12

\* A CS file that grows keeps its runs on the disk and as long as they can be.
LEMMA AppendRuns ==
  ASSUME NEW a \in Addrs, Runs(a), NEW b \in 1..NBLOCK, CsAppend(a, b) # a
  PROVE  CsAppend(a, b) \in Addrs /\ Runs(CsAppend(a, b))
<1>0. NDIRECT \in Nat /\ CS_MAX_LENGTH \in Nat \ {0} /\ NBLOCK \in Nat
  BY Sizes
<1>1. PICK c : c = CsAppend(a, b)
  OBVIOUS
<1>2. \A i \in 0..NDIRECT : Start(a[i]) \in Nat /\ Length(a[i]) \in Nat
  BY AddrNat
<1>3. Extents(a) \in 0..NDIRECT
  BY ExtentsIs
<1>4. CASE Extends(a, c, b)
  <2>1. PICK l \in 0..NDIRECT :
            /\ l = Extents(a) - 1 /\ l < NDIRECT /\ Extents(c) = Extents(a)
            /\ c \in Addrs /\ \A i \in 0..NDIRECT : i # l => c[i] = a[i]
            /\ Start(c[l]) = Start(a[l]) /\ Length(c[l]) = Length(a[l]) + 1 /\ Length(c[l]) <= CS_MAX_LENGTH
            /\ b = Start(a[l]) + Length(a[l])
    BY <1>4, ExtendsIs
  <2>2. Run(a[l])
    BY <1>0, <1>3, <2>1 DEF Runs
  <2>3. Run(c[l])
    BY <1>0, <1>2, <2>1, <2>2 DEF Run
  <2>4. \A i \in 0..NDIRECT : i < Extents(c) => Run(c[i])
    BY <2>1, <2>3 DEF Runs
  <2>5. \A i \in 0..NDIRECT : i >= Extents(c) => c[i] = 0
    BY <1>0, <1>3, <2>1 DEF Runs
  <2>6. ASSUME NEW i \in 1..Extents(c)-1, Start(c[i-1]) + Length(c[i-1]) = Start(c[i])
        PROVE  Length(c[i-1]) = CS_MAX_LENGTH
    <3>1. PICK j \in 0..NDIRECT : j = i - 1 /\ j # l
      BY <1>0, <1>3, <2>1
    <3>2. i \in 0..NDIRECT /\ Start(c[i]) = Start(a[i]) /\ c[j] = a[j] /\ i \in 1..Extents(a)-1
      BY <1>0, <1>3, <2>1, <3>1
    <3>3. Length(a[j]) = CS_MAX_LENGTH
      BY <2>6, <3>1, <3>2 DEF Runs
    <3> QED
      BY <3>1, <3>2, <3>3
  <2> QED
    BY <1>1, <2>1, <2>4, <2>5, <2>6 DEF Runs
<1>5. CASE Begins(a, c, b)
  <2>1. PICK l \in 0..NDIRECT :
            /\ l = Extents(a) /\ l < NDIRECT /\ Extents(c) = l + 1
            /\ c \in Addrs /\ \A i \in 0..NDIRECT : i # l => c[i] = a[i]
            /\ Start(c[l]) = b /\ Length(c[l]) = 1 /\ a[l] = 0
            /\ l > 0 => ~(Length(a[l-1]) < CS_MAX_LENGTH /\ b = Start(a[l-1]) + Length(a[l-1]))
    BY <1>5, BeginsIs
  <2>3. Run(c[l])
    BY <1>0, <2>1 DEF Run
  <2>4. ASSUME NEW i \in 0..NDIRECT, i < Extents(c)
        PROVE  Run(c[i])
    <3>1. i # l => i < Extents(a)
      BY <1>0, <1>3, <2>1, <2>4
    <3> QED
      BY <2>1, <2>3, <3>1 DEF Runs
  <2>5. \A i \in 0..NDIRECT : i >= Extents(c) => c[i] = 0
    BY <1>0, <1>3, <2>1 DEF Runs
  <2>6. ASSUME NEW i \in 1..Extents(c)-1, Start(c[i-1]) + Length(c[i-1]) = Start(c[i])
        PROVE  Length(c[i-1]) = CS_MAX_LENGTH
    <3>1. PICK j \in 0..NDIRECT : j = i - 1 /\ j < l /\ j # l /\ i \in 0..NDIRECT
      BY <1>0, <1>3, <2>1
    <3>2. c[j] = a[j]
      BY <2>1, <3>1
    <3>3. CASE i = l
      <4>1. Run(a[j])
        BY <2>1, <3>1 DEF Runs
      <4>2. ~(Length(a[j]) < CS_MAX_LENGTH /\ b = Start(a[j]) + Length(a[j])) /\ Start(c[i]) = b
        BY <1>0, <2>1, <3>1, <3>3
      <4>3. Length(a[j]) \in 1..CS_MAX_LENGTH
        BY <4>1 DEF Run
      <4> QED
        BY <1>0, <2>6, <3>1, <3>2, <4>2, <4>3
    <3>4. CASE i # l
      <4>1. i \in 1..Extents(a)-1 /\ c[i] = a[i]
        BY <1>0, <2>1, <3>1, <3>4
      <4>2. Length(a[j]) = CS_MAX_LENGTH
        BY <2>6, <3>1, <3>2, <4>1 DEF Runs
      <4> QED
        BY <3>1, <3>2, <4>2
    <3> QED
      BY <3>3, <3>4
  <2> QED
    BY <1>1, <2>1, <2>4, <2>5, <2>6 DEF Runs
<1> QED
  BY <1>1, <1>4, <1>5, AppendCases

\* A file with no block.
LEMMA NoRuns ==
  ZeroAddrs \in Addrs /\ Extents(ZeroAddrs) = 0 /\ Runs(ZeroAddrs) /\ \A i \in 0..NDIRECT : ZeroAddrs[i] = 0
<1>0. NDIRECT \in Nat \ {0} /\ NBLOCK \in Nat
  BY Sizes
<1>1. \A i \in 0..NDIRECT : ZeroAddrs[i] = 0
  BY DEF ZeroAddrs
<1>2. 0 \in 0..Pack(NBLOCK, CS_MAX_LENGTH)
  BY <1>0, BlockFits
<1>3. ZeroAddrs \in Addrs
  BY <1>2 DEF ZeroAddrs, Addrs
<1>4. Extents(ZeroAddrs) = 0
  <2>1. PICK z \in 0..NDIRECT : z = 0
    BY <1>0
  <2>2. Extents(ZeroAddrs) = z
    BY <1>0, <1>1, <2>1, ExtentsUnique
  <2> QED
    BY <2>1, <2>2
<1> QED
  BY <1>1, <1>3, <1>4 DEF Runs

-----------------------------------------------------------------------------
(* Processes and open files                                                *)

\* What TypeInv says, variable by variable.
LEMMA TypeFacts ==
  ASSUME TypeInv
  PROVE  /\ bitmap \in SUBSET (1..NBLOCK)
         /\ data \in [1..NBLOCK -> [0..BSIZE-1 -> Byte]]
         /\ ind \in [1..NBLOCK -> [0..NINDIRECT-1 -> 0..NBLOCK]]
         /\ itype \in [Ino -> {"free", "T_FILE", "T_CS"}] /\ linked \in [Ino -> BOOLEAN]
         /\ addrs \in [Ino -> Addrs] /\ size \in [Ino -> Nat]
         /\ fip \in [File -> Ino \cup {NoIno}] /\ off \in [File -> Nat]
         /\ lock \in [Ino -> Proc \cup {NoProc}]
         /\ pc \in [Proc -> {"idle", "chunk", "block", "end"}]
         /\ wr \in [Proc -> Write] /\ panicked \in Panic
  BY DEF TypeInv, TypeOK, Addrs

\* The fields of a write in progress.
LEMMA WriteFacts ==
  ASSUME TypeInv, NEW p \in Proc
  PROVE  /\ wr[p].f \in File \cup {NoFile}
         /\ wr[p].n \in Nat /\ wr[p].i \in Nat /\ wr[p].n1 \in Nat
         /\ wr[p].nn \in Nat /\ wr[p].tot \in Nat /\ wr[p].o \in Nat
<1>1. wr[p] \in Write
  BY DEF TypeInv
<1> QED
  BY <1>1 DEF Write

\* The limits of the two kinds of files.
LEMMA LimitNat ==
  ASSUME NEW ip
  PROVE  Limit(ip) \in Nat
<1>1. MAXCSBLOCKS \in Nat /\ MAXFILE \in Nat /\ BSIZE \in Nat
  BY Sizes DEF MAXCSBLOCKS, MAXFILE
<1>2. PICK x \in Nat : x = (IF itype[ip] = "T_CS" THEN MAXCSBLOCKS ELSE MAXFILE)
  BY <1>1
<1>3. Limit(ip) = x * BSIZE
  BY <1>2 DEF Limit
<1> QED
  BY <1>1, <1>3

\* A process whose call, file and inode stay as they are.
LEMMA ProcSame ==
  ASSUME NEW q \in Proc, ProcInv(q), pc'[q] = pc[q], wr'[q] = wr[q],
         pc[q] # "idle" => fip'[wr[q].f] = fip[wr[q].f],
         pc[q] \in {"block", "end"} => /\ off'[wr[q].f] = off[wr[q].f]
                                       /\ lock'[fip[wr[q].f]] = lock[fip[wr[q].f]]
                                       /\ itype'[fip[wr[q].f]] = itype[fip[wr[q].f]]
  PROVE  ProcInv(q)'
<1>1. CASE pc[q] = "idle"
  BY <1>1 DEF ProcInv
<1>2. CASE pc[q] = "chunk"
  BY <1>2 DEF ProcInv
<1>3. CASE pc[q] \in {"block", "end"}
  <2>1. PICK f \in File : f = wr[q].f /\ f = wr'[q].f
    BY <1>3 DEF ProcInv
  <2>2. PICK ip \in Ino : ip = fip[f] /\ ip = fip'[f]
    BY <1>3, <2>1 DEF ProcInv
  <2>3. Limit(ip)' = Limit(ip)
    BY <1>3, <2>1, <2>2 DEF Limit
  <2>4. Limit(fip[wr[q].f])' = Limit(fip[wr[q].f])
    BY <2>1, <2>2, <2>3
  <2>5. lock'[ip] = q /\ off'[f] = off[f]
    BY <1>3, <2>1, <2>2 DEF ProcInv
  <2> QED
    BY <1>3, <2>1, <2>2, <2>4, <2>5 DEF ProcInv
<1>4. CASE pc[q] \notin {"idle", "chunk", "block", "end"}
  BY <1>4 DEF ProcInv
<1> QED
  BY <1>1, <1>2, <1>3, <1>4

\* Two processes never write to one inode at the same time.
LEMMA OneWriter ==
  ASSUME NEW p \in Proc, NEW q \in Proc, ProcInv(p), ProcInv(q),
         pc[p] \in {"block", "end"}, pc[q] \in {"block", "end"}, fip[wr[p].f] = fip[wr[q].f]
  PROVE  p = q
  BY DEF ProcInv

\* One turn of writei()'s loop writes at least one byte and stays in the block and in the chunk.
Turn(p, m) ==
    /\ m >= 1 /\ wr[p].tot + m <= wr[p].nn
    /\ (wr[p].o % BSIZE) + m <= BSIZE
    /\ wr' = [wr EXCEPT ![p] = [wr[p] EXCEPT !.tot = wr[p].tot + m, !.o = wr[p].o + m]]

\* A block of which the bytes from lo to hi are written to a file.
Filled(old, lo, hi, ip) == [x \in 0..BSIZE-1 |-> IF x \in lo..hi THEN ip ELSE old[x]]

\* What writei() writes in one turn: up to the end of the block or of the chunk.
LEMMA PutIs ==
  ASSUME TypeInv, NEW p \in Proc, More(p), NEW b, NEW old, Put(p, b, old)
  PROVE  \E m \in Nat : /\ Turn(p, m)
                        /\ m = wr[p].nn - wr[p].tot \/ m = BSIZE - (wr[p].o % BSIZE)
                        /\ data' = [data EXCEPT ![b] = Filled(old, wr[p].o % BSIZE, (wr[p].o % BSIZE) + m - 1, fip[wr[p].f])]
<1>0. BSIZE \in Nat \ {0}
  BY Sizes
<1>1. wr[p].nn \in Nat /\ wr[p].tot \in Nat /\ wr[p].o \in Nat /\ wr[p].tot < wr[p].nn
  BY WriteFacts DEF More
<1>2. PICK x0 \in 0..(BSIZE - 1) : x0 = wr[p].o % BSIZE
  BY <1>0, <1>1
<1>3. PICK c \in Nat \ {0} : c = wr[p].nn - wr[p].tot
  BY <1>1
<1>4. PICK d \in Nat \ {0} : d = BSIZE - x0
  BY <1>0
<1>5. PICK m : m = Min({c, d})
  OBVIOUS
<1>6. m \in {c, d} /\ m <= c /\ m <= d
  BY <1>5, MinTwo
<1>7. /\ data' = [data EXCEPT ![b] = Filled(old, x0, x0 + m - 1, fip[wr[p].f])]
      /\ wr' = [wr EXCEPT ![p] = [wr[p] EXCEPT !.tot = wr[p].tot + m, !.o = wr[p].o + m]]
  BY <1>2, <1>3, <1>4, <1>5 DEF Put, Filled
<1>8. m \in Nat /\ m >= 1 /\ wr[p].tot + m <= wr[p].nn /\ x0 + m <= BSIZE
  BY <1>0, <1>1, <1>3, <1>4, <1>6
<1> QED
  BY <1>2, <1>3, <1>4, <1>6, <1>7, <1>8 DEF Turn

\* What a turn leaves in wr.
LEMMA TurnIs ==
  ASSUME TypeInv, NEW p \in Proc, NEW m \in Nat, Turn(p, m)
  PROVE  /\ wr' \in [Proc -> Write] /\ \A q \in Proc : q # p => wr'[q] = wr[q]
         /\ wr'[p].f = wr[p].f /\ wr'[p].n = wr[p].n /\ wr'[p].i = wr[p].i /\ wr'[p].n1 = wr[p].n1
         /\ wr'[p].nn = wr[p].nn /\ wr'[p].tot = wr[p].tot + m /\ wr'[p].o = wr[p].o + m
<1>1. wr \in [Proc -> Write] /\ wr[p] \in Write
  BY DEF TypeInv
<1>2. wr[p].tot + m \in Nat /\ wr[p].o + m \in Nat
  BY WriteFacts
<1>3. wr'[p] = [wr[p] EXCEPT !.tot = wr[p].tot + m, !.o = wr[p].o + m] /\ \A q \in Proc : q # p => wr'[q] = wr[q]
  BY <1>1 DEF Turn
<1>4. [wr[p] EXCEPT !.tot = wr[p].tot + m, !.o = wr[p].o + m] \in Write
  BY <1>1, <1>2 DEF Write
<1>5. wr' \in [Proc -> Write]
  BY <1>1, <1>4 DEF Turn
<1> QED
  BY <1>1, <1>3, <1>5 DEF Write

\* The process that has written a part of its chunk.
LEMMA ProcTurn ==
  ASSUME TypeInv, NEW p \in Proc, ProcInv(p), pc[p] = "block", NEW m \in Nat, Turn(p, m),
         UNCHANGED <<pc, fip, off, lock, itype>>
  PROVE  ProcInv(p)'
<1>1. PICK f \in File : f = wr[p].f /\ f = wr'[p].f
  BY TurnIs DEF ProcInv
<1>2. PICK ip \in Ino : ip = fip[f] /\ ip = fip'[f]
  BY <1>1 DEF ProcInv
<1>3. Limit(fip[wr[p].f])' = Limit(fip[wr[p].f])
  BY <1>1, <1>2 DEF Limit
<1>4. /\ wr'[p].tot <= wr'[p].nn /\ wr'[p].o = off[f] + wr'[p].tot
  <2>1. wr[p].o \in Nat /\ off[f] \in Nat /\ wr[p].tot \in Nat /\ wr[p].o = off[f] + wr[p].tot
    BY <1>1, WriteFacts, TypeFacts DEF ProcInv
  <2>2. wr'[p].tot = wr[p].tot + m /\ wr'[p].o = wr[p].o + m /\ wr'[p].nn = wr[p].nn
    BY TurnIs
  <2> QED
    BY <2>1, <2>2 DEF Turn
<1>5. wr'[p].nn = wr[p].nn /\ wr'[p].n1 = wr[p].n1 /\ wr'[p].i = wr[p].i /\ wr'[p].n = wr[p].n
  BY TurnIs
<1> QED
  BY <1>1, <1>2, <1>3, <1>4, <1>5 DEF ProcInv

\* A turn leaves the other processes alone.
LEMMA TurnKeeps ==
  ASSUME TypeInv, \A q \in Proc : ProcInv(q), NEW p \in Proc, pc[p] = "block", NEW m \in Nat, Turn(p, m),
         UNCHANGED <<pc, fip, off, lock, itype>>
  PROVE  \A q \in Proc : ProcInv(q)'
<1> SUFFICES ASSUME NEW q \in Proc PROVE ProcInv(q)'
  OBVIOUS
<1>1. CASE q = p
  BY <1>1, ProcTurn
<1>2. CASE q # p
  <2>1. pc'[q] = pc[q] /\ wr'[q] = wr[q]
    BY <1>2, TurnIs
  <2> QED
    BY <2>1, ProcSame
<1> QED
  BY <1>1, <1>2

-----------------------------------------------------------------------------
(* The steps keep types, locks and offsets                                 *)

\* An inode that the step does not touch.
LEMMA NodeSame ==
  ASSUME NEW ip \in Ino, NodeInv(ip), itype'[ip] = itype[ip], addrs'[ip] = addrs[ip],
         itype[ip] = "free" => linked'[ip] = linked[ip] /\ \A f \in File : fip'[f] = ip => fip[f] = ip
  PROVE  NodeInv(ip)'
<1>1. itype[ip] = "free" => Opened(ip)' = {}
  BY DEF NodeInv, Opened
<1>2. Runs(addrs[ip])' <=> Runs(addrs[ip])
  <2>1. PICK a : a = addrs[ip] /\ a = addrs'[ip]
    OBVIOUS
  <2>2. Runs(a)' <=> Runs(a)
    BY DEF Runs, Run, Extents, Start, Length
  <2> QED
    BY <2>1, <2>2 DEF Runs, Run, Extents, Start, Length
<1> QED
  BY <1>1, <1>2 DEF NodeInv

\* An inode with no block, whatever its type.
LEMMA NodeEmpty ==
  ASSUME NEW ip \in Ino, itype[ip] # "free", addrs[ip] = ZeroAddrs
  PROVE  NodeInv(ip)
<1>1. NBLOCK \in Nat
  BY Sizes
<1> QED
  BY <1>1, NoRuns DEF NodeInv

\* open(O_CREATE).
LEMMA CreateKeeps ==
  ASSUME IInv, NEW f \in File, NEW ip \in Ino, NEW type \in {"T_FILE", "T_CS"}, create(f, ip, type)
  PROVE  IInv'
<1>1. TypeInv'
  BY TypeFacts, NoRuns DEF IInv, create, TypeInv, TypeOK, Addrs
<1>2. /\ itype' = [itype EXCEPT ![ip] = type] /\ addrs' = [addrs EXCEPT ![ip] = ZeroAddrs]
      /\ linked' = [linked EXCEPT ![ip] = TRUE] /\ size' = [size EXCEPT ![ip] = 0]
      /\ fip' = [fip EXCEPT ![f] = ip] /\ off' = [off EXCEPT ![f] = 0] /\ fip[f] = NoIno /\ itype[ip] = "free"
      /\ UNCHANGED <<lock, pc, wr>>
  BY DEF create
<1>3. ASSUME NEW jp \in Ino PROVE NodeInv(jp)'
  <2>1. CASE jp = ip
    <3>1. itype'[ip] # "free" /\ addrs'[ip] = ZeroAddrs
      BY <1>2, TypeFacts DEF IInv
    <3>2. (itype[ip] # "free" /\ addrs[ip] = ZeroAddrs => NodeInv(ip))'
      BY NodeEmpty, PTL
    <3> QED
      BY <2>1, <3>1, <3>2 DEF ZeroAddrs
  <2>2. CASE jp # ip
    <3>1. itype'[jp] = itype[jp] /\ addrs'[jp] = addrs[jp] /\ linked'[jp] = linked[jp]
      BY <1>2, <2>2, TypeFacts DEF IInv
    <3>2. \A g \in File : fip'[g] = jp => fip[g] = jp
      BY <1>2, <2>2, TypeFacts DEF IInv
    <3>3. NodeInv(jp)
      BY DEF IInv
    <3> QED
      BY <3>1, <3>2, <3>3, NodeSame
  <2> QED
    BY <2>1, <2>2
<1>4. ASSUME NEW g \in File PROVE FileInv(g)'
  <2>1. CASE g = f
    <3>1. off'[g] = 0 /\ fip'[g] = ip /\ size'[ip] = 0
      BY <1>2, <2>1, TypeFacts DEF IInv
    <3> QED
      BY <3>1 DEF FileInv
  <2>2. CASE g # f
    <3>1. off'[g] = off[g] /\ fip'[g] = fip[g] /\ FileInv(g)
      BY <1>2, <2>2, TypeFacts DEF IInv
    <3>2. fip[g] # ip
      BY <1>2 DEF IInv, NodeInv, Opened
    <3>3. fip[g] \in Ino => size'[fip[g]] = size[fip[g]]
      BY <1>2, <3>2, TypeFacts DEF IInv
    <3> QED
      BY <3>1, <3>3 DEF FileInv
  <2> QED
    BY <2>1, <2>2
<1>5. ASSUME NEW q \in Proc PROVE ProcInv(q)'
  <2>1. ProcInv(q) /\ TypeInv
    BY DEF IInv
  <2>2. pc'[q] = pc[q] /\ wr'[q] = wr[q]
    BY <1>2
  <2>3. pc[q] # "idle" => wr[q].f # f /\ wr[q].f \in File /\ fip[wr[q].f] # ip /\ fip[wr[q].f] \in Ino
    BY <1>2, <2>1, SentinelAssumption DEF IInv, ProcInv, NodeInv, Opened
  <2>4. pc[q] # "idle" => /\ fip'[wr[q].f] = fip[wr[q].f] /\ off'[wr[q].f] = off[wr[q].f]
                          /\ itype'[fip[wr[q].f]] = itype[fip[wr[q].f]]
    BY <1>2, <2>1, <2>3, TypeFacts
  <2>5. pc[q] \in {"block", "end"} => pc[q] # "idle" /\ lock'[fip[wr[q].f]] = lock[fip[wr[q].f]]
    BY <1>2
  <2> QED
    BY <2>1, <2>2, <2>4, <2>5, ProcSame
<1> QED
  BY <1>1, <1>3, <1>4, <1>5 DEF IInv

\* open().
LEMMA OpenKeeps ==
  ASSUME IInv, NEW f \in File, NEW ip \in Ino, open(f, ip)
  PROVE  IInv'
<1>0. TypeInv
  BY DEF IInv
<1>1. TypeInv'
  BY <1>0, TypeFacts DEF open, TypeInv, TypeOK, inodeVars
<1>2. /\ fip' = [fip EXCEPT ![f] = ip] /\ off' = [off EXCEPT ![f] = 0] /\ fip[f] = NoIno /\ linked[ip]
      /\ UNCHANGED <<lock, pc, wr, itype, addrs, linked, size>>
  BY DEF open, inodeVars
<1>3. ASSUME NEW jp \in Ino PROVE NodeInv(jp)'
  <2>1. NodeInv(jp) /\ NodeInv(ip)
    BY DEF IInv
  <2>2. itype[jp] = "free" => jp # ip
    BY <1>2, <2>1 DEF NodeInv
  <2>3. itype[jp] = "free" => \A g \in File : fip'[g] = jp => fip[g] = jp
    BY <1>0, <1>2, <2>2, TypeFacts
  <2> QED
    BY <1>2, <2>1, <2>3, NodeSame
<1>4. ASSUME NEW g \in File PROVE FileInv(g)'
  <2>1. FileInv(g) /\ size[ip] \in Nat
    BY <1>0, TypeFacts DEF IInv
  <2>2. CASE g = f
    <3>1. off'[g] = 0 /\ fip'[g] = ip /\ size'[ip] \in Nat
      BY <1>0, <1>2, <2>1, <2>2, TypeFacts
    <3> QED
      BY <3>1 DEF FileInv
  <2>3. CASE g # f
    <3>1. off'[g] = off[g] /\ fip'[g] = fip[g] /\ size' = size
      BY <1>0, <1>2, <2>3, TypeFacts
    <3> QED
      BY <2>1, <3>1 DEF FileInv
  <2> QED
    BY <2>2, <2>3
<1>5. ASSUME NEW q \in Proc PROVE ProcInv(q)'
  <2>1. ProcInv(q)
    BY DEF IInv
  <2>3. pc[q] # "idle" => wr[q].f # f /\ wr[q].f \in File
    BY <1>2, <2>1, SentinelAssumption DEF ProcInv
  <2>4. pc[q] # "idle" => fip'[wr[q].f] = fip[wr[q].f] /\ off'[wr[q].f] = off[wr[q].f]
    BY <1>0, <1>2, <2>3, TypeFacts
  <2> QED
    BY <1>2, <2>1, <2>4, ProcSame
<1> QED
  BY <1>1, <1>3, <1>4, <1>5 DEF IInv

\* What freeing an inode leaves.
LEMMA FreedTypes ==
  ASSUME TypeInv, NEW ip \in Ino, FreeInode(ip)
  PROVE  /\ bitmap' \in SUBSET (1..NBLOCK)
         /\ data' \in [1..NBLOCK -> [0..BSIZE-1 -> Byte]]
         /\ ind' \in [1..NBLOCK -> [0..NINDIRECT-1 -> 0..NBLOCK]]
         /\ itype' = [itype EXCEPT ![ip] = "free"] /\ addrs' = [addrs EXCEPT ![ip] = ZeroAddrs]
         /\ size' = [size EXCEPT ![ip] = 0] /\ addrs' \in [Ino -> Addrs]
         /\ itype' \in [Ino -> {"free", "T_FILE", "T_CS"}] /\ size' \in [Ino -> Nat] /\ panicked' \in Panic
<1>1. JunkBlock \in [0..BSIZE-1 -> Byte]
  BY DEF JunkBlock, Byte
<1>2. ZeroPointers \in [0..NINDIRECT-1 -> 0..NBLOCK]
  BY Sizes DEF ZeroPointers
<1>3. bitmap' = bitmap \ Blocks(ip)
  BY DEF FreeInode
<1>4. data' \in [1..NBLOCK -> [0..BSIZE-1 -> Byte]]
  BY <1>1, TypeFacts DEF FreeInode
<1>5. ind' \in [1..NBLOCK -> [0..NINDIRECT-1 -> 0..NBLOCK]]
  BY <1>2, TypeFacts DEF FreeInode
<1>6. panicked' \in Panic
  BY DEF FreeInode, Panic
<1> QED
  BY <1>3, <1>4, <1>5, <1>6, TypeFacts, NoRuns DEF FreeInode

\* An inode that has no name and no open file is freed.
LEMMA FreeNodes ==
  ASSUME IInv, NEW ip \in Ino, FreeInode(ip), linked' \in [Ino -> BOOLEAN], ~linked'[ip],
         \A jp \in Ino : jp # ip => linked'[jp] = linked[jp],
         \A g \in File : fip'[g] # ip, \A g \in File : fip'[g] \in Ino => fip'[g] = fip[g]
  PROVE  \A jp \in Ino : NodeInv(jp)'
<1> SUFFICES ASSUME NEW jp \in Ino PROVE NodeInv(jp)'
  OBVIOUS
<1>0. TypeInv /\ NodeInv(jp)
  BY DEF IInv
<1>1. CASE jp = ip
  <2>1. itype'[ip] = "free" /\ addrs'[ip] = ZeroAddrs
    BY <1>0, FreedTypes, TypeFacts
  <2>2. (\A i \in 0..NDIRECT : ZeroAddrs[i] = 0) /\ NBLOCK \in Nat
    BY NoRuns, Sizes
  <2>3. addrs'[ip] = ZeroAddrs'
    BY <2>1 DEF ZeroAddrs
  <2>4. Opened(ip)' = {}
    BY DEF Opened
  <2> QED
    BY <1>1, <2>1, <2>2, <2>3, <2>4 DEF NodeInv
<1>2. CASE jp # ip
  <2>1. itype'[jp] = itype[jp] /\ addrs'[jp] = addrs[jp]
    BY <1>0, <1>2, FreedTypes, TypeFacts
  <2> QED
    BY <1>0, <1>2, <2>1, NodeSame
<1> QED
  BY <1>1, <1>2

\* unlink().
LEMMA UnlinkKeeps ==
  ASSUME IInv, NEW ip \in Ino, unlink(ip)
  PROVE  IInv'
<1>0. TypeInv
  BY DEF IInv
<1>1. /\ linked' = [linked EXCEPT ![ip] = FALSE] /\ linked[ip]
      /\ UNCHANGED <<fip, off, lock, pc, wr>>
  BY DEF unlink
<1>2. linked' \in [Ino -> BOOLEAN] /\ ~linked'[ip] /\ \A jp \in Ino : jp # ip => linked'[jp] = linked[jp]
  BY <1>0, <1>1, TypeFacts
<1>3. CASE Opened(ip) = {} /\ FreeInode(ip)
  <2>1. \A g \in File : fip[g] # ip
    BY <1>3 DEF Opened
  <2>2. TypeInv'
    BY <1>0, <1>1, <1>2, <1>3, FreedTypes, TypeFacts DEF TypeInv, TypeOK, Addrs
  <2>3. \A jp \in Ino : NodeInv(jp)'
    BY <1>1, <1>2, <1>3, <2>1, FreeNodes
  <2>4. \A jp \in Ino : jp # ip => itype'[jp] = itype[jp] /\ size'[jp] = size[jp]
    BY <1>0, <1>3, FreedTypes, TypeFacts
  <2>5. \A g \in File : FileInv(g)'
    BY <1>1, <2>1, <2>4 DEF IInv, FileInv
  <2>6. ASSUME NEW q \in Proc PROVE ProcInv(q)'
    <3>1. ProcInv(q)
      BY DEF IInv
    <3>2. pc[q] # "idle" => fip[wr[q].f] \in Ino /\ fip[wr[q].f] # ip
      BY <2>1, <3>1 DEF ProcInv
    <3>3. pc[q] \in {"block", "end"} => itype'[fip[wr[q].f]] = itype[fip[wr[q].f]]
      BY <2>4, <3>2
    <3> QED
      BY <1>1, <3>1, <3>3, ProcSame
  <2> QED
    BY <2>2, <2>3, <2>5, <2>6 DEF IInv
<1>4. CASE UNCHANGED <<bitmap, data, ind, addrs, size, itype, panicked>>
  <2>1. TypeInv'
    BY <1>0, <1>1, <1>2, <1>4, TypeFacts DEF TypeInv, TypeOK, Addrs
  <2>2. ASSUME NEW jp \in Ino PROVE NodeInv(jp)'
    <3>1. NodeInv(jp) /\ NodeInv(ip)
      BY DEF IInv
    <3>2. itype[jp] = "free" => linked'[jp] = linked[jp]
      BY <1>1, <1>2, <3>1 DEF NodeInv
    <3> QED
      BY <1>1, <1>4, <3>1, <3>2, NodeSame
  <2>3. \A g \in File : FileInv(g)'
    BY <1>1, <1>4 DEF IInv, FileInv
  <2>4. \A q \in Proc : ProcInv(q)'
    BY <1>1, <1>4, ProcSame DEF IInv
  <2> QED
    BY <2>1, <2>2, <2>3, <2>4 DEF IInv
<1> QED
  BY <1>3, <1>4 DEF unlink

\* close().
LEMMA CloseKeeps ==
  ASSUME IInv, NEW f \in File, fileclose(f)
  PROVE  IInv'
<1>0. TypeInv
  BY DEF IInv
<1>1. /\ fip' = [fip EXCEPT ![f] = NoIno] /\ off' = [off EXCEPT ![f] = 0] /\ fip[f] # NoIno
      /\ UNCHANGED <<linked, lock, pc, wr>> /\ \A p \in Proc : wr[p].f # f
  BY DEF fileclose
<1>2. PICK ip \in Ino : ip = fip[f]
  BY <1>0, <1>1, TypeFacts
<1>3. /\ fip' \in [File -> Ino \cup {NoIno}] /\ off' \in [File -> Nat]
      /\ \A g \in File : g # f => fip'[g] = fip[g] /\ off'[g] = off[g]
      /\ fip'[f] = NoIno /\ NoIno \notin Ino
  BY <1>0, <1>1, TypeFacts, SentinelAssumption
<1>4. \A g \in File : fip'[g] \in Ino => fip'[g] = fip[g]
  BY <1>3
<1>5. CASE Opened(ip) = {f} /\ ~linked[ip] /\ FreeInode(ip)
  <2>1. \A g \in File : g # f => fip[g] # ip
    BY <1>5 DEF Opened
  <2>2. TypeInv'
    BY <1>0, <1>1, <1>3, <1>5, FreedTypes, TypeFacts DEF TypeInv, TypeOK, Addrs
  <2>3. \A g \in File : fip'[g] # ip
    BY <1>3, <2>1
  <2>4. \A jp \in Ino : NodeInv(jp)'
    <3>1. linked' \in [Ino -> BOOLEAN] /\ ~linked'[ip] /\ \A jp \in Ino : jp # ip => linked'[jp] = linked[jp]
      BY <1>0, <1>1, <1>5, TypeFacts
    <3> QED
      BY <1>4, <1>5, <2>3, <3>1, FreeNodes
  <2>5. \A jp \in Ino : jp # ip => itype'[jp] = itype[jp] /\ size'[jp] = size[jp]
    BY <1>0, <1>5, FreedTypes, TypeFacts
  <2>6. \A g \in File : FileInv(g)'
    BY <1>3, <2>1, <2>5 DEF IInv, FileInv
  <2>7. ASSUME NEW q \in Proc PROVE ProcInv(q)'
    <3>1. ProcInv(q)
      BY DEF IInv
    <3>2. pc[q] # "idle" => /\ wr[q].f \in File /\ wr[q].f # f /\ fip[wr[q].f] \in Ino /\ fip[wr[q].f] # ip
      BY <1>1, <2>1, <3>1 DEF ProcInv
    <3>3. pc[q] # "idle" => /\ fip'[wr[q].f] = fip[wr[q].f] /\ off'[wr[q].f] = off[wr[q].f]
                            /\ itype'[fip[wr[q].f]] = itype[fip[wr[q].f]]
      BY <1>3, <2>5, <3>2
    <3> QED
      BY <1>1, <3>1, <3>3, ProcSame
  <2> QED
    BY <2>2, <2>4, <2>6, <2>7 DEF IInv
<1>6. CASE UNCHANGED <<bitmap, data, ind, addrs, size, itype, panicked>>
  <2>1. TypeInv'
    BY <1>0, <1>1, <1>3, <1>6, TypeFacts DEF TypeInv, TypeOK, Addrs
  <2>2. ASSUME NEW jp \in Ino PROVE NodeInv(jp)'
    <3>1. NodeInv(jp)
      BY DEF IInv
    <3>2. \A g \in File : fip'[g] = jp => fip[g] = jp
      BY <1>4
    <3> QED
      BY <1>1, <1>6, <3>1, <3>2, NodeSame
  <2>3. \A g \in File : FileInv(g)'
    BY <1>3, <1>6 DEF IInv, FileInv
  <2>4. ASSUME NEW q \in Proc PROVE ProcInv(q)'
    <3>1. ProcInv(q)
      BY DEF IInv
    <3>2. pc[q] # "idle" => wr[q].f \in File /\ wr[q].f # f
      BY <1>1, <3>1 DEF ProcInv
    <3>3. pc[q] # "idle" => /\ fip'[wr[q].f] = fip[wr[q].f] /\ off'[wr[q].f] = off[wr[q].f]
      BY <1>3, <3>2
    <3> QED
      BY <1>1, <1>6, <3>1, <3>3, ProcSame
  <2> QED
    BY <2>1, <2>2, <2>3, <2>4 DEF IInv
<1> QED
  BY <1>2, <1>5, <1>6 DEF fileclose

\* Steps that move processes and offsets only.
LEMMA NodesAside ==
  ASSUME IInv, UNCHANGED <<itype, addrs, linked, fip>>
  PROVE  \A jp \in Ino : NodeInv(jp)'
  BY NodeSame DEF IInv

\* write() begins.
LEMMA WriteKeeps ==
  ASSUME IInv, NEW p \in Proc, NEW f \in File, NEW n \in Lengths, sys_write(p, f, n)
  PROVE  IInv'
<1>0. TypeInv /\ n \in Nat \ {0}
  BY Sizes DEF IInv
<1> DEFINE w == [NoWrite EXCEPT !.f = f, !.n = n]
<1>1. /\ wr' = [wr EXCEPT ![p] = w] /\ pc' = [pc EXCEPT ![p] = "chunk"] /\ fip[f] # NoIno
      /\ UNCHANGED <<bitmap, data, ind, itype, linked, addrs, size, fip, off, lock, panicked>>
  BY DEF sys_write, inodeVars
<1>2. w \in Write /\ w.f = f /\ w.n = n /\ w.i = 0
  <2>1. NoWrite \in Write /\ NoWrite.i = 0
    BY DEF NoWrite, Write
  <2> QED
    BY <1>0, <2>1 DEF Write
<1>3. w.f = f /\ w.n = n /\ w.i = 0
  BY <1>2
<1> HIDE DEF w
<1>4. TypeInv'
  BY <1>0, <1>1, <1>2, TypeFacts DEF TypeInv, TypeOK, Addrs
<1>5. \A g \in File : FileInv(g)'
  BY <1>1 DEF IInv, FileInv
<1>6. ASSUME NEW q \in Proc PROVE ProcInv(q)'
  <2>1. CASE q = p
    <3>1. wr'[p] = w /\ pc'[p] = "chunk" /\ fip'[f] \in Ino
      BY <1>0, <1>1, TypeFacts
    <3> QED
      BY <1>0, <1>3, <2>1, <3>1 DEF ProcInv
  <2>2. CASE q # p
    <3>1. wr'[q] = wr[q] /\ pc'[q] = pc[q]
      BY <1>0, <1>1, <2>2, TypeFacts
    <3>2. ProcInv(q)
      BY DEF IInv
    <3> QED
      BY <1>1, <3>1, <3>2, ProcSame
  <2> QED
    BY <2>1, <2>2
<1> QED
  BY <1>1, <1>4, <1>5, <1>6, NodesAside DEF IInv

\* readi() never goes beyond the end of the file.
LEMMA ReadIs ==
  ASSUME NEW ip, NEW o \in Nat, NEW n \in Nat, size[ip] \in Nat, o <= size[ip]
  PROVE  readi(ip, o, n) \in Nat /\ o + readi(ip, o, n) <= size[ip]
<1>1. PICK d \in Nat : d = size[ip] - o
  OBVIOUS
<1>2. PICK want : want = Min({n, d})
  OBVIOUS
<1>3. want \in Nat /\ want <= d
  <2>1. n \in Int /\ d \in Int
    OBVIOUS
  <2>2. Min({n, d}) \in {n, d} /\ Min({n, d}) <= d
    BY <2>1, MinTwo
  <2> QED
    BY <1>2, <2>2
<1> DEFINE gaps == {x \in 0..want-1 : Lookup(ip, (o + x) \div BSIZE) = 0}
           S == gaps \cup {want}
<1>4. readi(ip, o, n) = Min(S)
  BY <1>1, <1>2 DEF readi
<1>5. S \in SUBSET Nat /\ S # {} /\ want \in S
  BY <1>3
<1> HIDE DEF S
<1>6. Min(S) \in S /\ Min(S) <= want
  BY <1>5, MinIs
<1>7. PICK m \in Nat : m = Min(S) /\ m <= d
  <2>1. PICK m \in Nat : m = Min(S) /\ m <= want
    BY <1>5, <1>6
  <2>2. m <= d
    BY <1>3, <2>1
  <2> QED
    BY <2>1, <2>2
<1>8. o + m <= size[ip]
  BY <1>1, <1>7
<1> QED
  BY <1>4, <1>7, <1>8

\* read().
LEMMA ReadKeeps ==
  ASSUME IInv, NEW p \in Proc, NEW f \in File, NEW n \in ReadLengths, fileread(p, f, n)
  PROVE  IInv'
<1>0. TypeInv /\ n \in Nat
  BY Sizes DEF IInv
<1>1. /\ fip[f] # NoIno /\ lock[fip[f]] = NoProc
      /\ off' = [off EXCEPT ![f] = off[f] + readi(fip[f], off[f], n)]
      /\ UNCHANGED <<bitmap, data, ind, itype, linked, addrs, size, fip, lock, pc, wr, panicked>>
  BY DEF fileread, inodeVars
<1>2. PICK ip \in Ino : ip = fip[f]
  BY <1>0, <1>1, TypeFacts
<1>3. off[f] \in Nat /\ size[ip] \in Nat /\ off[f] <= size[ip]
  BY <1>0, <1>2, TypeFacts DEF IInv, FileInv
<1>4. PICK r : r = readi(ip, off[f], n)
  OBVIOUS
<1>5. r \in Nat /\ off[f] + r <= size[ip]
  BY <1>0, <1>3, <1>4, ReadIs
<1>6. /\ off' \in [File -> Nat] /\ off'[f] = off[f] + r /\ off[f] + r \in Nat
      /\ \A g \in File : g # f => off'[g] = off[g]
  BY <1>0, <1>1, <1>2, <1>3, <1>4, <1>5, TypeFacts
<1>7. TypeInv'
  BY <1>0, <1>1, <1>6, TypeFacts DEF TypeInv, TypeOK, Addrs
<1>8. ASSUME NEW g \in File PROVE FileInv(g)'
  <2>1. CASE g = f
    <3>1. off'[g] <= size'[ip] /\ fip'[g] = ip
      BY <1>1, <1>2, <1>5, <1>6, <2>1
    <3> QED
      BY <3>1 DEF FileInv
  <2>2. CASE g # f
    BY <1>1, <1>6, <2>2 DEF IInv, FileInv
  <2> QED
    BY <2>1, <2>2
<1>9. ASSUME NEW q \in Proc PROVE ProcInv(q)'
  <2>1. ProcInv(q)
    BY DEF IInv
  <2>2. pc[q] \in {"block", "end"} => wr[q].f \in File /\ wr[q].f # f
    BY <1>1, <2>1, SentinelAssumption DEF ProcInv
  <2>3. pc[q] \in {"block", "end"} => off'[wr[q].f] = off[wr[q].f]
    BY <1>6, <2>2
  <2> QED
    BY <1>1, <2>1, <2>3, ProcSame
<1> QED
  BY <1>1, <1>7, <1>8, <1>9, NodesAside DEF IInv

\* filewrite() takes the next chunk: what writei() finds when it has the lock.
Chunk(p, m, k) ==
    [wr[p] EXCEPT !.n1 = m, !.tot = 0, !.o = off[wr[p].f], !.nn = k]

\* The chunk is not empty and ends below the limit.
LEMMA BeginIs ==
  ASSUME TypeInv, NEW p \in Proc, ProcInv(p), writei_begin(p)
  PROVE  /\ pc[p] = "chunk" /\ wr[p].f \in File /\ fip[wr[p].f] \in Ino /\ lock[fip[wr[p].f]] = NoProc
         /\ UNCHANGED <<bitmap, data, ind, itype, linked, addrs, size, fip, off, panicked>>
         /\ \/ pc' = [pc EXCEPT ![p] = "idle"] /\ wr' = [wr EXCEPT ![p] = NoWrite] /\ UNCHANGED lock
            \/ \E m \in Nat, k \in Nat :
                  /\ k >= 1 /\ k <= m /\ wr[p].i + m <= wr[p].n
                  /\ off[wr[p].f] + k <= Limit(fip[wr[p].f])
                  /\ pc' = [pc EXCEPT ![p] = "block"] /\ lock' = [lock EXCEPT ![fip[wr[p].f]] = p]
                  /\ wr' = [wr EXCEPT ![p] = Chunk(p, m, k)]
                  /\ off[wr[p].f] <= size[fip[wr[p].f]]
<1>1. /\ pc[p] = "chunk" /\ lock[fip[wr[p].f]] = NoProc
      /\ UNCHANGED <<bitmap, data, ind, itype, linked, addrs, size, fip, off, panicked>>
  BY DEF writei_begin, inodeVars
<1>2. PICK f \in File : f = wr[p].f /\ fip[f] \in Ino
  BY <1>1 DEF ProcInv
<1>3. PICK ip \in Ino : ip = fip[f]
  BY <1>2
<1>4. PICK o \in Nat : o = off[f]
  BY TypeFacts
<1>5. wr[p].i \in Nat /\ wr[p].n \in Nat /\ wr[p].i < wr[p].n
  BY <1>1, WriteFacts DEF ProcInv
<1>6. PICK d \in Nat \ {0} : d = wr[p].n - wr[p].i
  BY <1>5
<1>7. PICK m \in Nat \ {0} : m = Min({d, MaxChunk}) /\ m <= d
  <2>1. MaxChunk \in Nat \ {0}
    BY Sizes
  <2>2. MaxChunk \in Int /\ d \in Int
    BY <2>1
  <2>3. Min({d, MaxChunk}) \in {d, MaxChunk} /\ Min({d, MaxChunk}) <= d
    BY <2>2, MinTwo
  <2> QED
    BY <2>1, <2>3
<1>8. PICK t \in Nat : t = Limit(ip)
  BY LimitNat
<1> DEFINE refused == o > size[ip] \/ (o + m > t /\ (itype[ip] # "T_CS" \/ o >= t))
           k == Min({m, t - o})
<1>9. IF refused
      THEN pc' = [pc EXCEPT ![p] = "idle"] /\ wr' = [wr EXCEPT ![p] = NoWrite] /\ UNCHANGED lock
      ELSE /\ lock' = [lock EXCEPT ![ip] = p] /\ pc' = [pc EXCEPT ![p] = "block"]
           /\ wr' = [wr EXCEPT ![p] = [wr[p] EXCEPT !.n1 = m, !.tot = 0, !.o = o, !.nn = k]]
  BY <1>2, <1>3, <1>4, <1>6, <1>7, <1>8 DEF writei_begin
<1>10. CASE refused
  BY <1>1, <1>2, <1>9, <1>10
<1>11. CASE ~refused
  <2>1. size[ip] \in Nat
    BY TypeFacts
  <2>2. t - o >= 1 /\ t - o \in Int /\ m \in Int /\ o <= size[ip]
    BY <1>11, <2>1
  <2>3. PICK c \in Nat \ {0} : c = t - o
    BY <2>2
  <2>4. k \in {m, c} /\ k <= m /\ k <= c
    BY <2>2, <2>3, MinTwo
  <2>5. PICK x \in Nat : x = k /\ x >= 1 /\ x <= m /\ x <= c
    BY <2>4
  <2>6. wr' = [wr EXCEPT ![p] = Chunk(p, m, x)] /\ lock' = [lock EXCEPT ![ip] = p] /\ pc' = [pc EXCEPT ![p] = "block"]
    <3>1. wr' = [wr EXCEPT ![p] = [wr[p] EXCEPT !.n1 = m, !.tot = 0, !.o = o, !.nn = k]]
          /\ lock' = [lock EXCEPT ![ip] = p] /\ pc' = [pc EXCEPT ![p] = "block"]
      BY <1>9, <1>11
    <3> HIDE DEF k
    <3> QED
      BY <1>2, <1>4, <2>5, <3>1 DEF Chunk
  <2>7. o + x <= t /\ wr[p].i + m <= wr[p].n
    BY <1>5, <1>6, <1>7, <2>3, <2>5
  <2> HIDE DEF k, refused
  <2>8. m \in Nat /\ x \in Nat /\ x >= 1 /\ x <= m
    BY <2>5
  <2>9. off[wr[p].f] + x <= Limit(fip[wr[p].f]) /\ lock' = [lock EXCEPT ![fip[wr[p].f]] = p]
        /\ off[wr[p].f] <= size[fip[wr[p].f]]
    BY <1>2, <1>3, <1>4, <1>8, <2>2, <2>6, <2>7
  <2> QED
    BY <1>1, <1>2, <2>6, <2>7, <2>8, <2>9
<1> QED
  BY <1>10, <1>11

\* The fields of the chunk.
LEMMA ChunkIs ==
  ASSUME TypeInv, NEW p \in Proc, wr[p].f \in File, NEW m \in Nat, NEW k \in Nat
  PROVE  /\ Chunk(p, m, k) \in Write
         /\ Chunk(p, m, k).f = wr[p].f /\ Chunk(p, m, k).n = wr[p].n /\ Chunk(p, m, k).i = wr[p].i
         /\ Chunk(p, m, k).n1 = m /\ Chunk(p, m, k).tot = 0 /\ Chunk(p, m, k).nn = k
         /\ Chunk(p, m, k).o = off[wr[p].f]
<1>1. wr[p] \in Write /\ off[wr[p].f] \in Nat
  BY TypeFacts
<1> QED
  BY <1>1 DEF Chunk, Write

\* NoWrite is the record of a process outside write().
LEMMA NoWriteIs ==
  NoWrite \in Write /\ NoWrite.f = NoFile /\ NoWrite.i = 0
  BY DEF NoWrite, Write

\* filewrite() and the beginning of writei().
LEMMA BeginKeeps ==
  ASSUME IInv, NEW p \in Proc, writei_begin(p)
  PROVE  IInv'
<1>0. TypeInv /\ ProcInv(p)
  BY DEF IInv
<1>1. /\ pc[p] = "chunk" /\ wr[p].f \in File /\ fip[wr[p].f] \in Ino /\ lock[fip[wr[p].f]] = NoProc
      /\ UNCHANGED <<bitmap, data, ind, itype, linked, addrs, size, fip, off, panicked>>
  BY <1>0, BeginIs
<1>2. \A g \in File : FileInv(g)'
  BY <1>1 DEF IInv, FileInv
<1>3. ASSUME NEW w \in Write, NEW s \in {"idle", "block"}, pc' = [pc EXCEPT ![p] = s], wr' = [wr EXCEPT ![p] = w],
             lock' = lock \/ lock' = [lock EXCEPT ![fip[wr[p].f]] = p], ProcInv(p)'
      PROVE  IInv'
  <2>1. TypeInv'
    BY <1>0, <1>1, <1>3, TypeFacts DEF TypeInv, TypeOK, Addrs
  <2>2. ASSUME NEW q \in Proc, q # p PROVE ProcInv(q)'
    <3>1. pc'[q] = pc[q] /\ wr'[q] = wr[q] /\ ProcInv(q)
      BY <1>0, <1>3, <2>2, TypeFacts DEF IInv
    <3>2. pc[q] \in {"block", "end"} => fip[wr[q].f] \in Ino /\ fip[wr[q].f] # fip[wr[p].f]
      BY <1>1, <3>1, SentinelAssumption DEF ProcInv
    <3>3. pc[q] \in {"block", "end"} => lock'[fip[wr[q].f]] = lock[fip[wr[q].f]]
      BY <1>0, <1>3, <3>2, TypeFacts
    <3> QED
      BY <1>1, <3>1, <3>3, ProcSame
  <2>3. \A q \in Proc : ProcInv(q)'
    BY <1>3, <2>2
  <2> QED
    BY <1>1, <1>2, <2>1, <2>3, NodesAside DEF IInv
<1>4. CASE pc' = [pc EXCEPT ![p] = "idle"] /\ wr' = [wr EXCEPT ![p] = NoWrite] /\ UNCHANGED lock
  <2>1. pc'[p] = "idle"
    BY <1>0, <1>4, TypeFacts
  <2>2. ProcInv(p)'
    BY <2>1 DEF ProcInv
  <2> QED
    BY <1>3, <1>4, <2>2, NoWriteIs
<1>5. ASSUME NEW m \in Nat, NEW k \in Nat, k >= 1 /\ k <= m /\ wr[p].i + m <= wr[p].n,
             off[wr[p].f] + k <= Limit(fip[wr[p].f]),
             pc' = [pc EXCEPT ![p] = "block"] /\ lock' = [lock EXCEPT ![fip[wr[p].f]] = p],
             wr' = [wr EXCEPT ![p] = Chunk(p, m, k)]
      PROVE  IInv'
  <2>1. PICK f \in File : f = wr[p].f
    BY <1>1
  <2>2. PICK ip \in Ino : ip = fip[f] /\ ip = fip'[f]
    BY <1>1, <2>1
  <2>3. PICK w \in Write : /\ w = Chunk(p, m, k)
                           /\ w.f = f /\ w.n = wr[p].n /\ w.i = wr[p].i
                           /\ w.n1 = m /\ w.tot = 0 /\ w.nn = k /\ w.o = off[f]
    BY <1>0, <2>1, ChunkIs
  <2>4. wr'[p] = w /\ pc'[p] = "block" /\ lock'[ip] = p /\ off'[f] = off[f] /\ off[f] \in Nat
    BY <1>0, <1>1, <1>5, <2>1, <2>2, <2>3, TypeFacts
  <2>5. Limit(ip)' = Limit(ip)
    BY <1>1 DEF Limit
  <2>6. Limit(fip[wr[p].f])' = Limit(ip) /\ off[f] + k <= Limit(ip)
    BY <1>5, <2>1, <2>2, <2>3, <2>4, <2>5
  <2>7. ProcInv(p)'
    BY <1>5, <2>2, <2>3, <2>4, <2>6 DEF ProcInv
  <2> QED
    BY <1>3, <1>5, <2>3, <2>7
<1> QED
  BY <1>0, <1>4, <1>5, BeginIs

\* The end of writei(): the size grows up to where the chunk has come, the offset with it.
LEMMA EndKeeps ==
  ASSUME IInv, NEW p \in Proc, writei_end(p)
  PROVE  IInv'
<1>0. TypeInv /\ ProcInv(p)
  BY DEF IInv
<1>1. pc[p] \in {"block", "end"} /\ UNCHANGED <<bitmap, data, ind, itype, linked, addrs, fip, panicked>>
  BY DEF writei_end
<1>2. PICK f \in File : f = wr[p].f
  BY <1>0, <1>1 DEF ProcInv
<1>3. PICK ip \in Ino : ip = fip[f]
  BY <1>0, <1>1, <1>2 DEF ProcInv
<1>4. /\ wr[p].nn > 0 /\ wr[p].o = off[f] + wr[p].tot /\ lock[ip] = p
      /\ wr[p].o \in Nat /\ wr[p].tot \in Nat /\ off[f] \in Nat /\ size[ip] \in Nat
      /\ wr[p].i \in Nat /\ wr[p].n \in Nat
  BY <1>0, <1>1, <1>2, <1>3, WriteFacts, TypeFacts DEF ProcInv
<1>5. PICK i \in Nat : i = wr[p].i + wr[p].tot
  BY <1>4
<1>6. PICK z \in Nat : z = (IF wr[p].nn > 0 /\ wr[p].o > size[ip] THEN wr[p].o ELSE size[ip])
  BY <1>4
<1>7. z >= size[ip] /\ off[f] + wr[p].tot <= z
  BY <1>4, <1>6
<1> DEFINE over == wr[p].tot # wr[p].n1 \/ i >= wr[p].n
           next == [NoWrite EXCEPT !.f = f, !.n = wr[p].n, !.i = i]
<1>8. /\ size' = [size EXCEPT ![ip] = z] /\ off' = [off EXCEPT ![f] = off[f] + wr[p].tot]
      /\ lock' = [lock EXCEPT ![ip] = NoProc]
      /\ wr' = [wr EXCEPT ![p] = IF over THEN NoWrite ELSE next]
      /\ pc' = [pc EXCEPT ![p] = IF over THEN "idle" ELSE "chunk"]
  BY <1>2, <1>3, <1>5, <1>6 DEF writei_end
<1>9. next \in Write /\ next.f = f /\ next.n = wr[p].n /\ next.i = i
  <2>1. NoWrite \in Write
    BY NoWriteIs
  <2> QED
    BY <1>4, <2>1 DEF Write
<1> HIDE DEF next
<1>10. PICK w \in Write, s \in {"idle", "chunk"} :
          /\ wr' = [wr EXCEPT ![p] = w] /\ pc' = [pc EXCEPT ![p] = s]
          /\ s = "chunk" => w.f = f /\ w.n = wr[p].n /\ w.i = i /\ i < wr[p].n
  <2>1. CASE over
    BY <1>8, <2>1, NoWriteIs
  <2>2. CASE ~over
    <3>1. wr' = [wr EXCEPT ![p] = next] /\ pc' = [pc EXCEPT ![p] = "chunk"] /\ i < wr[p].n
      BY <1>4, <1>8, <2>2
    <3> QED
      BY <1>9, <3>1
  <2> QED
    BY <2>1, <2>2
<1>11. /\ \A g \in File : g # f => off'[g] = off[g]
       /\ off'[f] = off[f] + wr[p].tot /\ size'[ip] = z /\ \A jp \in Ino : jp # ip => size'[jp] = size[jp]
       /\ \A jp \in Ino : jp # ip => lock'[jp] = lock[jp]
  BY <1>0, <1>8, TypeFacts
<1>12. TypeInv'
  <2>1. off[f] + wr[p].tot \in Nat
    BY <1>4
  <2> QED
    BY <1>0, <1>1, <1>8, <1>10, <2>1, TypeFacts DEF TypeInv, TypeOK, Addrs
<1>13. ASSUME NEW g \in File PROVE FileInv(g)'
  <2>1. FileInv(g) /\ off[g] \in Nat
    BY <1>0, TypeFacts DEF IInv
  <2>2. CASE g = f
    <3>1. off'[g] <= size'[ip] /\ fip'[g] = ip
      BY <1>1, <1>3, <1>7, <1>11, <2>2
    <3> QED
      BY <3>1 DEF FileInv
  <2>3. CASE g # f
    <3>1. off'[g] = off[g] /\ fip'[g] = fip[g]
      BY <1>1, <1>11, <2>3
    <3>2. CASE fip[g] = ip
      <4>1. off[g] <= z
        BY <1>4, <1>7, <2>1, <3>2 DEF FileInv
      <4> QED
        BY <1>11, <3>1, <3>2, <4>1 DEF FileInv
    <3>3. CASE fip[g] # ip
      BY <1>11, <2>1, <3>1, <3>3 DEF FileInv
    <3> QED
      BY <3>2, <3>3
  <2> QED
    BY <2>2, <2>3
<1>14. ASSUME NEW q \in Proc PROVE ProcInv(q)'
  <2>1. CASE q = p
    <3>1. wr'[p] = w /\ pc'[p] = s /\ fip'[f] \in Ino
      BY <1>0, <1>1, <1>3, <1>10, TypeFacts
    <3> QED
      BY <1>10, <2>1, <3>1 DEF ProcInv
  <2>2. CASE q # p
    <3>1. wr'[q] = wr[q] /\ pc'[q] = pc[q] /\ ProcInv(q)
      BY <1>0, <1>10, <2>2, TypeFacts DEF IInv
    <3>2. pc[q] \in {"block", "end"} => wr[q].f \in File /\ wr[q].f # f /\ fip[wr[q].f] # ip /\ fip[wr[q].f] \in Ino
      BY <1>3, <1>4, <2>2, <3>1 DEF ProcInv
    <3>3. pc[q] \in {"block", "end"} => /\ off'[wr[q].f] = off[wr[q].f]
                                        /\ lock'[fip[wr[q].f]] = lock[fip[wr[q].f]]
      BY <1>11, <3>2
    <3> QED
      BY <1>1, <3>1, <3>3, ProcSame
  <2> QED
    BY <2>1, <2>2
<1> QED
  BY <1>1, <1>12, <1>13, <1>14, NodesAside DEF IInv

\* The first free block is free.
LEMMA FirstFreeIs ==
  ASSUME TypeInv, Free # {}
  PROVE  FirstFree \in Free /\ FirstFree \in 1..NBLOCK /\ FirstFree \notin bitmap
<1>1. Free \in SUBSET Nat /\ Free \subseteq 1..NBLOCK
  BY Sizes DEF Free
<1>2. Min(Free) \in Free
  BY <1>1, MinIs
<1> QED
  BY <1>1, <1>2 DEF FirstFree, Free

\* The contents of a block after a turn.
LEMMA PutType ==
  ASSUME TypeInv, NEW b, NEW old, NEW lo, NEW hi, NEW ip \in Ino,
         b \in 1..NBLOCK => old \in [0..BSIZE-1 -> Byte],
         data' = [data EXCEPT ![b] = Filled(old, lo, hi, ip)]
  PROVE  data' \in [1..NBLOCK -> [0..BSIZE-1 -> Byte]]
<1> DEFINE new == Filled(old, lo, hi, ip)
<1>1. b \in 1..NBLOCK => new \in [0..BSIZE-1 -> Byte]
  BY DEF Byte, Filled
<1>2. data' = [data EXCEPT ![b] = new]
  OBVIOUS
<1> HIDE DEF new
<1> QED
  BY <1>1, <1>2, TypeFacts

\* Steps inside a chunk: the process has written a part of it, and its inode's map is as it
\* should be.
LEMMA InnerKeeps ==
  ASSUME IInv, NEW p \in Proc, pc[p] = "block", NEW m \in Nat, Turn(p, m),
         UNCHANGED <<itype, linked, size, fip, off, lock, pc, panicked>>,
         bitmap' \in SUBSET (1..NBLOCK), data' \in [1..NBLOCK -> [0..BSIZE-1 -> Byte]],
         ind' \in [1..NBLOCK -> [0..NINDIRECT-1 -> 0..NBLOCK]],
         addrs' \in [Ino -> Addrs], \A jp \in Ino : NodeInv(jp)'
  PROVE  IInv'
<1>1. TypeInv
  BY DEF IInv
<1>2. wr' \in [Proc -> Write]
  BY <1>1, TurnIs
<1>3. TypeInv'
  BY <1>1, <1>2, TypeFacts DEF TypeInv, TypeOK, Addrs
<1>4. \A q \in Proc : ProcInv(q)'
  BY <1>1, TurnKeeps DEF IInv
<1>5. \A g \in File : FileInv(g)'
  BY DEF IInv, FileInv
<1> QED
  BY <1>3, <1>4, <1>5 DEF IInv

\* Who writes, and where.
LEMMA WriterIs ==
  ASSUME IInv, NEW p \in Proc, More(p)
  PROVE  /\ TypeInv /\ pc[p] = "block" /\ wr[p].f \in File /\ fip[wr[p].f] \in Ino
         /\ itype[fip[wr[p].f]] # "free" /\ lock[fip[wr[p].f]] = p
<1>1. TypeInv /\ pc[p] = "block" /\ ProcInv(p)
  BY DEF IInv, More
<1>2. wr[p].f \in File /\ fip[wr[p].f] \in Ino /\ lock[fip[wr[p].f]] = p
  BY <1>1 DEF ProcInv
<1>3. NodeInv(fip[wr[p].f])
  BY <1>2 DEF IInv
<1> QED
  BY <1>1, <1>2, <1>3 DEF NodeInv, Opened

\* A block that the file has.
LEMMA MappedKeeps ==
  ASSUME IInv, NEW p \in Proc, write_mapped(p)
  PROVE  IInv'
<1>1. More(p) /\ UNCHANGED <<bitmap, ind, itype, linked, addrs, size, fip, off, lock, pc, panicked>>
  BY DEF write_mapped, inodeVars
<1>2. TypeInv /\ pc[p] = "block" /\ fip[wr[p].f] \in Ino
  BY <1>1, WriterIs
<1>3. PICK b : Put(p, b, data[b])
  BY DEF write_mapped
<1>4. PICK m \in Nat : /\ Turn(p, m)
                       /\ data' = [data EXCEPT ![b] = Filled(data[b], wr[p].o % BSIZE, (wr[p].o % BSIZE) + m - 1, fip[wr[p].f])]
  BY <1>1, <1>2, <1>3, PutIs
<1>5. data' \in [1..NBLOCK -> [0..BSIZE-1 -> Byte]]
  <2>1. b \in 1..NBLOCK => data[b] \in [0..BSIZE-1 -> Byte]
    BY <1>2, TypeFacts
  <2> QED
    BY <1>2, <1>4, <2>1, PutType
<1> QED
  BY <1>1, <1>2, <1>4, <1>5, InnerKeeps, NodesAside, TypeFacts

\* csbmap() fails.
LEMMA CsFailKeeps ==
  ASSUME IInv, NEW p \in Proc, write_csfail(p)
  PROVE  IInv'
<1>1. /\ More(p) /\ pc' = [pc EXCEPT ![p] = "end"]
      /\ UNCHANGED <<bitmap, data, ind, itype, linked, addrs, size, fip, off, lock, wr, panicked>>
  BY DEF write_csfail, inodeVars
<1>2. TypeInv /\ pc[p] = "block"
  BY <1>1, WriterIs
<1>3. TypeInv'
  BY <1>1, <1>2, TypeFacts DEF TypeInv, TypeOK, Addrs
<1>4. \A g \in File : FileInv(g)'
  BY <1>1 DEF IInv, FileInv
<1>5. ASSUME NEW q \in Proc PROVE ProcInv(q)'
  <2>1. ProcInv(q)
    BY DEF IInv
  <2>2. CASE q # p
    <3>1. pc'[q] = pc[q] /\ wr'[q] = wr[q]
      BY <1>1, <1>2, <2>2, TypeFacts
    <3> QED
      BY <1>1, <2>1, <3>1, ProcSame
  <2>3. CASE q = p
    <3>1. pc'[p] = "end"
      BY <1>1, <1>2, TypeFacts
    <3>2. \A ip \in Ino : Limit(ip)' = Limit(ip)
      BY <1>1 DEF Limit
    <3> QED
      BY <1>1, <1>2, <2>1, <2>3, <3>1, <3>2 DEF ProcInv
  <2> QED
    BY <2>2, <2>3
<1> QED
  BY <1>1, <1>3, <1>4, <1>5, NodesAside DEF IInv

\* A file of zeros.
LEMMA ZeroTypes ==
  ZeroBlock \in [0..BSIZE-1 -> Byte] /\ ZeroPointers \in [0..NINDIRECT-1 -> 0..NBLOCK]
<1>1. NBLOCK \in Nat
  BY Sizes
<1> QED
  BY <1>1 DEF ZeroBlock, ZeroPointers, Byte

\* csbmap() adds a block.
LEMMA CsGrowKeeps ==
  ASSUME IInv, NEW p \in Proc, write_csgrow(p)
  PROVE  IInv'
<1>1. More(p) /\ UNCHANGED <<itype, linked, size, fip, off, lock, pc, panicked>>
  BY DEF write_csgrow
<1>2. TypeInv /\ pc[p] = "block" /\ fip[wr[p].f] \in Ino
  BY <1>1, WriterIs
<1>3. PICK ip \in Ino : ip = fip[wr[p].f]
  BY <1>2
<1>4. /\ itype[ip] = "T_CS" /\ Free # {} /\ CsAppend(addrs[ip], FirstFree) # addrs[ip]
      /\ bitmap' = bitmap \cup {FirstFree} /\ ind' = [ind EXCEPT ![FirstFree] = ZeroPointers]
      /\ addrs' = [addrs EXCEPT ![ip] = CsAppend(addrs[ip], FirstFree)]
      /\ Put(p, FirstFree, ZeroBlock)
  BY <1>3 DEF write_csgrow, CanGrow
<1>5. PICK b \in 1..NBLOCK : b = FirstFree
  BY <1>2, <1>4, FirstFreeIs
<1>6. PICK m \in Nat : /\ Turn(p, m)
                       /\ data' = [data EXCEPT ![b] = Filled(ZeroBlock, wr[p].o % BSIZE, (wr[p].o % BSIZE) + m - 1, fip[wr[p].f])]
  BY <1>1, <1>2, <1>4, <1>5, PutIs
<1>7. data' \in [1..NBLOCK -> [0..BSIZE-1 -> Byte]]
  BY <1>2, <1>6, PutType, ZeroTypes
<1>8. addrs[ip] \in Addrs /\ Runs(addrs[ip])
  BY <1>2, <1>4, TypeFacts DEF IInv, NodeInv
<1>9. PICK c \in Addrs : c = CsAppend(addrs[ip], b) /\ Runs(c)
  BY <1>4, <1>5, <1>8, AppendRuns
<1>10. addrs' \in [Ino -> Addrs] /\ addrs'[ip] = c /\ \A jp \in Ino : jp # ip => addrs'[jp] = addrs[jp]
  BY <1>2, <1>4, <1>5, <1>9, TypeFacts
<1>11. ASSUME NEW jp \in Ino PROVE NodeInv(jp)'
  <2>1. CASE jp = ip
    <3>1. Runs(addrs[ip])'
      BY <1>9, <1>10 DEF Runs, Run, Extents, Start, Length
    <3> QED
      BY <1>1, <1>4, <2>1, <3>1 DEF NodeInv
  <2>2. CASE jp # ip
    <3>1. NodeInv(jp)
      BY DEF IInv
    <3> QED
      BY <1>1, <1>10, <2>2, <3>1, NodeSame
  <2> QED
    BY <2>1, <2>2
<1>12. bitmap' \in SUBSET (1..NBLOCK)
  BY <1>2, <1>4, <1>5, TypeFacts
<1>13. ind' \in [1..NBLOCK -> [0..NINDIRECT-1 -> 0..NBLOCK]]
  BY <1>2, <1>4, <1>5, TypeFacts, ZeroTypes
<1> QED
  BY <1>1, <1>2, <1>6, <1>7, <1>10, <1>11, <1>12, <1>13, InnerKeeps

\* The quotient is below a bound when the number is below the bound's multiple.
LEMMA DivBelow ==
  ASSUME NEW a \in Nat, NEW n \in Nat \ {0}, NEW k \in Nat, a < k * n
  PROVE  a \div n \in Nat /\ a \div n < k
<1> DEFINE q == a \div n
           r == a % n
<1>1. q \in Int /\ r \in 0..(n - 1) /\ a = n * q + r
  BY ModDiv
<1>2. q \in 0..a
  BY DivSmaller
<1> HIDE DEF q, r
<1>3. ASSUME q >= k PROVE FALSE
  <2>1. n * q >= n * k
    BY <1>1, <1>3
  <2> QED
    BY <1>1, <2>1
<1>4. q \in Nat /\ q < k
  BY <1>1, <1>2, <1>3
<1> QED
  BY <1>4 DEF q

\* The block that a turn is about is within the limit of its file.
LEMMA BlockBelow ==
  ASSUME IInv, NEW p \in Proc, More(p), NEW ip, ip = fip[wr[p].f], NEW k \in Nat, Limit(ip) = k * BSIZE
  PROVE  wr[p].o \div BSIZE \in Nat /\ wr[p].o \div BSIZE < k
<1>1. TypeInv /\ ProcInv(p) /\ pc[p] = "block" /\ wr[p].tot < wr[p].nn
  BY WriterIs DEF IInv, More
<1>2. wr[p].f \in File /\ wr[p].o = off[wr[p].f] + wr[p].tot /\ off[wr[p].f] + wr[p].nn <= Limit(fip[wr[p].f])
  BY <1>1 DEF ProcInv
<1>3. wr[p].o \in Nat /\ off[wr[p].f] \in Nat /\ wr[p].nn \in Nat /\ wr[p].tot \in Nat
  BY <1>1, <1>2, WriteFacts, TypeFacts
<1>4. PICK o \in Nat : o = wr[p].o
  BY <1>3
<1>5. PICK t \in Nat : t = k * BSIZE
  BY Sizes
<1>6. o < t
  BY <1>1, <1>2, <1>3, <1>4, <1>5
<1> QED
  BY <1>4, <1>5, <1>6, DivBelow, Sizes

\* The three ways in which bmap() adds block b to an ordinary file.
GrowsDirect(ip, bn, b) ==
    /\ bn < NDIRECT /\ addrs[ip][bn] = 0 /\ b = FirstFree /\ Free # {}
    /\ bitmap' = bitmap \cup {b}
    /\ addrs' = [addrs EXCEPT ![ip] = [addrs[ip] EXCEPT ![bn] = b]]
    /\ ind' = [ind EXCEPT ![b] = ZeroPointers]

\* A block behind the indirect block that the file has.
GrowsOld(ip, j, b) ==
    /\ addrs[ip][NDIRECT] # 0 /\ ind[addrs[ip][NDIRECT]][j] = 0 /\ b = FirstFree /\ Free # {}
    /\ bitmap' = bitmap \cup {b}
    /\ addrs' = addrs
    /\ ind' = [ind EXCEPT ![b] = ZeroPointers,
                          ![addrs[ip][NDIRECT]] = [ind[addrs[ip][NDIRECT]] EXCEPT ![j] = b]]

\* A block behind an indirect block that is allocated with it.
GrowsNew(ip, j, b) ==
    /\ addrs[ip][NDIRECT] = 0 /\ Free # {} /\ b \in Free /\ b # FirstFree
    /\ bitmap' = bitmap \cup {FirstFree, b}
    /\ addrs' = [addrs EXCEPT ![ip] = [addrs[ip] EXCEPT ![NDIRECT] = FirstFree]]
    /\ ind' = [ind EXCEPT ![b] = ZeroPointers, ![FirstFree] = [ZeroPointers EXCEPT ![j] = b]]

\* bmap() does one of them, or panics.
LEMMA GrowIs ==
  ASSUME IInv, NEW p \in Proc, write_grow(p), NEW ip \in Ino, ip = fip[wr[p].f]
  PROVE  /\ itype[ip] = "T_FILE" /\ UNCHANGED <<itype, linked, size, fip, off, lock, pc>>
         /\ \/ /\ panicked' = "balloc: out of blocks"
               /\ UNCHANGED <<bitmap, data, ind, addrs, wr>>
            \/ /\ UNCHANGED panicked
               /\ \E b \in 1..NBLOCK :
                    /\ b \notin bitmap /\ Put(p, b, ZeroBlock)
                    /\ \/ GrowsDirect(ip, wr[p].o \div BSIZE, b)
                       \/ \E j \in 0..NINDIRECT-1 : /\ j = (wr[p].o \div BSIZE) - NDIRECT
                                                    /\ GrowsOld(ip, j, b) \/ GrowsNew(ip, j, b)
<1>1. /\ More(p) /\ itype[ip] = "T_FILE" /\ UNCHANGED <<itype, linked, size, fip, off, lock, pc>>
      /\ Lookup(ip, wr[p].o \div BSIZE) = 0
  BY DEF write_grow
<1>0. TypeInv
  BY DEF IInv
<1>2. NDIRECT \in Nat \ {0} /\ NINDIRECT \in Nat \ {0} /\ NBLOCK \in Nat
  BY Sizes
<1>3. PICK bn \in Nat : bn = wr[p].o \div BSIZE /\ bn < NDIRECT + NINDIRECT
  <2>1. PICK k \in Nat : k = NDIRECT + NINDIRECT /\ Limit(ip) = k * BSIZE
    BY <1>1, <1>2 DEF Limit, MAXFILE
  <2> QED
    BY <1>1, <2>1, BlockBelow
<1>4. PICK a \in Addrs : a = addrs[ip]
  BY <1>0, TypeFacts
<1>5. IsFiniteSet(Free) /\ Cardinality(Free) \in Nat
  <2>1. IsFiniteSet(1..NBLOCK)
    BY <1>2, FS_Interval
  <2> QED
    BY <2>1, FS_Subset, FS_CardinalityType DEF Free
<1>6. CASE bn < NDIRECT
  <2>1. a[bn] = 0
    BY <1>1, <1>3, <1>4, <1>6 DEF Lookup
  <2>2. \/ /\ panicked' = "balloc: out of blocks"
           /\ UNCHANGED <<bitmap, data, ind, addrs, wr>>
        \/ /\ ~(Cardinality(Free) < 1) /\ UNCHANGED panicked
           /\ bitmap' = bitmap \cup {FirstFree, FirstFree}
           /\ addrs' = [addrs EXCEPT ![ip] = [a EXCEPT ![bn] = FirstFree]]
           /\ ind' = [ind EXCEPT ![FirstFree] = ZeroPointers]
           /\ Put(p, FirstFree, ZeroBlock)
    <3>1. ~(bn >= NDIRECT)
      BY <1>2, <1>6
    <3> QED
      BY <1>3, <1>4, <3>1 DEF write_grow
  <2>3. ~(Cardinality(Free) < 1) => Free # {}
    BY FS_EmptySet
  <2>4. Free # {} => FirstFree \in 1..NBLOCK /\ FirstFree \notin bitmap
    BY <1>0, FirstFreeIs
  <2> QED
    BY <1>1, <1>3, <1>4, <1>6, <2>1, <2>2, <2>3, <2>4 DEF GrowsDirect
<1>7. CASE bn >= NDIRECT /\ a[NDIRECT] # 0
  <2>1. PICK j \in 0..NINDIRECT-1 : j = bn - NDIRECT
    BY <1>2, <1>3, <1>7
  <2>2. ind[a[NDIRECT]][j] = 0
    <3>1. ~(bn < NDIRECT)
      BY <1>2, <1>7
    <3> QED
      BY <1>1, <1>3, <1>4, <1>7, <2>1, <3>1 DEF Lookup
  <2>3. \/ /\ panicked' = "balloc: out of blocks"
           /\ UNCHANGED <<bitmap, data, ind, addrs, wr>>
        \/ /\ ~(Cardinality(Free) < 1) /\ UNCHANGED panicked
           /\ bitmap' = bitmap \cup {FirstFree, FirstFree}
           /\ addrs' = [addrs EXCEPT ![ip] = [a EXCEPT ![NDIRECT] = a[NDIRECT]]]
           /\ ind' = [ind EXCEPT ![FirstFree] = ZeroPointers,
                                 ![a[NDIRECT]] = [ind[a[NDIRECT]] EXCEPT ![j] = FirstFree]]
           /\ Put(p, FirstFree, ZeroBlock)
    BY <1>3, <1>4, <1>7, <2>1 DEF write_grow
  <2>4. [addrs EXCEPT ![ip] = [a EXCEPT ![NDIRECT] = a[NDIRECT]]] = addrs
    <3>1. [a EXCEPT ![NDIRECT] = a[NDIRECT]] = a
      BY DEF Addrs
    <3>2. addrs \in [Ino -> Addrs]
      BY <1>0, TypeFacts
    <3> QED
      BY <1>4, <3>1, <3>2
  <2>5. ~(Cardinality(Free) < 1) => Free # {}
    BY FS_EmptySet
  <2>6. Free # {} => FirstFree \in 1..NBLOCK /\ FirstFree \notin bitmap
    BY <1>0, FirstFreeIs
  <2>7. CASE /\ ~(Cardinality(Free) < 1) /\ UNCHANGED panicked
             /\ bitmap' = bitmap \cup {FirstFree, FirstFree}
             /\ addrs' = [addrs EXCEPT ![ip] = [a EXCEPT ![NDIRECT] = a[NDIRECT]]]
             /\ ind' = [ind EXCEPT ![FirstFree] = ZeroPointers,
                                   ![a[NDIRECT]] = [ind[a[NDIRECT]] EXCEPT ![j] = FirstFree]]
             /\ Put(p, FirstFree, ZeroBlock)
    <3>1. PICK b \in 1..NBLOCK : b = FirstFree /\ b \notin bitmap /\ Free # {}
      BY <2>5, <2>6, <2>7
    <3>2. GrowsOld(ip, j, b)
      BY <1>4, <1>7, <2>2, <2>4, <2>7, <3>1 DEF GrowsOld
    <3> QED
      BY <1>1, <1>3, <2>1, <2>7, <3>1, <3>2
  <2> QED
    BY <1>1, <2>3, <2>7
<1>8. CASE bn >= NDIRECT /\ a[NDIRECT] = 0
  <2>1. PICK j \in 0..NINDIRECT-1 : j = bn - NDIRECT
    BY <1>2, <1>3, <1>8
  <2>2. PICK c : c = Min(Free \ {FirstFree})
    OBVIOUS
  <2>3. \/ /\ panicked' = "balloc: out of blocks"
           /\ UNCHANGED <<bitmap, data, ind, addrs, wr>>
        \/ /\ ~(Cardinality(Free) < 2) /\ UNCHANGED panicked
           /\ bitmap' = bitmap \cup {FirstFree, c}
           /\ addrs' = [addrs EXCEPT ![ip] = [a EXCEPT ![NDIRECT] = FirstFree]]
           /\ ind' = [ind EXCEPT ![c] = ZeroPointers, ![FirstFree] = [ZeroPointers EXCEPT ![j] = c]]
           /\ Put(p, c, ZeroBlock)
    BY <1>3, <1>4, <1>8, <2>1, <2>2 DEF write_grow
  <2>4. ASSUME ~(Cardinality(Free) < 2) PROVE Free # {} /\ c \in Free /\ c # FirstFree /\ c \in 1..NBLOCK /\ c \notin bitmap
    <3>1. Free # {}
      <4>1. Cardinality({}) = 0
        BY FS_EmptySet
      <4>2. ASSUME Free = {} PROVE Cardinality(Free) = 0
        BY <4>1, <4>2
      <4>3. ASSUME Cardinality(Free) = 0 PROVE FALSE
        BY <2>4, <4>3
      <4> QED
        BY <4>2, <4>3
    <3>2. FirstFree \in Free
      BY <1>0, <3>1, FirstFreeIs
    <3>3. Cardinality(Free \ {FirstFree}) = Cardinality(Free) - 1
      BY <1>5, <3>2, FS_RemoveElement
    <3>4. Free \ {FirstFree} # {}
      <4>1. Cardinality({}) = 0
        BY FS_EmptySet
      <4>2. Cardinality(Free \ {FirstFree}) # 0
        BY <1>5, <2>4, <3>3
      <4> QED
        BY <4>1, <4>2
    <3>5. Free \ {FirstFree} \in SUBSET Nat /\ Free \subseteq (1..NBLOCK) \ bitmap
      BY <1>2 DEF Free
    <3>6. c \in Free \ {FirstFree}
      BY <2>2, <3>4, <3>5, MinIs
    <3> QED
      BY <3>1, <3>5, <3>6
  <2>5. CASE /\ ~(Cardinality(Free) < 2) /\ UNCHANGED panicked
             /\ bitmap' = bitmap \cup {FirstFree, c}
             /\ addrs' = [addrs EXCEPT ![ip] = [a EXCEPT ![NDIRECT] = FirstFree]]
             /\ ind' = [ind EXCEPT ![c] = ZeroPointers, ![FirstFree] = [ZeroPointers EXCEPT ![j] = c]]
             /\ Put(p, c, ZeroBlock)
    <3>1. Free # {} /\ c \in Free /\ c # FirstFree /\ c \in 1..NBLOCK /\ c \notin bitmap
      BY <2>4, <2>5
    <3>2. GrowsNew(ip, j, c)
      BY <1>4, <1>8, <2>5, <3>1 DEF GrowsNew
    <3> QED
      BY <1>1, <1>3, <2>1, <2>5, <3>1, <3>2
  <2> QED
    BY <1>1, <2>3, <2>5
<1>9. bn < NDIRECT \/ (bn >= NDIRECT /\ a[NDIRECT] # 0) \/ (bn >= NDIRECT /\ a[NDIRECT] = 0)
  BY <1>2
<1> QED
  BY <1>6, <1>7, <1>8, <1>9

\* bmap() adds a block to an ordinary file.
LEMMA GrowKeeps ==
  ASSUME IInv, NEW p \in Proc, write_grow(p)
  PROVE  IInv'
<1>1. More(p)
  BY DEF write_grow
<1>2. TypeInv /\ pc[p] = "block" /\ fip[wr[p].f] \in Ino
  BY <1>1, WriterIs
<1>3. PICK ip \in Ino : ip = fip[wr[p].f]
  BY <1>2
<1>4. itype[ip] = "T_FILE" /\ UNCHANGED <<itype, linked, size, fip, off, lock, pc>>
  BY <1>3, GrowIs
<1>5. CASE panicked' = "balloc: out of blocks" /\ UNCHANGED <<bitmap, data, ind, addrs, wr>>
  <2>1. TypeInv'
    BY <1>2, <1>4, <1>5, TypeFacts DEF TypeInv, TypeOK, Addrs, Panic
  <2>2. \A g \in File : FileInv(g)'
    BY <1>4, <1>5 DEF IInv, FileInv
  <2>3. \A q \in Proc : ProcInv(q)'
    BY <1>4, <1>5, ProcSame DEF IInv
  <2> QED
    BY <1>4, <1>5, <2>1, <2>2, <2>3, NodesAside DEF IInv
<1>6. ASSUME NEW b \in 1..NBLOCK, Put(p, b, ZeroBlock), UNCHANGED panicked,
             bitmap' \in SUBSET (1..NBLOCK), ind' \in [1..NBLOCK -> [0..NINDIRECT-1 -> 0..NBLOCK]],
             NEW i \in 0..NDIRECT, NEW c \in 0..NBLOCK,
             addrs' = [addrs EXCEPT ![ip] = [addrs[ip] EXCEPT ![i] = c]]
      PROVE  IInv'
  <2>1. PICK m \in Nat : /\ Turn(p, m)
                         /\ data' = [data EXCEPT ![b] = Filled(ZeroBlock, wr[p].o % BSIZE, (wr[p].o % BSIZE) + m - 1, fip[wr[p].f])]
    BY <1>1, <1>2, <1>6, PutIs
  <2>2. data' \in [1..NBLOCK -> [0..BSIZE-1 -> Byte]]
    BY <1>2, <2>1, PutType, ZeroTypes
  <2>3. addrs[ip] \in Addrs /\ NodeInv(ip) /\ addrs \in [Ino -> Addrs]
    BY <1>2, TypeFacts DEF IInv
  <2>4. PICK a : a = [addrs[ip] EXCEPT ![i] = c]
    OBVIOUS
  <2>5. a \in Addrs /\ \A k \in 0..NDIRECT : a[k] <= NBLOCK
    <3>1. c \in 0..Pack(NBLOCK, CS_MAX_LENGTH) /\ c <= NBLOCK
      BY BlockFits, Sizes
    <3>2. \A k \in 0..NDIRECT : addrs[ip][k] <= NBLOCK
      BY <1>4, <2>3 DEF NodeInv
    <3> QED
      BY <2>3, <2>4, <3>1, <3>2 DEF Addrs
  <2>6. addrs' \in [Ino -> Addrs] /\ addrs'[ip] = a /\ \A jp \in Ino : jp # ip => addrs'[jp] = addrs[jp]
    BY <1>6, <2>3, <2>4, <2>5
  <2>7. ASSUME NEW jp \in Ino PROVE NodeInv(jp)'
    <3>1. CASE jp = ip
      BY <1>4, <2>5, <2>6, <3>1 DEF NodeInv
    <3>2. CASE jp # ip
      <4>1. NodeInv(jp)
        BY DEF IInv
      <4> QED
        BY <1>4, <2>6, <3>2, <4>1, NodeSame
    <3> QED
      BY <3>1, <3>2
  <2> QED
    BY <1>2, <1>4, <1>6, <2>1, <2>2, <2>6, <2>7, InnerKeeps
<1>7. ASSUME NEW b \in 1..NBLOCK, b \notin bitmap, Put(p, b, ZeroBlock), UNCHANGED panicked,
             GrowsDirect(ip, wr[p].o \div BSIZE, b)
      PROVE  IInv'
  <2>1. PICK i \in 0..NDIRECT : i = wr[p].o \div BSIZE
    <3>1. wr[p].o \in Nat /\ BSIZE \in Nat \ {0} /\ NDIRECT \in Nat
      BY <1>2, WriteFacts, Sizes
    <3>2. wr[p].o \div BSIZE \in 0..wr[p].o
      BY <3>1, DivSmaller
    <3> QED
      BY <1>7, <3>1, <3>2 DEF GrowsDirect
  <2>2. b \in 0..NBLOCK
    BY Sizes
  <2>3. bitmap' \in SUBSET (1..NBLOCK) /\ ind' \in [1..NBLOCK -> [0..NINDIRECT-1 -> 0..NBLOCK]]
    BY <1>2, <1>7, TypeFacts, ZeroTypes DEF GrowsDirect
  <2>4. addrs' = [addrs EXCEPT ![ip] = [addrs[ip] EXCEPT ![i] = b]]
    BY <1>7, <2>1 DEF GrowsDirect
  <2> QED
    BY <1>6, <1>7, <2>2, <2>3, <2>4
<1>8. ASSUME NEW b \in 1..NBLOCK, b \notin bitmap, Put(p, b, ZeroBlock), UNCHANGED panicked,
             NEW j \in 0..NINDIRECT-1, GrowsOld(ip, j, b)
      PROVE  IInv'
  <2>1. PICK c \in 0..NBLOCK : c = addrs[ip][NDIRECT]
    <3>1. addrs[ip] \in Addrs /\ NodeInv(ip) /\ NDIRECT \in 0..NDIRECT
      BY <1>2, TypeFacts, Sizes DEF IInv
    <3>2. addrs[ip][NDIRECT] \in Nat /\ addrs[ip][NDIRECT] <= NBLOCK
      BY <1>4, <3>1, AddrNat DEF NodeInv
    <3> QED
      BY <3>2, Sizes
  <2>2. bitmap' \in SUBSET (1..NBLOCK)
    BY <1>2, <1>8, TypeFacts DEF GrowsOld
  <2>3. ind' \in [1..NBLOCK -> [0..NINDIRECT-1 -> 0..NBLOCK]]
    <3>1. c \in 1..NBLOCK /\ b \in 0..NBLOCK
      BY <1>8, <2>1, Sizes DEF GrowsOld
    <3>2. ind \in [1..NBLOCK -> [0..NINDIRECT-1 -> 0..NBLOCK]] /\ ind[c] \in [0..NINDIRECT-1 -> 0..NBLOCK]
      BY <1>2, <3>1, TypeFacts
    <3>3. [ind[c] EXCEPT ![j] = b] \in [0..NINDIRECT-1 -> 0..NBLOCK]
      BY <3>1, <3>2
    <3>4. ind' = [ind EXCEPT ![b] = ZeroPointers, ![c] = [ind[c] EXCEPT ![j] = b]]
      BY <1>8, <2>1 DEF GrowsOld
    <3> QED
      BY <3>2, <3>3, <3>4, ZeroTypes
  <2>4. addrs' = [addrs EXCEPT ![ip] = [addrs[ip] EXCEPT ![NDIRECT] = c]]
    <3>1. addrs \in [Ino -> Addrs] /\ addrs[ip] \in Addrs
      BY <1>2, TypeFacts
    <3>2. [addrs[ip] EXCEPT ![NDIRECT] = c] = addrs[ip]
      BY <2>1, <3>1 DEF Addrs
    <3> QED
      BY <1>8, <3>1, <3>2 DEF GrowsOld
  <2>5. NDIRECT \in 0..NDIRECT
    BY Sizes
  <2> QED
    BY <1>6, <1>8, <2>2, <2>3, <2>4, <2>5
<1>9. ASSUME NEW b \in 1..NBLOCK, b \notin bitmap, Put(p, b, ZeroBlock), UNCHANGED panicked,
             NEW j \in 0..NINDIRECT-1, GrowsNew(ip, j, b)
      PROVE  IInv'
  <2>1. PICK c \in 0..NBLOCK : c = FirstFree /\ c \in 1..NBLOCK
    BY <1>2, <1>9, FirstFreeIs, Sizes DEF GrowsNew
  <2>2. bitmap' \in SUBSET (1..NBLOCK)
    BY <1>2, <1>9, <2>1, TypeFacts DEF GrowsNew
  <2>3. ind' \in [1..NBLOCK -> [0..NINDIRECT-1 -> 0..NBLOCK]]
    <3>1. b \in 0..NBLOCK
      BY Sizes
    <3>2. ind \in [1..NBLOCK -> [0..NINDIRECT-1 -> 0..NBLOCK]]
      BY <1>2, TypeFacts
    <3>3. [ZeroPointers EXCEPT ![j] = b] \in [0..NINDIRECT-1 -> 0..NBLOCK]
      BY <3>1, ZeroTypes
    <3>4. ind' = [ind EXCEPT ![b] = ZeroPointers, ![c] = [ZeroPointers EXCEPT ![j] = b]]
      BY <1>9, <2>1 DEF GrowsNew
    <3> QED
      BY <3>2, <3>3, <3>4, ZeroTypes
  <2>4. addrs' = [addrs EXCEPT ![ip] = [addrs[ip] EXCEPT ![NDIRECT] = c]]
    BY <1>9, <2>1 DEF GrowsNew
  <2>5. NDIRECT \in 0..NDIRECT
    BY Sizes
  <2> QED
    BY <1>6, <1>9, <2>2, <2>3, <2>4, <2>5
<1>10. \/ panicked' = "balloc: out of blocks" /\ UNCHANGED <<bitmap, data, ind, addrs, wr>>
       \/ /\ UNCHANGED panicked
          /\ \E b \in 1..NBLOCK :
               /\ b \notin bitmap /\ Put(p, b, ZeroBlock)
               /\ \/ GrowsDirect(ip, wr[p].o \div BSIZE, b)
                  \/ \E j \in 0..NINDIRECT-1 : GrowsOld(ip, j, b) \/ GrowsNew(ip, j, b)
  BY <1>3, GrowIs
<1> QED
  BY <1>5, <1>7, <1>8, <1>9, <1>10

\* Nothing is allocated or open at the beginning.
LEMMA InitIs == Init => IInv
<1> SUFFICES ASSUME Init PROVE IInv
  OBVIOUS
<1>1. TypeInv
  <2>1. bitmap \subseteq 1..NBLOCK /\ data \in [1..NBLOCK -> [0..BSIZE-1 -> Byte]]
    BY DEF Init, JunkBlock, Byte
  <2>2. ind \in [1..NBLOCK -> [0..NINDIRECT-1 -> 0..NBLOCK]]
    BY ZeroTypes DEF Init
  <2>3. addrs \in [Ino -> Addrs] /\ wr \in [Proc -> Write]
    BY NoRuns, NoWriteIs DEF Init
  <2> QED
    BY <2>1, <2>2, <2>3 DEF Init, TypeInv, TypeOK, Panic, Addrs
<1>2. \A ip \in Ino : NodeInv(ip)
  <2> SUFFICES ASSUME NEW ip \in Ino PROVE NodeInv(ip)
    OBVIOUS
  <2>1. itype[ip] = "free" /\ addrs[ip] = ZeroAddrs /\ ~linked[ip]
    BY DEF Init
  <2>2. Opened(ip) = {}
    BY SentinelAssumption DEF Init, Opened
  <2>3. \A i \in 0..NDIRECT : addrs[ip][i] <= NBLOCK
    BY <2>1, NoRuns, Sizes
  <2> QED
    BY <2>1, <2>2, <2>3 DEF NodeInv
<1>3. \A f \in File : FileInv(f)
  BY SentinelAssumption DEF Init, FileInv
<1>4. \A p \in Proc : ProcInv(p)
  BY DEF Init, ProcInv
<1> QED
  BY <1>1, <1>2, <1>3, <1>4 DEF IInv

\* Every step keeps types, locks, offsets and runs.
LEMMA StepKeeps ==
  ASSUME IInv, [Next]_vars
  PROVE  IInv'
<1>1. CASE UNCHANGED vars
  <2>1. UNCHANGED <<bitmap, data, ind, itype, linked, addrs, size, fip, off, lock, pc, wr, panicked>>
    BY <1>1 DEF vars, inodeVars
  <2>2. TypeInv'
    BY <2>1 DEF IInv, TypeInv, TypeOK
  <2>3. \A g \in File : FileInv(g)'
    BY <2>1 DEF IInv, FileInv
  <2>4. \A q \in Proc : ProcInv(q)'
    BY <2>1, ProcSame DEF IInv
  <2> QED
    BY <2>1, <2>2, <2>3, <2>4, NodesAside DEF IInv
<1> QED
  BY <1>1, CreateKeeps, OpenKeeps, UnlinkKeeps, CloseKeeps, WriteKeeps, ReadKeeps, BeginKeeps, EndKeeps,
     MappedKeeps, GrowKeeps, CsGrowKeeps, CsFailKeeps DEF Next

\* The inductive invariant of types, locks, offsets and runs.
THEOREM CsFileInvariant == Spec => []IInv
<1>1. Init => IInv
  BY InitIs
<1>2. IInv /\ [Next]_vars => IInv'
  BY StepKeeps
<1> QED
  BY <1>1, <1>2, PTL DEF Spec

\* No write, however the disk fills up, marks or maps a block beyond the end of the disk.
THEOREM CsFileTypeOK == Spec => []TypeOK
<1>1. IInv => TypeOK
  BY DEF IInv, TypeInv
<1> QED
  BY <1>1, CsFileInvariant, PTL

\* No open file's offset runs ahead of its file, whoever reads and writes through it.
THEOREM CsFileOffsetInFile == Spec => []OffsetInFile
<1>1. IInv => OffsetInFile
  BY TypeFacts DEF IInv, FileInv, OffsetInFile
<1> QED
  BY <1>1, CsFileInvariant, PTL

\* The runs of a CS file are as long as they can be.
THEOREM CsFileRunsMaximal == Spec => []RunsMaximal
<1>1. IInv => RunsMaximal
  BY DEF IInv, NodeInv, Runs, RunsMaximal
<1> QED
  BY <1>1, CsFileInvariant, PTL

-----------------------------------------------------------------------------
(* Sums over the entries                                                   *)

\* The entries of addrs that hold runs.
Entry == 0..NDIRECT-1

\* There are NDIRECT of them.
LEMMA EntryFacts ==
  NDIRECT \in Nat /\ IsFiniteSet(Entry) /\ Cardinality(Entry) = NDIRECT
<1>1. NDIRECT \in Nat \ {0}
  BY Sizes
<1>2. 0 \in Int /\ NDIRECT - 1 \in Int /\ NDIRECT - 1 - 0 + 1 = NDIRECT
  BY <1>1
<1>3. IsFiniteSet(Entry) /\ Cardinality(Entry) = (IF 0 > NDIRECT - 1 THEN 0 ELSE (NDIRECT - 1) - 0 + 1)
  BY <1>2, FS_Interval DEF Entry
<1> QED
  BY <1>1, <1>3

\* A sum over a set of entries: an element, whichever, and the sum over the rest.  The number
\* of times itrunc() calls bfree() is such a sum.
AnyOf(s) == CHOOSE x \in s : TRUE
Sum1(f, w, s) == IF s = {} THEN 0 ELSE w[AnyOf(s)] + f[s \ {AnyOf(s)}]
SumsUp(f, w) == f = [s \in SUBSET Entry |-> Sum1(f, w, s)]

\* Taking an element away makes a set smaller.
LEMMA OneLess ==
  ASSUME NEW s \in SUBSET Entry, s # {}
  PROVE  /\ AnyOf(s) \in s /\ AnyOf(s) \in Entry /\ s \ {AnyOf(s)} \in SUBSET Entry
         /\ Cardinality(s) \in Nat
         /\ Cardinality(s \ {AnyOf(s)}) \in Nat
         /\ Cardinality(s \ {AnyOf(s)}) < Cardinality(s)
<1>1. AnyOf(s) \in s
  BY DEF AnyOf
<1>2. IsFiniteSet(s)
  BY EntryFacts, FS_Subset
<1>3. Cardinality(s) \in Nat
  BY <1>2, FS_CardinalityType
<1>4. Cardinality(s \ {AnyOf(s)}) = Cardinality(s) - 1 /\ IsFiniteSet(s \ {AnyOf(s)})
  BY <1>1, <1>2, FS_RemoveElement
<1>5. Cardinality(s \ {AnyOf(s)}) \in Nat
  BY <1>4, FS_CardinalityType
<1> QED
  BY <1>1, <1>3, <1>4, <1>5

\* Every table of numbers has a sum.
LEMMA SumExists ==
  ASSUME NEW w \in [Entry -> Nat]
  PROVE  \E f \in [SUBSET Entry -> Nat] : SumsUp(f, w)
<1> DEFINE Upto(f, n) == \A s \in SUBSET Entry : Cardinality(s) <= n => f[s] = Sum1(f, w, s)
           Good(n) == \E f \in [SUBSET Entry -> Nat] : Upto(f, n)
           Bad == {n \in Nat : ~ Good(n)}
<1>1. \A s \in SUBSET Entry : Cardinality(s) \in Nat /\ Cardinality(s) <= NDIRECT
  <2> SUFFICES ASSUME NEW s \in SUBSET Entry
               PROVE  Cardinality(s) \in Nat /\ Cardinality(s) <= NDIRECT
    OBVIOUS
  <2>1. IsFiniteSet(s) /\ Cardinality(s) <= Cardinality(Entry)
    BY EntryFacts, FS_Subset
  <2>2. Cardinality(Entry) = NDIRECT
    BY EntryFacts
  <2> QED
    BY <2>1, <2>2, FS_CardinalityType
<1>2. Good(0)
  <2> DEFINE z == [s \in SUBSET Entry |-> 0]
  <2>1. z \in [SUBSET Entry -> Nat]
    OBVIOUS
  <2>2. ASSUME NEW s \in SUBSET Entry, Cardinality(s) <= 0
        PROVE  z[s] = Sum1(z, w, s)
    <3>1. ASSUME s # {}
          PROVE  FALSE
      <4>1. /\ Cardinality(s) \in Nat /\ Cardinality(s \ {AnyOf(s)}) \in Nat
            /\ Cardinality(s \ {AnyOf(s)}) < Cardinality(s)
        BY <3>1, OneLess
      <4> QED
        BY <2>2, <4>1
    <3> QED
      BY <3>1 DEF Sum1
  <2> QED
    BY <2>1, <2>2
<1>3. ASSUME NEW n \in Nat, Good(n)
      PROVE  Good(n + 1)
  <2>1. PICK f \in [SUBSET Entry -> Nat] : Upto(f, n)
    BY <1>3
  <2> DEFINE h == [s \in SUBSET Entry |-> IF Cardinality(s) = n + 1 THEN Sum1(f, w, s) ELSE f[s]]
  <2>2. \A s \in SUBSET Entry : Sum1(f, w, s) \in Nat
    <3> SUFFICES ASSUME NEW s \in SUBSET Entry
                 PROVE  Sum1(f, w, s) \in Nat
      OBVIOUS
    <3>1. CASE s = {}
      BY <3>1 DEF Sum1
    <3>2. CASE s # {}
      <4>1. w[AnyOf(s)] \in Nat /\ f[s \ {AnyOf(s)}] \in Nat
        BY <3>2, OneLess
      <4> QED
        BY <3>2, <4>1 DEF Sum1
    <3> QED
      BY <3>1, <3>2
  <2>3. h \in [SUBSET Entry -> Nat]
    BY <2>2
  <2>4. ASSUME NEW s \in SUBSET Entry, Cardinality(s) <= n + 1
        PROVE  h[s] = Sum1(h, w, s)
    <3>1. CASE s = {}
      <4>1. Cardinality(s) = 0
        BY <3>1, FS_EmptySet
      <4>2. h[s] = f[s] /\ f[s] = Sum1(f, w, s)
        BY <2>1, <4>1
      <4> QED
        BY <3>1, <4>2 DEF Sum1
    <3>2. CASE s # {}
      <4> DEFINE t == s \ {AnyOf(s)}
      <4>1. t \in SUBSET Entry /\ Cardinality(t) \in Nat /\ Cardinality(t) < n + 1 /\ Cardinality(t) # n + 1
        BY <1>1, <2>4, <3>2, OneLess
      <4>2. h[t] = f[t]
        <5> HIDE DEF t
        <5> QED
          BY <4>1
      <4>3. Sum1(h, w, s) = Sum1(f, w, s)
        <5> HIDE DEF h
        <5> QED
          BY <3>2, <4>2 DEF Sum1
      <4>4. h[s] = Sum1(f, w, s)
        <5>1. CASE Cardinality(s) = n + 1
          BY <5>1
        <5>2. CASE Cardinality(s) # n + 1
          <6>1. Cardinality(s) <= n
            BY <1>1, <2>4, <5>2
          <6> QED
            BY <2>1, <5>2, <6>1
        <5> QED
          BY <5>1, <5>2
      <4> QED
        BY <4>3, <4>4
    <3> QED
      BY <3>1, <3>2
  <2> QED
    <3> HIDE DEF h
    <3> QED
      BY <2>3, <2>4
<1> HIDE DEF Good
<1>4. Bad = {}
  <2> SUFFICES ASSUME Bad # {}
               PROVE  FALSE
    OBVIOUS
  <2>1. Bad \in SUBSET Nat
    OBVIOUS
  <2> DEFINE m == Min(Bad)
  <2>2. m \in Bad /\ \A y \in Bad : m <= y
    <3> HIDE DEF Bad
    <3> QED
      BY <2>1, MinIs
  <2> HIDE DEF m
  <2>3. m \in Nat /\ ~ Good(m)
    BY <2>2
  <2>4. m # 0
    BY <1>2, <2>3
  <2>5. m - 1 \in Nat /\ Good(m - 1)
    BY <2>2, <2>3, <2>4
  <2>6. Good((m - 1) + 1)
    BY <1>3, <2>5
  <2>7. (m - 1) + 1 = m
    BY <2>3
  <2> QED
    BY <2>3, <2>6, <2>7
<1>5. Good(NDIRECT)
  BY <1>4, EntryFacts
<1>6. PICK f \in [SUBSET Entry -> Nat] : Upto(f, NDIRECT)
  BY <1>5 DEF Good
<1>7. \A s \in SUBSET Entry : f[s] = Sum1(f, w, s)
  BY <1>1, <1>6
<1> QED
  BY <1>7 DEF SumsUp

\* When one number changes, the sum changes as much.
LEMMA SumChanges ==
  ASSUME NEW w \in [Entry -> Nat], NEW v \in [Entry -> Nat], NEW p \in Entry,
         \A q \in Entry : q # p => v[q] = w[q],
         NEW f, SumsUp(f, w), NEW g, SumsUp(g, v)
  PROVE  f[Entry] \in Nat /\ g[Entry] \in Nat /\ g[Entry] + w[p] = f[Entry] + v[p]
<1> DEFINE a(s) == IF p \in s THEN w[p] ELSE 0
           b(s) == IF p \in s THEN v[p] ELSE 0
           P(s) == f[s] \in Nat /\ g[s] \in Nat /\ g[s] + a(s) = f[s] + b(s)
           Bad == {s \in SUBSET Entry : ~ P(s)}
           Cards == {Cardinality(s) : s \in Bad}
<1>1. \A s \in SUBSET Entry : f[s] = Sum1(f, w, s) /\ g[s] = Sum1(g, v, s)
  <2> DEFINE F(s) == Sum1(f, w, s)
             G(s) == Sum1(g, v, s)
  <2>1. f = [s \in SUBSET Entry |-> F(s)] /\ g = [s \in SUBSET Entry |-> G(s)]
    BY DEF SumsUp
  <2> HIDE DEF F, G
  <2>2. \A s \in SUBSET Entry : f[s] = F(s) /\ g[s] = G(s)
    BY <2>1
  <2> QED
    BY <2>2 DEF F, G
<1>2. ASSUME NEW s \in SUBSET Entry, s # {}, P(s \ {AnyOf(s)})
      PROVE  P(s)
  <2> DEFINE x == AnyOf(s)
             t == s \ {x}
  <2>1. x \in s /\ x \in Entry
    BY <1>2, OneLess
  <2>2. f[s] = w[x] + f[t] /\ g[s] = v[x] + g[t]
    BY <1>1, <1>2 DEF Sum1
  <2>3. P(t)
    BY <1>2
  <2>4. w[x] \in Nat /\ v[x] \in Nat /\ w[p] \in Nat /\ v[p] \in Nat
    BY <2>1
  <2>5. f[s] \in Nat /\ g[s] \in Nat
    BY <2>2, <2>3, <2>4
  <2>6. CASE x = p
    <3>1. a(s) = w[p] /\ b(s) = v[p] /\ a(t) = 0 /\ b(t) = 0
      BY <2>1, <2>6
    <3> HIDE DEF a, b, x, t
    <3> QED
      BY <2>2, <2>3, <2>4, <2>5, <2>6, <3>1
  <2>7. CASE x # p
    <3>1. a(s) = a(t) /\ b(s) = b(t) /\ v[x] = w[x]
      BY <2>1, <2>7
    <3>2. a(s) \in Nat /\ b(s) \in Nat
      BY <2>4
    <3> HIDE DEF a, b, x, t
    <3> QED
      BY <2>2, <2>3, <2>4, <2>5, <3>1, <3>2
  <2> QED
    BY <2>6, <2>7
<1>3. P({})
  <2>1. f[{}] = 0 /\ g[{}] = 0
    BY <1>1 DEF Sum1
  <2>2. a({}) = 0 /\ b({}) = 0
    OBVIOUS
  <2> HIDE DEF a, b
  <2> QED
    BY <2>1, <2>2
<1> HIDE DEF P
<1>4. Bad = {}
  <2> SUFFICES ASSUME Bad # {}
               PROVE  FALSE
    OBVIOUS
  <2>1. Cards \in SUBSET Nat /\ Cards # {}
    <3>1. \A s \in SUBSET Entry : Cardinality(s) \in Nat
      BY EntryFacts, FS_Subset, FS_CardinalityType
    <3> QED
      BY <3>1
  <2> DEFINE m == Min(Cards)
  <2>2. m \in Cards /\ \A y \in Cards : m <= y
    <3> HIDE DEF Cards
    <3> QED
      BY <2>1, MinIs
  <2> HIDE DEF m
  <2>3. PICK s \in Bad : m = Cardinality(s)
    BY <2>2
  <2>4. s \in SUBSET Entry /\ ~ P(s) /\ s # {}
    BY <1>3, <2>3
  <2> DEFINE t == s \ {AnyOf(s)}
  <2>5. t \in SUBSET Entry /\ Cardinality(t) \in Nat /\ Cardinality(s) \in Nat /\ Cardinality(t) < Cardinality(s)
    BY <2>4, OneLess
  <2>6. ~ P(t)
    BY <1>2, <2>4
  <2>7. Cardinality(t) \in Cards
    <3> HIDE DEF t
    <3> QED
      BY <2>5, <2>6
  <2> HIDE DEF t, Cards
  <2> QED
    BY <2>2, <2>3, <2>5, <2>7
<1>5. P(Entry)
  BY <1>4
<1> QED
  BY <1>5 DEF P

\* Nothing adds up to nothing.
LEMMA SumZero ==
  ASSUME NEW w \in [Entry -> Nat], \A q \in Entry : w[q] = 0, NEW f, SumsUp(f, w)
  PROVE  f[Entry] = 0
<1> DEFINE Bad == {s \in SUBSET Entry : f[s] # 0}
           Cards == {Cardinality(s) : s \in Bad}
<1>1. \A s \in SUBSET Entry : f[s] = Sum1(f, w, s)
  <2> DEFINE F(s) == Sum1(f, w, s)
  <2>1. f = [s \in SUBSET Entry |-> F(s)]
    BY DEF SumsUp
  <2> HIDE DEF F
  <2>2. \A s \in SUBSET Entry : f[s] = F(s)
    BY <2>1
  <2> QED
    BY <2>2 DEF F
<1>2. ASSUME NEW s \in SUBSET Entry, s # {}, f[s \ {AnyOf(s)}] = 0
      PROVE  f[s] = 0
  <2>1. AnyOf(s) \in Entry
    BY <1>2, OneLess
  <2> QED
    BY <1>1, <1>2, <2>1 DEF Sum1
<1>3. f[{}] = 0
  BY <1>1 DEF Sum1
<1>4. ASSUME Bad # {}
      PROVE  FALSE
  <2>1. Cards \in SUBSET Nat /\ Cards # {}
    <3>1. \A s \in SUBSET Entry : Cardinality(s) \in Nat
      BY EntryFacts, FS_Subset, FS_CardinalityType
    <3> QED
      BY <1>4, <3>1
  <2>2. Min(Cards) \in Cards /\ \A y \in Cards : Min(Cards) <= y
    BY <2>1, MinIs
  <2>3. PICK s \in Bad : Min(Cards) = Cardinality(s)
    BY <2>2
  <2>4. s \in SUBSET Entry /\ s # {} /\ f[s] # 0
    BY <1>3
  <2>5. /\ s \ {AnyOf(s)} \in SUBSET Entry
        /\ Cardinality(s) \in Nat /\ Cardinality(s \ {AnyOf(s)}) \in Nat
        /\ Cardinality(s \ {AnyOf(s)}) < Cardinality(s)
    BY <2>4, OneLess
  <2>6. f[s \ {AnyOf(s)}] # 0
    BY <1>2, <2>4
  <2>7. Cardinality(s \ {AnyOf(s)}) \in Cards
    BY <2>5, <2>6
  <2> HIDE DEF Cards, Bad
  <2> QED
    BY <2>2, <2>3, <2>5, <2>7
<1> QED
  BY <1>4

\* How often itrunc() calls bfree() for a CS file.
CsFrees(a) == MapThenSumSet(LAMBDA i : Length(a[i]), 0..NDIRECT-1)

\* It is the sum of the lengths of the entries, added up one by one.
LEMMA CsFreesIs ==
  ASSUME NEW a, NEW w \in [Entry -> Nat], \A i \in Entry : w[i] = Length(a[i])
  PROVE  \E f : SumsUp(f, w) /\ CsFrees(a) = f[Entry]
<1> DEFINE e(i) == Length(a[i])
           Body(f) == [s \in SUBSET Entry |->
                         IF s = {} THEN 0 ELSE e(AnyOf(s)) + f[s \ {AnyOf(s)}]]
           iter == CHOOSE f : f = Body(f)
<1>1. CsFrees(a) = iter[Entry]
  BY DEF CsFrees, MapThenSumSet, MapThenFoldSet, AnyOf, Entry
<1>2. \A f : Body(f) = [s \in SUBSET Entry |-> Sum1(f, w, s)]
  <2> SUFFICES ASSUME NEW f
               PROVE  Body(f) = [s \in SUBSET Entry |-> Sum1(f, w, s)]
    OBVIOUS
  <2>1. \A s \in SUBSET Entry :
          (IF s = {} THEN 0 ELSE e(AnyOf(s)) + f[s \ {AnyOf(s)}]) = Sum1(f, w, s)
    BY OneLess DEF Sum1
  <2> QED
    BY <2>1
<1> HIDE DEF e, Body
<1>3. \E f : f = Body(f)
  BY <1>2, SumExists DEF SumsUp
<1>4. iter = Body(iter)
  BY <1>3
<1> QED
  BY <1>1, <1>2, <1>4 DEF SumsUp

-----------------------------------------------------------------------------
(* The blocks of a file                                                    *)

\* The blocks of the runs.
LEMMA CsBlocksIs ==
  ASSUME NEW a, NEW y
  PROVE  y \in CsBlocks(a) <=> \E i \in Entry : a[i] # 0 /\ y \in Start(a[i]) .. Start(a[i]) + Length(a[i]) - 1
  BY DEF CsBlocks, Entry

\* A run that gets longer, or begins, adds its block.
LEMMA AppendBlocks ==
  ASSUME NEW a \in Addrs, Runs(a), NEW b \in 1..NBLOCK, CsAppend(a, b) # a
  PROVE  CsBlocks(CsAppend(a, b)) = CsBlocks(a) \cup {b}
<1>0. NDIRECT \in Nat /\ CS_MAX_LENGTH \in Nat \ {0} /\ NBLOCK \in Nat
  BY Sizes
<1>1. PICK c : c = CsAppend(a, b)
  OBVIOUS
<1>2. \A i \in 0..NDIRECT : Start(a[i]) \in Nat /\ Length(a[i]) \in Nat
  BY AddrNat
<1>3. Extents(a) \in 0..NDIRECT /\ (\A i \in 0..NDIRECT : i < Extents(a) => a[i] # 0)
      /\ \A i \in 0..NDIRECT : i < Extents(c) => c[i] # 0
  BY ExtentsIs
<1>4. ASSUME NEW l \in 0..NDIRECT, l < NDIRECT, \A i \in 0..NDIRECT : i # l => c[i] = a[i], c[l] # 0,
             \A y : y \in Start(c[l]) .. Start(c[l]) + Length(c[l]) - 1
                    <=> y = b \/ (a[l] # 0 /\ y \in Start(a[l]) .. Start(a[l]) + Length(a[l]) - 1)
      PROVE  CsBlocks(c) = CsBlocks(a) \cup {b}
  <2>1. l \in Entry /\ \A i \in Entry : i \in 0..NDIRECT
    BY <1>0, <1>4 DEF Entry
  <2>2. ASSUME NEW y PROVE y \in CsBlocks(c) => y \in CsBlocks(a) \cup {b}
    <3>1. SUFFICES ASSUME NEW i \in Entry, c[i] # 0, y \in Start(c[i]) .. Start(c[i]) + Length(c[i]) - 1
                   PROVE  y \in CsBlocks(a) \cup {b}
      BY CsBlocksIs
    <3>2. CASE i = l
      BY <1>4, <2>1, <3>1, <3>2, CsBlocksIs
    <3>3. CASE i # l
      BY <1>4, <2>1, <3>1, <3>3, CsBlocksIs
    <3> QED
      BY <3>2, <3>3
  <2>3. b \in CsBlocks(c)
    BY <1>4, <2>1, CsBlocksIs
  <2>4. ASSUME NEW y, y \in CsBlocks(a) PROVE y \in CsBlocks(c)
    <3>1. PICK i \in Entry : a[i] # 0 /\ y \in Start(a[i]) .. Start(a[i]) + Length(a[i]) - 1
      BY <2>4, CsBlocksIs
    <3>2. CASE i = l
      BY <1>4, <2>1, <3>1, <3>2, CsBlocksIs
    <3>3. CASE i # l
      BY <1>4, <2>1, <3>1, <3>3, CsBlocksIs
    <3> QED
      BY <3>2, <3>3
  <2> QED
    BY <2>2, <2>3, <2>4
<1>5. CASE Extends(a, c, b)
  <2>1. PICK l \in 0..NDIRECT :
            /\ l = Extents(a) - 1 /\ l < NDIRECT /\ Extents(c) = Extents(a)
            /\ c \in Addrs /\ \A i \in 0..NDIRECT : i # l => c[i] = a[i]
            /\ Start(c[l]) = Start(a[l]) /\ Length(c[l]) = Length(a[l]) + 1 /\ Length(c[l]) <= CS_MAX_LENGTH
            /\ b = Start(a[l]) + Length(a[l])
    BY <1>5, ExtendsIs
  <2>2. c[l] # 0 /\ a[l] # 0
    BY <1>0, <1>3, <2>1
  <2>3. ASSUME NEW y
        PROVE  y \in Start(c[l]) .. Start(c[l]) + Length(c[l]) - 1
                    <=> y = b \/ (a[l] # 0 /\ y \in Start(a[l]) .. Start(a[l]) + Length(a[l]) - 1)
    BY <1>2, <2>1, <2>2
  <2> QED
    BY <1>1, <1>4, <2>1, <2>2, <2>3
<1>6. CASE Begins(a, c, b)
  <2>1. PICK l \in 0..NDIRECT :
            /\ l = Extents(a) /\ l < NDIRECT /\ Extents(c) = l + 1
            /\ c \in Addrs /\ \A i \in 0..NDIRECT : i # l => c[i] = a[i]
            /\ Start(c[l]) = b /\ Length(c[l]) = 1 /\ a[l] = 0
    BY <1>6, BeginsIs
  <2>2. c[l] # 0
    BY <1>0, <1>3, <2>1
  <2>3. ASSUME NEW y
        PROVE  y \in Start(c[l]) .. Start(c[l]) + Length(c[l]) - 1
                    <=> y = b \/ (a[l] # 0 /\ y \in Start(a[l]) .. Start(a[l]) + Length(a[l]) - 1)
    BY <2>1
  <2> QED
    BY <1>1, <1>4, <2>1, <2>2, <2>3
<1> QED
  BY <1>1, <1>5, <1>6, AppendCases

\* An entry of zero has no block.
LEMMA ZeroLength == Length(0) = 0
<1>1. PICK k \in Nat \ {0} : k = 2^CS_LENGTH_BITS
  BY Sizes
<1>2. 0 = k * 0 + 0 /\ 0 \in 0..(k - 1)
  BY <1>1
<1>3. 0 % k = 0
  BY <1>2, DivUnique
<1> QED
  BY <1>1, <1>3 DEF Length

\* And one more call of bfree().
LEMMA AppendFrees ==
  ASSUME NEW a \in Addrs, Runs(a), NEW b \in 1..NBLOCK, CsAppend(a, b) # a
  PROVE  CsFrees(a) \in Nat /\ CsFrees(CsAppend(a, b)) = CsFrees(a) + 1
<1>0. NDIRECT \in Nat
  BY Sizes
<1>1. PICK c \in Addrs : c = CsAppend(a, b)
  BY AppendRuns
<1>2. \A i \in 0..NDIRECT : Length(a[i]) \in Nat /\ Length(c[i]) \in Nat
  BY AddrNat
<1>3. PICK l \in 0..NDIRECT : /\ l < NDIRECT /\ \A i \in 0..NDIRECT : i # l => c[i] = a[i]
                              /\ Length(c[l]) = Length(a[l]) + 1
  <2>1. CASE Extends(a, c, b)
    BY <2>1, ExtendsIs
  <2>2. CASE Begins(a, c, b)
    <3>1. PICK l \in 0..NDIRECT :
            /\ l < NDIRECT /\ \A i \in 0..NDIRECT : i # l => c[i] = a[i]
            /\ Length(c[l]) = 1 /\ a[l] = 0
      BY <2>2, BeginsIs
    <3>2. Length(c[l]) = Length(a[l]) + 1
      BY <3>1, ZeroLength
    <3> QED
      BY <3>1, <3>2
  <2> QED
    BY <1>1, <2>1, <2>2, AppendCases
<1>4. PICK w \in [Entry -> Nat] : \A i \in Entry : w[i] = Length(a[i])
  <2> DEFINE w == [i \in Entry |-> Length(a[i])]
  <2>1. w \in [Entry -> Nat] /\ \A i \in Entry : w[i] = Length(a[i])
    BY <1>0, <1>2 DEF Entry
  <2> QED
    BY <2>1
<1>5. PICK v \in [Entry -> Nat] : \A i \in Entry : v[i] = Length(c[i])
  <2> DEFINE v == [i \in Entry |-> Length(c[i])]
  <2>1. v \in [Entry -> Nat] /\ \A i \in Entry : v[i] = Length(c[i])
    BY <1>0, <1>2 DEF Entry
  <2> QED
    BY <2>1
<1>6. PICK f : SumsUp(f, w) /\ CsFrees(a) = f[Entry]
  BY <1>4, CsFreesIs
<1>7. PICK g : SumsUp(g, v) /\ CsFrees(c) = g[Entry]
  BY <1>5, CsFreesIs
<1>8. l \in Entry /\ \A q \in Entry : q # l => v[q] = w[q]
  BY <1>0, <1>3, <1>4, <1>5 DEF Entry
<1>9. f[Entry] \in Nat /\ g[Entry] \in Nat /\ g[Entry] + w[l] = f[Entry] + v[l]
  BY <1>6, <1>7, <1>8, SumChanges
<1>10. w[l] \in Nat /\ v[l] = w[l] + 1
  BY <1>3, <1>4, <1>5, <1>8
<1>11. g[Entry] = f[Entry] + 1
  BY <1>9, <1>10
<1> QED
  BY <1>1, <1>6, <1>7, <1>9, <1>11

\* A file with no block has nothing to free.
LEMMA EmptyBlocks ==
  ASSUME NEW ip, addrs[ip] = ZeroAddrs
  PROVE  Blocks(ip) = {} /\ Frees(ip) = 0 /\ Cardinality(Blocks(ip)) = 0
<1>0. NDIRECT \in Nat
  BY Sizes
<1>1. PICK a \in Addrs : a = addrs[ip] /\ \A i \in 0..NDIRECT : a[i] = 0
  BY NoRuns
<1>2. CsBlocks(a) = {} /\ FileBlocks(a) = {}
  BY <1>0, <1>1 DEF CsBlocks, FileBlocks
<1>3. CsFrees(a) = 0
  <2>1. PICK w \in [Entry -> Nat] : \A i \in Entry : w[i] = Length(a[i]) /\ w[i] = 0
    <3> DEFINE w == [i \in Entry |-> 0]
    <3>1. \A i \in Entry : i \in 0..NDIRECT
      BY <1>0 DEF Entry
    <3>2. w \in [Entry -> Nat] /\ \A i \in Entry : w[i] = Length(a[i]) /\ w[i] = 0
      BY <1>1, <3>1, ZeroLength
    <3> QED
      BY <3>2
  <2>2. PICK f : SumsUp(f, w) /\ CsFrees(a) = f[Entry]
    BY <2>1, CsFreesIs
  <2> QED
    BY <2>1, <2>2, SumZero
<1>4. Cardinality({}) = 0
  BY FS_EmptySet
<1>5. {i \in 0..NDIRECT : a[i] # 0} = {} /\ a[NDIRECT] = 0
  BY <1>0, <1>1
<1>6. Frees(ip) = 0
  BY <1>1, <1>3, <1>4, <1>5 DEF Frees, CsFrees
<1> QED
  BY <1>1, <1>2, <1>4, <1>6 DEF Blocks

\* A file whose map stays as it is keeps its blocks.
LEMMA BlocksSame ==
  ASSUME NEW ip \in Ino, itype'[ip] = itype[ip], addrs'[ip] = addrs[ip],
         itype[ip] # "T_CS" /\ addrs[ip][NDIRECT] # 0 => ind'[addrs[ip][NDIRECT]] = ind[addrs[ip][NDIRECT]]
  PROVE  Blocks(ip)' = Blocks(ip) /\ Frees(ip)' = Frees(ip)
<1>1. PICK a : a = addrs[ip] /\ a = addrs'[ip]
  OBVIOUS
<1>2. CASE itype[ip] = "T_CS"
  <2>1. Blocks(ip) = CsBlocks(a) /\ Frees(ip) = CsFrees(a)
    BY <1>1, <1>2 DEF Blocks, Frees, CsFrees
  <2>2. Blocks(ip)' = CsBlocks(a)
    BY <1>1, <1>2 DEF Blocks, CsBlocks, Start, Length
  <2>3. Frees(ip)' = CsFrees(a)
    BY <1>1, <1>2 DEF Frees, CsFrees, MapThenSumSet, MapThenFoldSet, Length
  <2> QED
    BY <2>1, <2>2, <2>3
<1>3. CASE itype[ip] # "T_CS"
  <2>1. PICK d : d = ind[a[NDIRECT]]
    OBVIOUS
  <2>2. a[NDIRECT] # 0 => ind'[a[NDIRECT]] = d
    BY <1>1, <1>3, <2>1
  <2>3. CASE a[NDIRECT] = 0
    BY <1>1, <1>3, <2>3 DEF Blocks, Frees, FileBlocks
  <2>4. CASE a[NDIRECT] # 0
    <3>1. ind'[a[NDIRECT]] = d
      BY <2>2, <2>4
    <3> QED
      BY <1>1, <1>3, <2>1, <2>4, <3>1 DEF Blocks, Frees, FileBlocks
  <2> QED
    BY <2>3, <2>4
<1> QED
  BY <1>2, <1>3

-----------------------------------------------------------------------------
(* Every block in use belongs to one file                                  *)

\* What BlocksOwned says of a kernel that has not panicked.
Owned ==
    /\ bitmap = UNION {Blocks(ip) : ip \in Ino}
    /\ \A ip \in Ino : Cardinality(Blocks(ip)) = Frees(ip)
    /\ \A ip, jp \in Ino : ip # jp => Blocks(ip) \cap Blocks(jp) = {}

\* The blocks of a file are marked.
LEMMA OwnedFacts ==
  ASSUME TypeInv, Owned, NEW ip \in Ino
  PROVE  /\ Blocks(ip) \subseteq bitmap /\ Blocks(ip) \subseteq 1..NBLOCK
         /\ IsFiniteSet(Blocks(ip)) /\ Cardinality(Blocks(ip)) \in Nat /\ Frees(ip) = Cardinality(Blocks(ip))
<1>1. Blocks(ip) \subseteq bitmap
  BY DEF Owned
<1>2. Blocks(ip) \subseteq 1..NBLOCK
  BY <1>1, TypeFacts
<1>3. IsFiniteSet(1..NBLOCK)
  BY FS_Interval, Sizes
<1>4. IsFiniteSet(Blocks(ip))
  BY <1>2, <1>3, FS_Subset
<1>5. Cardinality(Blocks(ip)) \in Nat
  BY <1>4, FS_CardinalityType
<1> QED
  BY <1>1, <1>2, <1>4, <1>5 DEF Owned

\* The indirect block of a file is one of its blocks.
LEMMA IndirectIs ==
  ASSUME NEW ip \in Ino, itype[ip] # "T_CS", addrs[ip][NDIRECT] # 0
  PROVE  addrs[ip][NDIRECT] \in Blocks(ip)
<1>1. NDIRECT \in 0..NDIRECT
  BY Sizes
<1> QED
  BY <1>1 DEF Blocks, FileBlocks

\* A step that touches neither maps nor marks.
LEMMA OwnedAside ==
  ASSUME Owned, UNCHANGED <<bitmap, ind, itype, addrs>>
  PROVE  Owned'
<1>1. \A ip \in Ino : Blocks(ip)' = Blocks(ip) /\ Frees(ip)' = Frees(ip)
  BY BlocksSame
<1> QED
  BY <1>1 DEF Owned

\* A file gets blocks that were free.
LEMMA OwnedGrows ==
  ASSUME Owned, NEW ip \in Ino, NEW N, N \cap bitmap = {}, bitmap' = bitmap \cup N,
         Blocks(ip)' = Blocks(ip) \cup N, (Cardinality(Blocks(ip)) = Frees(ip))',
         \A jp \in Ino : jp # ip => Blocks(jp)' = Blocks(jp) /\ Frees(jp)' = Frees(jp)
  PROVE  Owned'
<1>1. \A jp \in Ino : Blocks(jp) \subseteq bitmap /\ Blocks(jp) \cap N = {}
  BY DEF Owned
<1>2. (bitmap = UNION {Blocks(jp) : jp \in Ino})'
  <2>1. ASSUME NEW y \in bitmap' PROVE \E jp \in Ino : y \in Blocks(jp)'
    <3>1. CASE y \in N
      BY <3>1
    <3>2. CASE y \in bitmap
      <4>1. PICK jp \in Ino : y \in Blocks(jp)
        BY <3>2 DEF Owned
      <4> QED
        BY <4>1
    <3> QED
      BY <3>1, <3>2
  <2>2. \A jp \in Ino : Blocks(jp)' \subseteq bitmap'
    BY <1>1
  <2> QED
    BY <2>1, <2>2
<1>3. (\A jp \in Ino : Cardinality(Blocks(jp)) = Frees(jp))'
  BY DEF Owned
<1>4. (\A jp, kp \in Ino : jp # kp => Blocks(jp) \cap Blocks(kp) = {})'
  BY <1>1 DEF Owned
<1> QED
  BY <1>2, <1>3, <1>4 DEF Owned

\* iput() frees a file that has no name and is not open: bfree() finds every block marked.
LEMMA OwnedFreed ==
  ASSUME TypeInv, Owned, NEW ip \in Ino, FreeInode(ip)
  PROVE  Owned' /\ panicked' = ""
<1>1. panicked' = ""
  BY OwnedFacts DEF FreeInode
<1>2. itype' = [itype EXCEPT ![ip] = "free"] /\ addrs' = [addrs EXCEPT ![ip] = ZeroAddrs] /\ bitmap' = bitmap \ Blocks(ip)
  BY DEF FreeInode
<1>3. Blocks(ip)' = {} /\ (Cardinality(Blocks(ip)) = Frees(ip))'
  <2>1. addrs'[ip] = ZeroAddrs
    BY <1>2, TypeFacts
  <2>2. (addrs[ip] = ZeroAddrs)'
    BY <2>1 DEF ZeroAddrs
  <2>3. (addrs[ip] = ZeroAddrs => Blocks(ip) = {} /\ Frees(ip) = 0 /\ Cardinality(Blocks(ip)) = 0)'
    BY EmptyBlocks, PTL
  <2> QED
    BY <2>2, <2>3
<1>4. ASSUME NEW jp \in Ino, jp # ip
      PROVE  Blocks(jp)' = Blocks(jp) /\ Frees(jp)' = Frees(jp)
  <2>1. itype'[jp] = itype[jp] /\ addrs'[jp] = addrs[jp]
    BY <1>2, <1>4, TypeFacts
  <2>2. ASSUME itype[jp] # "T_CS", addrs[jp][NDIRECT] # 0
        PROVE  ind'[addrs[jp][NDIRECT]] = ind[addrs[jp][NDIRECT]]
    <3>1. PICK c \in 1..NBLOCK : c = addrs[jp][NDIRECT] /\ c \in Blocks(jp)
      BY <2>2, IndirectIs, OwnedFacts
    <3>2. c \notin Blocks(ip)
      BY <1>4, <3>1 DEF Owned
    <3>3. ind'[c] = ind[c]
      BY <3>2 DEF FreeInode
    <3> QED
      BY <3>1, <3>3
  <2> QED
    BY <2>1, <2>2, BlocksSame
<1>5. (bitmap = UNION {Blocks(jp) : jp \in Ino})'
  <2>1. ASSUME NEW y \in bitmap' PROVE \E jp \in Ino : y \in Blocks(jp)'
    <3>1. PICK jp \in Ino : y \in Blocks(jp) /\ jp # ip
      BY <1>2 DEF Owned
    <3> QED
      BY <1>4, <3>1
  <2>2. ASSUME NEW jp \in Ino PROVE Blocks(jp)' \subseteq bitmap'
    <3>1. CASE jp = ip
      BY <1>3, <3>1
    <3>2. CASE jp # ip
      <4>1. Blocks(jp) \subseteq bitmap /\ Blocks(jp) \cap Blocks(ip) = {}
        BY <3>2 DEF Owned
      <4> QED
        BY <1>2, <1>4, <3>2, <4>1
    <3> QED
      BY <3>1, <3>2
  <2> QED
    BY <2>1, <2>2
<1>6. (\A jp \in Ino : Cardinality(Blocks(jp)) = Frees(jp))'
  BY <1>3, <1>4 DEF Owned
<1>7. (\A jp, kp \in Ino : jp # kp => Blocks(jp) \cap Blocks(kp) = {})'
  BY <1>3, <1>4 DEF Owned
<1> QED
  BY <1>1, <1>5, <1>6, <1>7 DEF Owned

\* A new file has no block, and neither had the free inode.
LEMMA OwnedCreate ==
  ASSUME IInv, Owned, NEW f \in File, NEW ip \in Ino, NEW type \in {"T_FILE", "T_CS"}, create(f, ip, type)
  PROVE  Owned'
<1>1. /\ itype[ip] = "free" /\ itype' = [itype EXCEPT ![ip] = type] /\ addrs' = [addrs EXCEPT ![ip] = ZeroAddrs]
      /\ UNCHANGED <<bitmap, ind>> /\ TypeInv
  BY DEF create, IInv
<1>2. Blocks(ip) = {}
  <2>1. addrs[ip] = ZeroAddrs
    BY <1>1 DEF IInv, NodeInv
  <2> QED
    BY <2>1, EmptyBlocks
<1>3. Blocks(ip)' = {} /\ (Cardinality(Blocks(ip)) = Frees(ip))'
  <2>1. addrs'[ip] = ZeroAddrs
    BY <1>1, TypeFacts
  <2>2. (addrs[ip] = ZeroAddrs)'
    BY <2>1 DEF ZeroAddrs
  <2>3. (addrs[ip] = ZeroAddrs => Blocks(ip) = {} /\ Frees(ip) = 0 /\ Cardinality(Blocks(ip)) = 0)'
    BY EmptyBlocks, PTL
  <2> QED
    BY <2>2, <2>3
<1>4. ASSUME NEW jp \in Ino, jp # ip
      PROVE  Blocks(jp)' = Blocks(jp) /\ Frees(jp)' = Frees(jp)
  <2>1. itype'[jp] = itype[jp] /\ addrs'[jp] = addrs[jp]
    BY <1>1, <1>4, TypeFacts
  <2> QED
    BY <1>1, <2>1, BlocksSame
<1>5. PICK N : N = {}
  OBVIOUS
<1> QED
  BY <1>1, <1>2, <1>3, <1>4, <1>5, OwnedGrows

\* Blocks marked by a step of another file leave the maps of a file alone.
LEMMA OthersSame ==
  ASSUME TypeInv, Owned, NEW ip \in Ino, NEW jp \in Ino, jp # ip, itype' = itype, addrs'[jp] = addrs[jp],
         \A c \in bitmap \ Blocks(ip) : ind'[c] = ind[c]
  PROVE  Blocks(jp)' = Blocks(jp) /\ Frees(jp)' = Frees(jp)
<1>1. ASSUME itype[jp] # "T_CS", addrs[jp][NDIRECT] # 0
      PROVE  ind'[addrs[jp][NDIRECT]] = ind[addrs[jp][NDIRECT]]
  <2>1. addrs[jp][NDIRECT] \in Blocks(jp)
    BY <1>1, IndirectIs
  <2>2. Blocks(jp) \cap Blocks(ip) = {} /\ Blocks(jp) \subseteq bitmap
    BY OwnedFacts DEF Owned
  <2> QED
    BY <2>1, <2>2
<1> QED
  BY <1>1, BlocksSame

\* csbmap() adds a block that belonged to nobody.
LEMMA OwnedCsGrow ==
  ASSUME IInv, Owned, NEW p \in Proc, write_csgrow(p)
  PROVE  Owned'
<1>1. More(p) /\ UNCHANGED <<itype, panicked>>
  BY DEF write_csgrow
<1>2. TypeInv /\ fip[wr[p].f] \in Ino
  BY <1>1, WriterIs
<1>3. PICK ip \in Ino : ip = fip[wr[p].f]
  BY <1>2
<1>4. /\ itype[ip] = "T_CS" /\ Free # {} /\ CsAppend(addrs[ip], FirstFree) # addrs[ip]
      /\ bitmap' = bitmap \cup {FirstFree} /\ ind' = [ind EXCEPT ![FirstFree] = ZeroPointers]
      /\ addrs' = [addrs EXCEPT ![ip] = CsAppend(addrs[ip], FirstFree)]
  BY <1>3 DEF write_csgrow, CanGrow
<1>5. PICK b \in 1..NBLOCK : b = FirstFree /\ b \notin bitmap
  BY <1>2, <1>4, FirstFreeIs
<1>6. PICK a \in Addrs : a = addrs[ip] /\ Runs(a)
  BY <1>2, <1>4, TypeFacts DEF IInv, NodeInv
<1>7. PICK c : c = CsAppend(a, b) /\ c # a
  BY <1>4, <1>5, <1>6
<1>8. addrs'[ip] = c /\ \A jp \in Ino : jp # ip => addrs'[jp] = addrs[jp]
  BY <1>2, <1>4, <1>5, <1>6, <1>7, TypeFacts
<1>9. CsBlocks(c) = CsBlocks(a) \cup {b} /\ CsFrees(a) \in Nat /\ CsFrees(c) = CsFrees(a) + 1
  BY <1>6, <1>7, AppendBlocks, AppendFrees
<1>10. Blocks(ip) = CsBlocks(a) /\ Frees(ip) = CsFrees(a)
  BY <1>4, <1>6 DEF Blocks, Frees, CsFrees
<1>11. Blocks(ip)' = CsBlocks(c)
  BY <1>1, <1>4, <1>8 DEF Blocks, CsBlocks, Start, Length
<1>12. Frees(ip)' = CsFrees(c)
  BY <1>1, <1>4, <1>8 DEF Frees, CsFrees, MapThenSumSet, MapThenFoldSet, Length
<1>13. Cardinality(CsBlocks(c)) = CsFrees(c)
  <2>1. IsFiniteSet(CsBlocks(a)) /\ CsBlocks(a) \subseteq bitmap /\ Cardinality(CsBlocks(a)) = CsFrees(a)
    BY <1>2, <1>10, OwnedFacts
  <2>2. Cardinality(CsBlocks(a) \cup {b}) = Cardinality(CsBlocks(a)) + 1
    BY <1>5, <2>1, FS_AddElement
  <2> QED
    BY <1>9, <2>1, <2>2
<1>14. \A d \in bitmap \ Blocks(ip) : ind'[d] = ind[d]
  BY <1>2, <1>4, <1>5, TypeFacts
<1>15. \A jp \in Ino : jp # ip => Blocks(jp)' = Blocks(jp) /\ Frees(jp)' = Frees(jp)
  BY <1>1, <1>2, <1>8, <1>14, OthersSame
<1>16. PICK N : N = {b}
  OBVIOUS
<1>17. N \cap bitmap = {} /\ bitmap' = bitmap \cup N /\ Blocks(ip)' = Blocks(ip) \cup N
  BY <1>4, <1>5, <1>9, <1>10, <1>11, <1>16
<1>18. (Cardinality(Blocks(ip)) = Frees(ip))'
  BY <1>11, <1>12, <1>13
<1> QED
  BY <1>15, <1>17, <1>18, OwnedGrows

\* The entries of addrs and of an indirect block that are in use.
Used(a) == {i \in 0..NDIRECT : a[i] # 0}
UsedIndirect(d) == {i \in 0..NINDIRECT-1 : d[i] # 0}

\* There are finitely many.
LEMMA UsedFacts ==
  /\ \A a : IsFiniteSet(Used(a)) /\ Cardinality(Used(a)) \in Nat
  /\ \A d : IsFiniteSet(UsedIndirect(d)) /\ Cardinality(UsedIndirect(d)) \in Nat
<1>0. 0 \in Int /\ NDIRECT \in Int /\ NINDIRECT - 1 \in Int
  BY Sizes
<1>1. IsFiniteSet(0..NDIRECT) /\ IsFiniteSet(0..(NINDIRECT-1))
  BY <1>0, FS_Interval
<1>2. \A a : IsFiniteSet(Used(a))
  BY <1>1, FS_Subset DEF Used
<1>3. \A d : IsFiniteSet(UsedIndirect(d))
  BY <1>1, FS_Subset DEF UsedIndirect
<1> QED
  BY <1>2, <1>3, FS_CardinalityType

\* The blocks of an ordinary file with an indirect block, and of one without.
LEMMA FileIs ==
  ASSUME NEW ip \in Ino, itype[ip] # "T_CS", NEW a, a = addrs[ip], NEW d, a[NDIRECT] # 0 => d = ind[a[NDIRECT]]
  PROVE  /\ Blocks(ip) = ({a[i] : i \in 0..NDIRECT}
                            \cup (IF a[NDIRECT] = 0 THEN {} ELSE {d[i] : i \in 0..NINDIRECT-1})) \ {0}
         /\ Frees(ip) = Cardinality(Used(a)) + (IF a[NDIRECT] = 0 THEN 0 ELSE Cardinality(UsedIndirect(d)))
<1>1. CASE a[NDIRECT] = 0
  BY <1>1 DEF Blocks, FileBlocks, Frees, Used
<1>2. CASE a[NDIRECT] # 0
  BY <1>2 DEF Blocks, FileBlocks, Frees, Used, UsedIndirect
<1> QED
  BY <1>1, <1>2

\* The same, one step later.
LEMMA FileIsNext ==
  ASSUME NEW ip \in Ino, itype'[ip] # "T_CS", NEW a, a = addrs'[ip], NEW d, a[NDIRECT] # 0 => d = ind'[a[NDIRECT]]
  PROVE  /\ Blocks(ip)' = ({a[i] : i \in 0..NDIRECT}
                            \cup (IF a[NDIRECT] = 0 THEN {} ELSE {d[i] : i \in 0..NINDIRECT-1})) \ {0}
         /\ Frees(ip)' = Cardinality(Used(a)) + (IF a[NDIRECT] = 0 THEN 0 ELSE Cardinality(UsedIndirect(d)))
<1>1. CASE a[NDIRECT] = 0
  BY <1>1 DEF Blocks, FileBlocks, Frees, Used
<1>2. CASE a[NDIRECT] # 0
  BY <1>2 DEF Blocks, FileBlocks, Frees, Used, UsedIndirect
<1> QED
  BY <1>1, <1>2

\* bmap() adds a direct block.
LEMMA OwnedDirect ==
  ASSUME IInv, Owned, NEW ip \in Ino, itype[ip] = "T_FILE", itype' = itype,
         NEW b \in 1..NBLOCK, b \notin bitmap, NEW bn \in 0..NDIRECT, GrowsDirect(ip, bn, b)
  PROVE  Owned'
<1>0. TypeInv /\ NDIRECT \in Nat \ {0} /\ NDIRECT \in 0..NDIRECT
  BY Sizes DEF IInv
<1>1. /\ bn < NDIRECT /\ addrs[ip][bn] = 0 /\ bitmap' = bitmap \cup {b}
      /\ addrs' = [addrs EXCEPT ![ip] = [addrs[ip] EXCEPT ![bn] = b]] /\ ind' = [ind EXCEPT ![b] = ZeroPointers]
  BY DEF GrowsDirect
<1>2. PICK a \in Addrs : a = addrs[ip]
  BY <1>0, TypeFacts
<1>3. PICK c : c = [a EXCEPT ![bn] = b]
  OBVIOUS
<1>4. c[bn] = b /\ bn # NDIRECT /\ b # 0 /\ a[bn] = 0 /\ \A i \in 0..NDIRECT : i # bn => c[i] = a[i]
  BY <1>0, <1>1, <1>2, <1>3 DEF Addrs
<1>5. addrs'[ip] = c /\ \A jp \in Ino : jp # ip => addrs'[jp] = addrs[jp]
  BY <1>0, <1>1, <1>2, <1>3, TypeFacts
<1>6. \A d \in bitmap : ind'[d] = ind[d]
  BY <1>0, <1>1, TypeFacts
<1>7. PICK d : d = ind[a[NDIRECT]]
  OBVIOUS
<1>8. a[NDIRECT] # 0 => ind'[a[NDIRECT]] = d
  BY <1>0, <1>2, <1>6, <1>7, IndirectIs, OwnedFacts
<1>9. c[NDIRECT] = a[NDIRECT] /\ c[NDIRECT] = 0 <=> a[NDIRECT] = 0
  BY <1>0, <1>4
<1>10. /\ Blocks(ip) = ({a[i] : i \in 0..NDIRECT}
                            \cup (IF a[NDIRECT] = 0 THEN {} ELSE {d[i] : i \in 0..NINDIRECT-1})) \ {0}
       /\ Frees(ip) = Cardinality(Used(a)) + (IF a[NDIRECT] = 0 THEN 0 ELSE Cardinality(UsedIndirect(d)))
  BY <1>2, <1>7, FileIs
<1>11. /\ Blocks(ip)' = ({c[i] : i \in 0..NDIRECT}
                            \cup (IF a[NDIRECT] = 0 THEN {} ELSE {d[i] : i \in 0..NINDIRECT-1})) \ {0}
       /\ Frees(ip)' = Cardinality(Used(c)) + (IF a[NDIRECT] = 0 THEN 0 ELSE Cardinality(UsedIndirect(d)))
  <2>1. itype'[ip] # "T_CS" /\ c[NDIRECT] = a[NDIRECT]
    BY <1>0, <1>4
  <2> QED
    BY <1>5, <1>8, <2>1, FileIsNext
<1>12. Blocks(ip)' = Blocks(ip) \cup {b}
  <2>1. {c[i] : i \in 0..NDIRECT} \ {0} = ({a[i] : i \in 0..NDIRECT} \ {0}) \cup {b}
    BY <1>4
  <2> QED
    BY <1>4, <1>10, <1>11, <2>1
<1>13. Cardinality(Used(c)) = Cardinality(Used(a)) + 1
  <2>1. Used(c) = Used(a) \cup {bn} /\ bn \notin Used(a)
    BY <1>4 DEF Used
  <2> QED
    BY <2>1, UsedFacts, FS_AddElement
<1>14. Frees(ip)' = Frees(ip) + 1
  <2>1. PICK n \in Nat : n = (IF a[NDIRECT] = 0 THEN 0 ELSE Cardinality(UsedIndirect(d)))
    BY UsedFacts
  <2>2. PICK k \in Nat : k = Cardinality(Used(a))
    BY UsedFacts
  <2>3. Frees(ip) = k + n
    BY <1>10, <2>1, <2>2
  <2>4. Frees(ip)' = (k + 1) + n
    BY <1>11, <1>13, <2>1, <2>2
  <2> QED
    BY <2>3, <2>4
<1>15. PICK N : N = {b}
  OBVIOUS
<1>16. \A jp \in Ino : jp # ip => Blocks(jp)' = Blocks(jp) /\ Frees(jp)' = Frees(jp)
  BY <1>0, <1>5, <1>6, OthersSame
<1>17. (Cardinality(Blocks(ip)) = Frees(ip))'
  <2>1. IsFiniteSet(Blocks(ip)) /\ b \notin Blocks(ip) /\ Frees(ip) = Cardinality(Blocks(ip))
    BY <1>0, OwnedFacts
  <2>2. Cardinality(Blocks(ip) \cup {b}) = Cardinality(Blocks(ip)) + 1
    BY <2>1, FS_AddElement
  <2> QED
    BY <1>12, <1>14, <2>1, <2>2
<1> QED
  BY <1>1, <1>12, <1>15, <1>16, <1>17, OwnedGrows

\* bmap() adds a block through the indirect block.
LEMMA OwnedOld ==
  ASSUME IInv, Owned, NEW ip \in Ino, itype[ip] = "T_FILE", itype' = itype,
         NEW b \in 1..NBLOCK, b \notin bitmap, NEW j \in 0..NINDIRECT-1, GrowsOld(ip, j, b)
  PROVE  Owned'
<1>0. TypeInv /\ NDIRECT \in Nat \ {0} /\ NDIRECT \in 0..NDIRECT
  BY Sizes DEF IInv
<1>2. PICK a \in Addrs : a = addrs[ip]
  BY <1>0, TypeFacts
<1>3. PICK pb \in 1..NBLOCK : pb = a[NDIRECT] /\ pb \in Blocks(ip) /\ pb \in bitmap
  <2>1. a[NDIRECT] \in Blocks(ip)
    BY <1>2, IndirectIs DEF GrowsOld
  <2> QED
    BY <1>0, <2>1, OwnedFacts
<1>4. PICK d \in [0..NINDIRECT-1 -> 0..NBLOCK] : d = ind[pb]
  BY <1>0, <1>3, TypeFacts
<1>5. PICK e : e = [d EXCEPT ![j] = b]
  OBVIOUS
<1>6. /\ d[j] = 0 /\ bitmap' = bitmap \cup {b} /\ addrs' = addrs /\ pb # b /\ pb # 0 /\ b # 0
      /\ ind' = [ind EXCEPT ![b] = ZeroPointers, ![pb] = e]
  BY <1>2, <1>3, <1>4, <1>5 DEF GrowsOld
<1>7. ind'[pb] = e /\ \A x \in bitmap \ Blocks(ip) : ind'[x] = ind[x]
  BY <1>0, <1>3, <1>6, TypeFacts
<1>8. e[j] = b /\ \A i \in 0..NINDIRECT-1 : i # j => e[i] = d[i]
  BY <1>4, <1>5
<1>10. /\ Blocks(ip) = ({a[i] : i \in 0..NDIRECT} \cup {d[i] : i \in 0..NINDIRECT-1}) \ {0}
       /\ Frees(ip) = Cardinality(Used(a)) + Cardinality(UsedIndirect(d))
  BY <1>2, <1>3, <1>4, <1>6, FileIs
<1>11. /\ Blocks(ip)' = ({a[i] : i \in 0..NDIRECT} \cup {e[i] : i \in 0..NINDIRECT-1}) \ {0}
       /\ Frees(ip)' = Cardinality(Used(a)) + Cardinality(UsedIndirect(e))
  <2>1. itype'[ip] # "T_CS" /\ a = addrs'[ip] /\ a[NDIRECT] # 0 /\ e = ind'[a[NDIRECT]]
    BY <1>2, <1>3, <1>6, <1>7
  <2>2. /\ Blocks(ip)' = ({a[i] : i \in 0..NDIRECT}
                            \cup (IF a[NDIRECT] = 0 THEN {} ELSE {e[i] : i \in 0..NINDIRECT-1})) \ {0}
        /\ Frees(ip)' = Cardinality(Used(a)) + (IF a[NDIRECT] = 0 THEN 0 ELSE Cardinality(UsedIndirect(e)))
    BY <2>1 DEF Blocks, FileBlocks, Frees, Used, UsedIndirect
  <2> QED
    BY <2>1, <2>2
<1>12. Blocks(ip)' = Blocks(ip) \cup {b}
  <2>1. {e[i] : i \in 0..NINDIRECT-1} \ {0} = ({d[i] : i \in 0..NINDIRECT-1} \ {0}) \cup {b}
    BY <1>6, <1>8
  <2> QED
    BY <1>6, <1>10, <1>11, <2>1
<1>13. Cardinality(UsedIndirect(e)) = Cardinality(UsedIndirect(d)) + 1
  <2>1. UsedIndirect(e) = UsedIndirect(d) \cup {j} /\ j \notin UsedIndirect(d)
    BY <1>6, <1>8 DEF UsedIndirect
  <2> QED
    BY <2>1, UsedFacts, FS_AddElement
<1>14. Frees(ip)' = Frees(ip) + 1
  <2>1. PICK n \in Nat : n = Cardinality(UsedIndirect(d))
    BY UsedFacts
  <2>2. PICK k \in Nat : k = Cardinality(Used(a))
    BY UsedFacts
  <2>3. Frees(ip) = k + n
    BY <1>10, <2>1, <2>2
  <2>4. Frees(ip)' = k + (n + 1)
    BY <1>11, <1>13, <2>1, <2>2
  <2> QED
    BY <2>3, <2>4
<1>15. PICK N : N = {b}
  OBVIOUS
<1>16. \A jp \in Ino : jp # ip => Blocks(jp)' = Blocks(jp) /\ Frees(jp)' = Frees(jp)
  BY <1>0, <1>6, <1>7, OthersSame
<1>17. (Cardinality(Blocks(ip)) = Frees(ip))'
  <2>1. IsFiniteSet(Blocks(ip)) /\ b \notin Blocks(ip) /\ Frees(ip) = Cardinality(Blocks(ip))
    BY <1>0, OwnedFacts
  <2>2. Cardinality(Blocks(ip) \cup {b}) = Cardinality(Blocks(ip)) + 1
    BY <2>1, FS_AddElement
  <2> QED
    BY <1>12, <1>14, <2>1, <2>2
<1> QED
  BY <1>6, <1>12, <1>15, <1>16, <1>17, OwnedGrows

\* bmap() adds a block and the indirect block that leads to it.
LEMMA OwnedNew ==
  ASSUME IInv, Owned, NEW ip \in Ino, itype[ip] = "T_FILE", itype' = itype,
         NEW b \in 1..NBLOCK, b \notin bitmap, NEW j \in 0..NINDIRECT-1, GrowsNew(ip, j, b)
  PROVE  Owned'
<1>0. TypeInv /\ NDIRECT \in Nat \ {0} /\ NDIRECT \in 0..NDIRECT
  BY Sizes DEF IInv
<1>2. PICK a \in Addrs : a = addrs[ip]
  BY <1>0, TypeFacts
<1>3. PICK pb \in 1..NBLOCK : pb = FirstFree /\ pb \notin bitmap
  BY <1>0, FirstFreeIs DEF GrowsNew
<1>4. PICK c : c = [a EXCEPT ![NDIRECT] = pb]
  OBVIOUS
<1>5. PICK e : e = [ZeroPointers EXCEPT ![j] = b]
  OBVIOUS
<1>6. /\ a[NDIRECT] = 0 /\ bitmap' = bitmap \cup {pb, b} /\ pb # b /\ pb # 0 /\ b # 0
      /\ addrs' = [addrs EXCEPT ![ip] = c] /\ ind' = [ind EXCEPT ![b] = ZeroPointers, ![pb] = e]
  BY <1>2, <1>3, <1>4, <1>5 DEF GrowsNew
<1>7. ind'[pb] = e /\ \A x \in bitmap : ind'[x] = ind[x]
  BY <1>0, <1>3, <1>6, TypeFacts
<1>8. e[j] = b /\ \A i \in 0..NINDIRECT-1 : i # j => e[i] = 0
  BY <1>5 DEF ZeroPointers
<1>9. c[NDIRECT] = pb /\ (\A i \in 0..NDIRECT : i # NDIRECT => c[i] = a[i])
      /\ addrs'[ip] = c /\ \A jp \in Ino : jp # ip => addrs'[jp] = addrs[jp]
  BY <1>0, <1>2, <1>4, <1>6, TypeFacts DEF Addrs
<1>10. /\ Blocks(ip) = {a[i] : i \in 0..NDIRECT} \ {0}
       /\ Frees(ip) = Cardinality(Used(a)) + 0
  <2>1. PICK z : z = ind[a[NDIRECT]]
    OBVIOUS
  <2>2. itype[ip] # "T_CS"
    OBVIOUS
  <2> QED
    BY <1>2, <1>6, <2>1, <2>2, FileIs
<1>11. /\ Blocks(ip)' = ({c[i] : i \in 0..NDIRECT} \cup {e[i] : i \in 0..NINDIRECT-1}) \ {0}
       /\ Frees(ip)' = Cardinality(Used(c)) + Cardinality(UsedIndirect(e))
  <2>1. itype'[ip] # "T_CS" /\ c = addrs'[ip] /\ c[NDIRECT] # 0 /\ e = ind'[c[NDIRECT]]
    BY <1>6, <1>7, <1>9
  <2> QED
    BY <2>1 DEF Blocks, FileBlocks, Frees, Used, UsedIndirect
<1>12. Blocks(ip)' = Blocks(ip) \cup {pb, b}
  <2>1. {e[i] : i \in 0..NINDIRECT-1} \ {0} = {b}
    BY <1>6, <1>8
  <2>2. {c[i] : i \in 0..NDIRECT} \ {0} = ({a[i] : i \in 0..NDIRECT} \ {0}) \cup {pb}
    BY <1>0, <1>6, <1>9
  <2> QED
    BY <1>6, <1>10, <1>11, <2>1, <2>2
<1>13. Cardinality(UsedIndirect(e)) = 1 /\ Cardinality(Used(c)) = Cardinality(Used(a)) + 1
  <2>1. UsedIndirect(e) = {j}
    BY <1>6, <1>8 DEF UsedIndirect
  <2>2. Used(c) = Used(a) \cup {NDIRECT} /\ NDIRECT \notin Used(a)
    BY <1>0, <1>6, <1>9 DEF Used
  <2>3. Cardinality({j}) = 1
    BY FS_Singleton
  <2>4. Cardinality(Used(c)) = Cardinality(Used(a)) + 1
    BY <2>2, UsedFacts, FS_AddElement
  <2> QED
    BY <2>1, <2>3, <2>4
<1>14. Frees(ip)' = Frees(ip) + 2
  <2>1. PICK k \in Nat : k = Cardinality(Used(a))
    BY UsedFacts
  <2>2. Frees(ip) = k /\ Frees(ip)' = (k + 1) + 1
    BY <1>10, <1>11, <1>13, <2>1
  <2> QED
    BY <2>1, <2>2
<1>15. PICK N : N = {pb, b}
  OBVIOUS
<1>16. \A jp \in Ino : jp # ip => Blocks(jp)' = Blocks(jp) /\ Frees(jp)' = Frees(jp)
  BY <1>0, <1>7, <1>9, OthersSame
<1>17. (Cardinality(Blocks(ip)) = Frees(ip))'
  <2>1. IsFiniteSet(Blocks(ip)) /\ b \notin Blocks(ip) /\ pb \notin Blocks(ip) /\ Frees(ip) = Cardinality(Blocks(ip))
        /\ Cardinality(Blocks(ip)) \in Nat
    BY <1>0, <1>3, OwnedFacts
  <2>2. PICK M : M = Blocks(ip) \cup {pb}
    OBVIOUS
  <2>3. Cardinality(M) = Cardinality(Blocks(ip)) + 1 /\ IsFiniteSet(M)
    BY <2>1, <2>2, FS_AddElement
  <2>4. Cardinality(M \cup {b}) = Cardinality(M) + 1
    BY <1>6, <2>1, <2>2, <2>3, FS_AddElement
  <2>5. Blocks(ip)' = M \cup {b}
    BY <1>12, <2>2
  <2> QED
    BY <1>14, <2>1, <2>3, <2>4, <2>5
<1>18. N \cap bitmap = {} /\ bitmap' = bitmap \cup N /\ Blocks(ip)' = Blocks(ip) \cup N
  BY <1>3, <1>6, <1>12, <1>15
<1> QED
  BY <1>16, <1>17, <1>18, OwnedGrows

\* bmap() adds a block to an ordinary file, or panics.
LEMMA OwnedGrow ==
  ASSUME IInv, Owned, NEW p \in Proc, write_grow(p)
  PROVE  Owned'
<1>1. More(p)
  BY DEF write_grow
<1>2. TypeInv /\ fip[wr[p].f] \in Ino
  BY <1>1, WriterIs
<1>3. PICK ip \in Ino : ip = fip[wr[p].f]
  BY <1>2
<1>4. itype[ip] = "T_FILE" /\ itype' = itype
  BY <1>3, GrowIs
<1>5. CASE UNCHANGED <<bitmap, data, ind, addrs, wr>>
  BY <1>4, <1>5, OwnedAside
<1>6. ASSUME NEW b \in 1..NBLOCK, b \notin bitmap, GrowsDirect(ip, wr[p].o \div BSIZE, b)
      PROVE  Owned'
  <2>1. PICK bn \in 0..NDIRECT : bn = wr[p].o \div BSIZE
    <3>1. wr[p].o \in Nat /\ BSIZE \in Nat \ {0} /\ NDIRECT \in Nat
      BY <1>2, WriteFacts, Sizes
    <3>2. wr[p].o \div BSIZE \in 0..wr[p].o
      BY <3>1, DivSmaller
    <3> QED
      BY <1>6, <3>1, <3>2 DEF GrowsDirect
  <2> QED
    BY <1>4, <1>6, <2>1, OwnedDirect
<1>7. \/ UNCHANGED <<bitmap, data, ind, addrs, wr>>
      \/ \E b \in 1..NBLOCK :
           /\ b \notin bitmap
           /\ \/ GrowsDirect(ip, wr[p].o \div BSIZE, b)
              \/ \E j \in 0..NINDIRECT-1 : GrowsOld(ip, j, b) \/ GrowsNew(ip, j, b)
  BY <1>3, GrowIs
<1> QED
  BY <1>4, <1>5, <1>6, <1>7, OwnedOld, OwnedNew

\* No step leaks a block, shares one or frees a free one.
LEMMA StepOwned ==
  ASSUME IInv, BlocksOwned, [Next]_vars
  PROVE  BlocksOwned'
<1>0. BlocksOwned <=> panicked # "freeing free block" /\ (Running => Owned)
  BY DEF BlocksOwned, Owned
<1>1. BlocksOwned' <=> panicked' # "freeing free block" /\ (panicked' = "" => Owned')
  BY DEF BlocksOwned, Owned, Running
<1>2. CASE UNCHANGED vars
  <2>1. UNCHANGED <<bitmap, ind, itype, addrs, panicked>>
    BY <1>2 DEF vars, inodeVars
  <2> QED
    BY <1>0, <1>1, <2>1, OwnedAside DEF Running
<1>3. CASE Next
  <2>1. Running
    BY <1>3 DEF Next, create, open, unlink, fileclose, sys_write, fileread, writei_begin, writei_end,
                write_mapped, write_grow, write_csgrow, write_csfail
  <2>2. Owned /\ panicked = "" /\ TypeInv
    BY <1>0, <2>1 DEF Running, IInv
  <2>3. ASSUME NEW ip \in Ino, FreeInode(ip) \/ UNCHANGED <<bitmap, data, ind, addrs, size, itype, panicked>>
        PROVE  BlocksOwned'
    BY <1>1, <2>2, <2>3, OwnedFreed, OwnedAside
  <2>4. ASSUME NEW f \in File, fileclose(f) PROVE BlocksOwned'
    <3>1. fip[f] \in Ino
      BY <2>2, <2>4, TypeFacts DEF fileclose
    <3> QED
      BY <2>3, <2>4, <3>1 DEF fileclose
  <2>5. ASSUME NEW ip \in Ino, unlink(ip) PROVE BlocksOwned'
    BY <2>3, <2>5 DEF unlink
  <2>6. ASSUME UNCHANGED <<bitmap, ind, itype, addrs, panicked>> PROVE BlocksOwned'
    BY <1>1, <2>2, <2>6, OwnedAside
  <2>7. ASSUME NEW f \in File, NEW ip \in Ino, NEW type \in {"T_FILE", "T_CS"}, create(f, ip, type)
        PROVE  BlocksOwned'
    <3>1. panicked' = panicked
      BY <2>7 DEF create
    <3> QED
      BY <1>1, <2>2, <2>7, <3>1, OwnedCreate
  <2>8. ASSUME NEW p \in Proc, write_csgrow(p) PROVE BlocksOwned'
    <3>1. panicked' = panicked
      BY <2>8 DEF write_csgrow
    <3> QED
      BY <1>1, <2>2, <2>8, <3>1, OwnedCsGrow
  <2>9. ASSUME NEW p \in Proc, write_grow(p) PROVE BlocksOwned'
    <3>1. panicked' \in {panicked, "balloc: out of blocks"}
      BY <2>9 DEF write_grow
    <3> QED
      BY <1>1, <2>2, <2>9, <3>1, OwnedGrow
  <2>10. ASSUME NEW f \in File, NEW ip \in Ino, open(f, ip) PROVE BlocksOwned'
    BY <2>6, <2>10 DEF open, inodeVars
  <2>11. ASSUME NEW p \in Proc, NEW f \in File, NEW n, sys_write(p, f, n) \/ fileread(p, f, n) PROVE BlocksOwned'
    BY <2>6, <2>11 DEF sys_write, fileread, inodeVars
  <2>12. ASSUME NEW p \in Proc, writei_begin(p) \/ writei_end(p) \/ write_mapped(p) \/ write_csfail(p)
         PROVE  BlocksOwned'
    BY <2>6, <2>12 DEF writei_begin, writei_end, write_mapped, write_csfail, inodeVars
  <2> QED
    BY <1>3, <2>4, <2>5, <2>7, <2>8, <2>9, <2>10, <2>11, <2>12 DEF Next
<1> QED
  BY <1>2, <1>3

\* Nothing is in use at the beginning.
LEMMA InitOwned == Init => BlocksOwned
<1> SUFFICES ASSUME Init PROVE BlocksOwned
  OBVIOUS
<1>1. \A ip \in Ino : Blocks(ip) = {} /\ Cardinality(Blocks(ip)) = Frees(ip)
  BY EmptyBlocks DEF Init
<1> QED
  BY <1>1 DEF Init, BlocksOwned

\* Every block in use belongs to exactly one file, once, and no bfree() meets a free block, in
\* every interleaving of writes, failed writes, creations, unlinks and closes.
THEOREM CsFileBlocksOwned == Spec => []BlocksOwned
<1>1. Init => BlocksOwned
  BY InitOwned
<1>2. IInv /\ BlocksOwned /\ [Next]_vars => BlocksOwned'
  BY StepOwned
<1> QED
  BY <1>1, <1>2, CsFileInvariant, PTL DEF Spec

-----------------------------------------------------------------------------
(* Logical blocks of a CS file                                             *)

\* Induction over the entries, for a set of indices.
LEMMA EntryInduction ==
  ASSUME NEW S, 0 \in S, \A i \in 0..NDIRECT : i < NDIRECT /\ i \in S => i + 1 \in S
  PROVE  0..NDIRECT \subseteq S
<1>0. NDIRECT \in Nat
  BY Sizes
<1> DEFINE Bad == (0..NDIRECT) \ S
<1>1. SUFFICES ASSUME Bad # {} PROVE FALSE
  OBVIOUS
<1>2. Bad \in SUBSET Nat
  BY <1>0
<1>3. PICK m \in Bad : \A y \in Bad : m <= y
  <2> HIDE DEF Bad
  <2> QED
    BY <1>1, <1>2, MinIs
<1>4. m \in 0..NDIRECT /\ m \notin S /\ m # 0
  OBVIOUS
<1>5. PICK k \in 0..NDIRECT : k = m - 1 /\ k + 1 = m /\ k < NDIRECT /\ k < m
  BY <1>0, <1>4
<1>6. k \in S
  BY <1>0, <1>3, <1>5
<1> QED
  BY <1>4, <1>5, <1>6

\* The running total of csbmap()'s loop: zero, and then entry by entry.
Adds1(f, a, i) == IF i = 0 THEN 0 ELSE f[i - 1] + Length(a[i - 1])
Adds(f, a) == f = [i \in 0..NDIRECT |-> Adds1(f, a, i)]

\* There is such a function.
LEMMA AddsExists ==
  ASSUME NEW a \in Addrs
  PROVE  \E f : Adds(f, a)
<1>0. NDIRECT \in Nat
  BY Sizes
<1> DEFINE Upto(f, n) == \A i \in 0..NDIRECT : i <= n => f[i] = Adds1(f, a, i)
           Fine(n) == \E f \in [0..NDIRECT -> Nat] : Upto(f, n)
           S == {n \in 0..NDIRECT : Fine(n)}
<1>1. \A i \in 0..NDIRECT : Length(a[i]) \in Nat
  BY AddrNat
<1>2. 0 \in S
  <2> DEFINE z == [i \in 0..NDIRECT |-> 0]
  <2>1. z \in [0..NDIRECT -> Nat]
    OBVIOUS
  <2>2. Upto(z, 0)
    BY <1>0 DEF Adds1
  <2> QED
    BY <1>0, <2>1, <2>2
<1>3. ASSUME NEW n \in 0..NDIRECT, n < NDIRECT, n \in S
      PROVE  n + 1 \in S
  <2>1. PICK f \in [0..NDIRECT -> Nat] : Upto(f, n)
    BY <1>3
  <2>2. PICK v \in Nat : v = f[n] + Length(a[n])
    BY <1>1
  <2>3. PICK h : h = [f EXCEPT ![n + 1] = v]
    OBVIOUS
  <2>4. h \in [0..NDIRECT -> Nat]
    BY <2>2, <2>3
  <2>5. n + 1 \in 0..NDIRECT /\ h[n + 1] = v /\ \A i \in 0..NDIRECT : i # n + 1 => h[i] = f[i]
    BY <1>0, <1>3, <2>3
  <2>6. ASSUME NEW i \in 0..NDIRECT, i <= n + 1
        PROVE  h[i] = Adds1(h, a, i)
    <3>1. CASE i = n + 1
      <4>1. i - 1 = n /\ i # 0 /\ h[n] = f[n]
        BY <1>3, <2>5, <3>1
      <4> QED
        BY <2>2, <2>5, <3>1, <4>1 DEF Adds1
    <3>2. CASE i # n + 1
      <4>1. f[i] = Adds1(f, a, i) /\ h[i] = f[i]
        BY <1>3, <2>1, <2>5, <2>6, <3>2
      <4>2. i = 0 \/ (i - 1 \in 0..NDIRECT /\ i - 1 # n + 1)
        BY <1>0, <1>3, <2>6, <3>2
      <4>3. i = 0 \/ h[i - 1] = f[i - 1]
        BY <2>5, <4>2
      <4> QED
        BY <4>1, <4>3 DEF Adds1
    <3> QED
      BY <3>1, <3>2
  <2> QED
    BY <2>4, <2>5, <2>6
<1>4. NDIRECT \in S
  <2> HIDE DEF S
  <2>1. 0..NDIRECT \subseteq S
    BY <1>2, <1>3, EntryInduction
  <2> QED
    BY <1>0, <2>1
<1>5. PICK f \in [0..NDIRECT -> Nat] : Upto(f, NDIRECT)
  BY <1>4
<1>6. \A i \in 0..NDIRECT : f[i] = Adds1(f, a, i)
  BY <1>0, <1>5
<1>7. f = [i \in 0..NDIRECT |-> Adds1(f, a, i)]
  BY <1>6
<1> QED
  BY <1>7 DEF Adds

\* What csbmap() has counted before each entry.
LEMMA BeforeIs ==
  ASSUME NEW a \in Addrs
  PROVE  /\ \A i \in 0..NDIRECT : Before(a)[i] \in Nat
         /\ Before(a)[0] = 0
         /\ \A i \in 0..NDIRECT : i < NDIRECT => Before(a)[i + 1] = Before(a)[i] + Length(a[i])
<1>0. NDIRECT \in Nat
  BY Sizes
<1>1. PICK f : f = Before(a)
  OBVIOUS
<1>2. Adds(f, a)
  <2> DEFINE Body(h) == [i \in 0..NDIRECT |-> Adds1(h, a, i)]
  <2>1. Before(a) = CHOOSE h : h = Body(h)
    BY DEF Before, Adds1
  <2>2. \E h : h = Body(h)
    BY AddsExists DEF Adds
  <2> HIDE DEF Body
  <2>3. f = Body(f)
    BY <1>1, <2>1, <2>2
  <2> QED
    BY <2>3 DEF Body, Adds
<1>3. \A i \in 0..NDIRECT : f[i] = Adds1(f, a, i)
  <2> DEFINE F(i) == Adds1(f, a, i)
  <2>1. f = [i \in 0..NDIRECT |-> F(i)]
    BY <1>2 DEF Adds
  <2> HIDE DEF F
  <2>2. \A i \in 0..NDIRECT : f[i] = F(i)
    BY <2>1
  <2> QED
    BY <2>2 DEF F
<1>4. f[0] = 0
  BY <1>0, <1>3 DEF Adds1
<1>5. ASSUME NEW i \in 0..NDIRECT, i < NDIRECT
      PROVE  f[i + 1] = f[i] + Length(a[i])
  <2>1. PICK j \in 0..NDIRECT : j = i + 1 /\ j - 1 = i /\ j # 0
    BY <1>0, <1>5
  <2>2. f[j] = f[j - 1] + Length(a[j - 1])
    BY <1>3, <2>1 DEF Adds1
  <2> QED
    BY <2>1, <2>2
<1>6. 0..NDIRECT \subseteq {i \in 0..NDIRECT : f[i] \in Nat}
  <2> DEFINE S == {i \in 0..NDIRECT : f[i] \in Nat}
  <2>1. 0 \in S
    BY <1>0, <1>4
  <2>2. ASSUME NEW i \in 0..NDIRECT, i < NDIRECT, i \in S
        PROVE  i + 1 \in S
    <3>1. Length(a[i]) \in Nat
      BY AddrNat
    <3>2. f[i + 1] \in Nat
      BY <1>5, <2>2, <3>1
    <3> QED
      BY <1>0, <2>2, <3>2
  <2>3. SUFFICES 0..NDIRECT \subseteq S
    OBVIOUS
  <2> HIDE DEF S
  <2> QED
    BY <2>1, <2>2, EntryInduction
<1> QED
  BY <1>1, <1>4, <1>5, <1>6

\* The count never falls.
LEMMA BeforeGrows ==
  ASSUME NEW a \in Addrs, NEW i \in 0..NDIRECT, NEW j \in 0..NDIRECT, i <= j
  PROVE  Before(a)[i] <= Before(a)[j]
<1>0. NDIRECT \in Nat
  BY Sizes
<1>1. PICK f : f = Before(a)
  OBVIOUS
<1>2. /\ \A k \in 0..NDIRECT : f[k] \in Nat /\ Length(a[k]) \in Nat
      /\ \A k \in 0..NDIRECT : k < NDIRECT => f[k + 1] = f[k] + Length(a[k])
  BY <1>1, BeforeIs, AddrNat
<1> DEFINE S == {k \in 0..NDIRECT : i <= k => f[i] <= f[k]}
<1>3. 0 \in S
  BY <1>0, <1>2
<1>4. ASSUME NEW k \in 0..NDIRECT, k < NDIRECT, k \in S
      PROVE  k + 1 \in S
  <2>1. k + 1 \in 0..NDIRECT /\ f[k + 1] = f[k] + Length(a[k])
    BY <1>0, <1>2, <1>4
  <2>2. CASE i <= k
    BY <1>2, <1>4, <2>1, <2>2
  <2>3. CASE i = k + 1
    BY <1>2, <2>1, <2>3
  <2>4. CASE i > k + 1
    BY <1>0, <2>1, <2>4
  <2> QED
    BY <1>0, <2>2, <2>3, <2>4
<1>5. 0..NDIRECT \subseteq S
  <2> HIDE DEF S
  <2> QED
    BY <1>3, <1>4, EntryInduction
<1> QED
  BY <1>1, <1>5

\* The count depends on the entries before only.
LEMMA BeforeAgrees ==
  ASSUME NEW a \in Addrs, NEW c \in Addrs, NEW l \in 0..NDIRECT, \A i \in 0..NDIRECT : i < l => c[i] = a[i]
  PROVE  \A i \in 0..NDIRECT : i <= l => Before(c)[i] = Before(a)[i]
<1>0. NDIRECT \in Nat
  BY Sizes
<1>1. PICK f : f = Before(a)
  OBVIOUS
<1>2. PICK g : g = Before(c)
  OBVIOUS
<1>3. f[0] = 0 /\ \A k \in 0..NDIRECT : k < NDIRECT => f[k + 1] = f[k] + Length(a[k])
  BY <1>1, BeforeIs
<1>4. g[0] = 0 /\ \A k \in 0..NDIRECT : k < NDIRECT => g[k + 1] = g[k] + Length(c[k])
  BY <1>2, BeforeIs
<1> DEFINE S == {k \in 0..NDIRECT : k <= l => g[k] = f[k]}
<1>5. 0 \in S
  BY <1>0, <1>3, <1>4
<1>6. ASSUME NEW k \in 0..NDIRECT, k < NDIRECT, k \in S
      PROVE  k + 1 \in S
  <2>1. CASE k + 1 <= l
    <3>1. k + 1 \in 0..NDIRECT /\ k < l /\ k <= l
      BY <1>0, <1>6, <2>1
    <3>2. c[k] = a[k] /\ g[k] = f[k]
      BY <1>6, <3>1
    <3> QED
      BY <1>3, <1>4, <1>6, <3>1, <3>2
  <2>2. CASE k + 1 > l
    BY <1>0, <1>6, <2>2
  <2> QED
    BY <1>0, <2>1, <2>2
<1>7. 0..NDIRECT \subseteq S
  <2> HIDE DEF S
  <2> QED
    BY <1>5, <1>6, EntryInduction
<1> QED
  BY <1>1, <1>2, <1>7

\* What csbmap() finds: the entry whose run holds the logical block, or nothing beyond the last.
LEMMA CsLookupIs ==
  ASSUME NEW a \in Addrs, NEW bn \in Nat
  PROVE  /\ Total(a) \in Nat
         /\ bn >= Total(a) => CsLookup(a, bn) = 0
         /\ \A i \in 0..NDIRECT : i < Extents(a) /\ Before(a)[i] <= bn /\ bn < Before(a)[i] + Length(a[i])
               => CsLookup(a, bn) = Start(a[i]) + (bn - Before(a)[i])
         /\ bn < Total(a) => \E i \in 0..NDIRECT : /\ i < Extents(a) /\ Before(a)[i] <= bn
                                                   /\ bn < Before(a)[i] + Length(a[i])
<1>0. NDIRECT \in Nat
  BY Sizes
<1>1. PICK f : f = Before(a)
  OBVIOUS
<1>2. PICK e \in 0..NDIRECT : e = Extents(a)
  BY ExtentsIs
<1>3. f[0] = 0 /\ \A k \in 0..NDIRECT : f[k] \in Nat /\ (k < NDIRECT => f[k + 1] = f[k] + Length(a[k])) /\ Length(a[k]) \in Nat
  BY <1>1, BeforeIs, AddrNat
<1>4. \A i, j \in 0..NDIRECT : i <= j => f[i] <= f[j]
  BY <1>1, BeforeGrows
<1>5. Total(a) = f[e] /\ f[e] \in Nat
  BY <1>1, <1>2, <1>3 DEF Total
<1>6. PICK hit : hit = {i \in 0..e-1 : bn < f[i] + Length(a[i])}
  OBVIOUS
<1>7. CsLookup(a, bn) = IF hit = {} THEN 0 ELSE Start(a[Min(hit)]) + (bn - f[Min(hit)])
  BY <1>1, <1>2, <1>6 DEF CsLookup
<1>8. hit \in SUBSET Nat /\ \A i \in hit : i \in 0..NDIRECT /\ i < e /\ bn < f[i + 1] /\ i + 1 \in 0..NDIRECT
  BY <1>0, <1>3, <1>6
<1>9. bn >= f[e] => hit = {}
  <2> SUFFICES ASSUME bn >= f[e], NEW i \in hit PROVE FALSE
    OBVIOUS
  <2>1. PICK k \in 0..NDIRECT : k = i + 1 /\ k <= e /\ bn < f[k]
    BY <1>0, <1>8
  <2>2. f[k] <= f[e] /\ f[k] \in Nat
    BY <1>3, <1>4, <2>1
  <2> QED
    BY <1>5, <2>1, <2>2
<1>10. ASSUME NEW i \in 0..NDIRECT, i < e, f[i] <= bn, bn < f[i] + Length(a[i])
       PROVE  CsLookup(a, bn) = Start(a[i]) + (bn - f[i])
  <2>1. i \in hit
    BY <1>0, <1>6, <1>10
  <2>2. PICK m \in hit : m = Min(hit) /\ m <= i
    BY <1>8, <2>1, MinIs
  <2>3. ~(m < i)
    <3> SUFFICES ASSUME m < i PROVE FALSE
      OBVIOUS
    <3>1. PICK k \in 0..NDIRECT : k = m + 1 /\ k <= i /\ bn < f[k]
      BY <1>0, <1>8, <2>2
    <3>2. f[k] <= f[i] /\ f[k] \in Nat /\ f[i] \in Nat
      BY <1>3, <1>4, <3>1
    <3> QED
      BY <1>10, <3>1, <3>2
  <2>4. m = i
    BY <1>0, <1>8, <2>2, <2>3
  <2> QED
    BY <1>7, <2>1, <2>2, <2>4
<1>11. ASSUME bn < f[e]
       PROVE  \E i \in 0..NDIRECT : i < e /\ f[i] <= bn /\ bn < f[i] + Length(a[i])
  <2>1. e # 0
    BY <1>3, <1>11
  <2>2. PICK l \in 0..NDIRECT : l = e - 1 /\ l + 1 = e /\ l < NDIRECT /\ l \in 0..e-1
    BY <1>0, <2>1
  <2>3. l \in hit
    BY <1>3, <1>6, <1>11, <2>2
  <2>4. PICK m \in hit : \A y \in hit : m <= y
    BY <1>8, <2>3, MinIs
  <2>5. f[m] <= bn
    <3>1. CASE m = 0
      BY <1>3, <3>1
    <3>2. CASE m # 0
      <4>1. PICK k \in 0..NDIRECT : k = m - 1 /\ k + 1 = m /\ k < NDIRECT /\ k \in 0..e-1 /\ k < m
        BY <1>0, <1>8, <3>2
      <4>2. k \notin hit
        BY <1>0, <1>8, <2>4, <4>1
      <4>3. ~(bn < f[k] + Length(a[k])) /\ f[m] = f[k] + Length(a[k]) /\ f[m] \in Nat
        BY <1>3, <1>6, <1>8, <4>1, <4>2
      <4> QED
        BY <4>3
    <3> QED
      BY <3>1, <3>2
  <2>6. m \in 0..NDIRECT /\ m < e /\ bn < f[m] + Length(a[m])
    BY <1>0, <1>6, <1>8
  <2> QED
    BY <2>5, <2>6
<1> QED
  BY <1>1, <1>2, <1>5, <1>7, <1>9, <1>10, <1>11

\* The appended block becomes the next logical block, and the others stay where they are.
LEMMA AppendLookup ==
  ASSUME NEW a \in Addrs, Runs(a), NEW b \in 1..NBLOCK, CsAppend(a, b) # a
  PROVE  /\ Total(CsAppend(a, b)) = Total(a) + 1
         /\ \A bn \in Nat : CsLookup(CsAppend(a, b), bn) = IF bn = Total(a) THEN b ELSE CsLookup(a, bn)
<1>0. NDIRECT \in Nat
  BY Sizes
<1>1. PICK c \in Addrs : c = CsAppend(a, b)
  BY AppendRuns
<1>2. PICK f : f = Before(a)
  OBVIOUS
<1>3. PICK g : g = Before(c)
  OBVIOUS
<1>4. \A k \in 0..NDIRECT : f[k] \in Nat /\ (k < NDIRECT => f[k + 1] = f[k] + Length(a[k])) /\ Length(a[k]) \in Nat /\ Start(a[k]) \in Nat
  BY <1>2, BeforeIs, AddrNat
<1>5. \A k \in 0..NDIRECT : g[k] \in Nat /\ (k < NDIRECT => g[k + 1] = g[k] + Length(c[k])) /\ Length(c[k]) \in Nat
  BY <1>3, BeforeIs, AddrNat
<1>6. \A i, j \in 0..NDIRECT : i <= j => f[i] <= f[j]
  BY <1>2, BeforeGrows
<1>7. ASSUME NEW l \in 0..NDIRECT, l < NDIRECT, \A i \in 0..NDIRECT : i # l => c[i] = a[i],
             Extents(c) = l + 1, Extents(a) \in {l, l + 1}, Length(c[l]) = (f[Extents(a)] - f[l]) + 1,
             b = Start(c[l]) + (f[Extents(a)] - f[l]),
             Extents(a) = l + 1 => Start(c[l]) = Start(a[l])
      PROVE  /\ Total(c) = Total(a) + 1
             /\ \A bn \in Nat : CsLookup(c, bn) = IF bn = Total(a) THEN b ELSE CsLookup(a, bn)
  <2>1. \A i \in 0..NDIRECT : i <= l => g[i] = f[i]
    <3>1. \A i \in 0..NDIRECT : i < l => c[i] = a[i]
      BY <1>7
    <3> QED
      BY <1>2, <1>3, <3>1, BeforeAgrees
  <2>2. PICK e \in 0..NDIRECT : e = Extents(a) /\ l <= e /\ e \in {l, l + 1}
    BY <1>0, <1>7
  <2>3. PICK t \in Nat : t = Total(a) /\ t = f[e] /\ f[l] <= t
    BY <1>2, <1>4, <1>6, <2>2 DEF Total
  <2>4. l + 1 \in 0..NDIRECT /\ g[l] = f[l] /\ f[l] \in Nat /\ Length(c[l]) = (t - f[l]) + 1
    BY <1>0, <1>4, <1>7, <2>1, <2>2, <2>3
  <2>5. g[l + 1] = t + 1
    BY <1>5, <1>7, <2>3, <2>4
  <2>6. Total(c) = t + 1
    BY <1>3, <1>7, <2>5 DEF Total
  <2>7. ASSUME NEW bn \in Nat
        PROVE  CsLookup(c, bn) = IF bn = t THEN b ELSE CsLookup(a, bn)
    <3>1. CASE bn > t
      <4>1. CsLookup(c, bn) = 0
        BY <2>3, <2>6, <3>1, CsLookupIs
      <4>2. bn >= Total(a)
        BY <2>3, <3>1
      <4>3. CsLookup(a, bn) = 0
        BY <4>2, CsLookupIs
      <4> QED
        BY <2>3, <3>1, <4>1, <4>3
    <3>2. CASE bn <= t /\ bn >= f[l]
      <4>1. CsLookup(c, bn) = Start(c[l]) + (bn - f[l])
        <5>1. l < Extents(c) /\ g[l] <= bn /\ bn < g[l] + Length(c[l])
          BY <1>7, <2>3, <2>4, <3>2
        <5>2. CsLookup(c, bn) = Start(c[l]) + (bn - g[l])
          BY <1>3, <5>1, CsLookupIs
        <5> QED
          BY <2>4, <5>2
      <4>2. CASE bn = t
        BY <1>7, <2>2, <2>3, <4>1, <4>2
      <4>3. CASE bn # t
        <5>1. e = l + 1 /\ t = f[l] + Length(a[l])
          BY <1>4, <1>7, <2>2, <2>3, <3>2, <4>3
        <5>2. l < Extents(a) /\ f[l] <= bn /\ bn < f[l] + Length(a[l])
          BY <2>2, <2>3, <3>2, <4>3, <5>1
        <5>3. CsLookup(a, bn) = Start(a[l]) + (bn - f[l])
          BY <1>2, <5>2, CsLookupIs
        <5> QED
          BY <1>7, <2>2, <4>1, <4>3, <5>1, <5>3
      <4> QED
        BY <4>2, <4>3
    <3>3. CASE bn <= t /\ bn < f[l]
      <4>1. bn < Total(a) /\ bn # t
        BY <2>3, <2>4, <3>3
      <4>2. PICK i \in 0..NDIRECT : i < e /\ f[i] <= bn /\ bn < f[i] + Length(a[i])
        BY <1>2, <2>2, <4>1, CsLookupIs
      <4>3. i < l
        <5> SUFFICES ASSUME i >= l PROVE FALSE
          BY <1>0
        <5>1. f[l] <= f[i] /\ f[i] \in Nat
          BY <1>4, <1>6
        <5> QED
          BY <2>4, <3>3, <4>2, <5>1
      <4>4. c[i] = a[i] /\ g[i] = f[i] /\ i < Extents(c) /\ i < Extents(a)
        BY <1>0, <1>7, <2>1, <2>2, <4>2, <4>3
      <4>5. CsLookup(a, bn) = Start(a[i]) + (bn - f[i])
        BY <1>2, <4>2, <4>4, CsLookupIs
      <4>6. CsLookup(c, bn) = Start(c[i]) + (bn - g[i])
        BY <1>3, <4>2, <4>4, CsLookupIs
      <4> QED
        BY <4>1, <4>4, <4>5, <4>6
    <3> QED
      BY <2>3, <2>4, <3>1, <3>2, <3>3
  <2> QED
    BY <2>3, <2>6, <2>7
<1>8. CASE Extends(a, c, b)
  <2>1. PICK l \in 0..NDIRECT :
            /\ l = Extents(a) - 1 /\ l < NDIRECT /\ Extents(c) = Extents(a)
            /\ \A i \in 0..NDIRECT : i # l => c[i] = a[i]
            /\ Start(c[l]) = Start(a[l]) /\ Length(c[l]) = Length(a[l]) + 1
            /\ b = Start(a[l]) + Length(a[l])
    BY <1>8, ExtendsIs
  <2>2. Extents(a) = l + 1
    BY <2>1, ExtentsIs
  <2>3. f[l + 1] = f[l] + Length(a[l]) /\ f[l] \in Nat /\ Length(a[l]) \in Nat
    BY <1>4, <2>1
  <2>4. f[Extents(a)] - f[l] = Length(a[l])
    BY <2>2, <2>3
  <2> QED
    BY <1>1, <1>7, <2>1, <2>2, <2>4
<1>9. CASE Begins(a, c, b)
  <2>1. PICK l \in 0..NDIRECT :
            /\ l = Extents(a) /\ l < NDIRECT /\ Extents(c) = l + 1
            /\ \A i \in 0..NDIRECT : i # l => c[i] = a[i]
            /\ Start(c[l]) = b /\ Length(c[l]) = 1
    BY <1>9, BeginsIs
  <2>2. f[Extents(a)] - f[l] = 0 /\ Extents(a) # l + 1
    BY <1>4, <2>1
  <2>3. Length(c[l]) = (f[Extents(a)] - f[l]) + 1 /\ b = Start(c[l]) + (f[Extents(a)] - f[l])
    BY <2>1, <2>2
  <2> QED
    BY <1>1, <1>7, <2>1, <2>2, <2>3
<1> QED
  BY <1>1, <1>8, <1>9, AppendCases

\* What csbmap() finds lies in a run of the file; nothing is mapped but the first Total blocks.
LEMMA CsLookupIn ==
  ASSUME NEW a \in Addrs, Runs(a), NEW bn \in Nat
  PROVE  /\ CsLookup(a, bn) # 0 <=> bn < Total(a)
         /\ CsLookup(a, bn) # 0 => CsLookup(a, bn) \in CsBlocks(a)
<1>0. NDIRECT \in Nat
  BY Sizes
<1>1. Total(a) \in Nat
  BY CsLookupIs
<1>2. bn >= Total(a) => CsLookup(a, bn) = 0
  BY CsLookupIs
<1>3. ASSUME bn < Total(a)
      PROVE  CsLookup(a, bn) # 0 /\ CsLookup(a, bn) \in CsBlocks(a)
  <2>1. PICK i \in 0..NDIRECT : i < Extents(a) /\ Before(a)[i] <= bn /\ bn < Before(a)[i] + Length(a[i])
    BY <1>3, CsLookupIs
  <2>2. CsLookup(a, bn) = Start(a[i]) + (bn - Before(a)[i])
    BY <2>1, CsLookupIs
  <2>3. Run(a[i]) /\ a[i] # 0 /\ i \in Entry
    BY <1>0, <2>1, ExtentsIs DEF Runs, Entry
  <2>4. Start(a[i]) \in Nat /\ Start(a[i]) >= 1 /\ Length(a[i]) \in Nat /\ Before(a)[i] \in Nat
    BY <2>3, AddrNat, BeforeIs DEF Run
  <2>5. CsLookup(a, bn) \in Start(a[i]) .. Start(a[i]) + Length(a[i]) - 1 /\ CsLookup(a, bn) # 0
    BY <2>1, <2>2, <2>4
  <2> QED
    BY <2>3, <2>5, CsBlocksIs
<1> QED
  BY <1>1, <1>2, <1>3

\* A new CS file.
LEMMA NoTotal == Total(ZeroAddrs) = 0
<1>1. Extents(ZeroAddrs) = 0 /\ ZeroAddrs \in Addrs
  BY NoRuns
<1> QED
  BY <1>1, BeforeIs DEF Total

-----------------------------------------------------------------------------
(* Bytes and blocks                                                        *)

\* Multiples of the block size.
LEMMA Multiples ==
  ASSUME NEW q \in Nat, NEW k \in Nat
  PROVE  /\ q * BSIZE \in Nat
         /\ q < k => q * BSIZE + BSIZE <= k * BSIZE
         /\ q <= k => q * BSIZE <= k * BSIZE
         /\ (q + 1) * BSIZE = q * BSIZE + BSIZE
<1>0. BSIZE \in Nat \ {0}
  BY Sizes
<1>1. q * BSIZE \in Nat /\ (q + 1) * BSIZE = q * BSIZE + BSIZE
  BY <1>0
<1>2. ASSUME q <= k PROVE q * BSIZE <= k * BSIZE
  <2>1. PICK d \in Nat : k = q + d
    <3>1. k - q \in Nat /\ k = q + (k - q)
      BY <1>2
    <3> QED
      BY <3>1
  <2>2. k * BSIZE = q * BSIZE + d * BSIZE /\ d * BSIZE \in Nat
    BY <1>0, <2>1
  <2>3. PICK s \in Nat, u \in Nat : s = q * BSIZE /\ u = d * BSIZE
    BY <1>1, <2>2
  <2>4. k * BSIZE = s + u
    BY <2>2, <2>3
  <2> QED
    BY <2>3, <2>4
<1>3. ASSUME q < k PROVE q * BSIZE + BSIZE <= k * BSIZE
  <2>1. PICK d \in Nat : k = (q + 1) + d
    <3>1. k - (q + 1) \in Nat /\ k = (q + 1) + (k - (q + 1))
      BY <1>3
    <3> QED
      BY <3>1
  <2>2. k * BSIZE = (q + 1) * BSIZE + d * BSIZE /\ d * BSIZE \in Nat
    BY <1>0, <2>1
  <2>3. PICK s \in Nat, u \in Nat : s = q * BSIZE /\ u = d * BSIZE
    BY <1>1, <2>2
  <2>4. k * BSIZE = s + BSIZE + u
    BY <1>0, <1>1, <2>2, <2>3
  <2> QED
    BY <1>0, <2>3, <2>4
<1> QED
  BY <1>1, <1>2, <1>3

\* A byte is at one place of one logical block.
LEMMA PlaceIs ==
  ASSUME NEW x \in Nat
  PROVE  \E q \in Nat, r \in 0..(BSIZE - 1) : q = x \div BSIZE /\ r = x % BSIZE /\ x = q * BSIZE + r
<1>0. BSIZE \in Nat \ {0}
  BY Sizes
<1>1. PICK q : q = x \div BSIZE
  OBVIOUS
<1>2. PICK r : r = x % BSIZE
  OBVIOUS
<1>3. q \in Int /\ r \in 0..(BSIZE - 1) /\ x = BSIZE * q + r
  BY <1>0, <1>1, <1>2, ModDiv
<1>4. q \in Nat
  BY <1>0, <1>1, DivSmaller
<1>5. x = q * BSIZE + r
  BY <1>0, <1>3
<1> QED
  BY <1>1, <1>2, <1>3, <1>4, <1>5

\* And only there.
LEMMA PlaceUnique ==
  ASSUME NEW x \in Nat, NEW q \in Nat, NEW r \in 0..(BSIZE - 1), x = q * BSIZE + r
  PROVE  x \div BSIZE = q /\ x % BSIZE = r
<1>0. BSIZE \in Nat \ {0}
  BY Sizes
<1>1. x = BSIZE * q + r
  BY <1>0
<1> QED
  BY <1>0, <1>1, DivUnique

\* The number of blocks that a size needs.
LEMMA CeilIs ==
  ASSUME NEW n \in Nat
  PROVE  Ceil(n) \in Nat /\ n <= Ceil(n) * BSIZE /\ Ceil(n) * BSIZE < n + BSIZE
<1>0. BSIZE \in Nat \ {0}
  BY Sizes
<1>1. PICK x \in Nat : x = n + BSIZE - 1
  BY <1>0
<1>2. PICK q \in Nat, r \in 0..(BSIZE - 1) : q = x \div BSIZE /\ x = q * BSIZE + r
  BY PlaceIs
<1>3. Ceil(n) = q
  BY <1>1, <1>2 DEF Ceil
<1>4. PICK t \in Nat : t = q * BSIZE
  BY <1>0
<1>5. n <= t /\ t < n + BSIZE
  BY <1>0, <1>1, <1>2, <1>4
<1> QED
  BY <1>3, <1>4, <1>5

\* No other number does.
LEMMA CeilUnique ==
  ASSUME NEW n \in Nat, NEW k \in Nat, n <= k * BSIZE, k * BSIZE < n + BSIZE
  PROVE  Ceil(n) = k
<1>0. BSIZE \in Nat \ {0}
  BY Sizes
<1>1. PICK q \in Nat : q = Ceil(n) /\ n <= q * BSIZE /\ q * BSIZE < n + BSIZE
  BY CeilIs
<1>2. PICK t \in Nat : t = k * BSIZE
  BY <1>0
<1>3. PICK s \in Nat : s = q * BSIZE
  BY <1>0
<1>4. ~(q < k)
  <2> SUFFICES ASSUME q < k PROVE FALSE
    OBVIOUS
  <2>1. s + BSIZE <= t
    BY <1>2, <1>3, Multiples
  <2> QED
    BY <1>0, <1>1, <1>2, <1>3, <2>1
<1>5. ~(k < q)
  <2> SUFFICES ASSUME k < q PROVE FALSE
    OBVIOUS
  <2>1. t + BSIZE <= s
    BY <1>2, <1>3, Multiples
  <2> QED
    BY <1>0, <1>1, <1>2, <1>3, <2>1
<1> QED
  BY <1>1, <1>4, <1>5

\* The map L of a file of at most K blocks is sound for a length of n bytes: it has the blocks that
\* n bytes need and no other, no block twice, and the data D holds n bytes of this file and zeros.
Sound(L, D, K, n, ip) ==
    /\ n \in Nat /\ n <= K * BSIZE
    /\ \A bn \in 0..K-1 : L[bn] # 0 <=> bn < Ceil(n)
    /\ \A bn, cn \in 0..K-1 : L[bn] # 0 /\ L[bn] = L[cn] => bn = cn
    /\ \A x \in Nat : x < Ceil(n) * BSIZE => D[L[x \div BSIZE]][x % BSIZE] = IF x < n THEN ip ELSE 0

\* It stays so when other blocks change.
LEMMA SoundFrame ==
  ASSUME NEW K \in Nat, NEW L, NEW D, NEW E, NEW n, NEW ip, Sound(L, D, K, n, ip),
         \A bn \in 0..K-1 : L[bn] # 0 => E[L[bn]] = D[L[bn]]
  PROVE  Sound(L, E, K, n, ip)
<1>0. BSIZE \in Nat \ {0}
  BY Sizes
<1>1. n \in Nat /\ n <= K * BSIZE /\ \A bn \in 0..K-1 : L[bn] # 0 <=> bn < Ceil(n)
  BY DEF Sound
<1>2. PICK k \in Nat : k = Ceil(n) /\ k * BSIZE < n + BSIZE
  BY <1>1, CeilIs
<1>3. k <= K
  <2> SUFFICES ASSUME K < k PROVE FALSE
    BY <1>2
  <2>1. PICK t \in Nat : t = K * BSIZE
    BY <1>0
  <2>2. PICK s \in Nat : s = k * BSIZE
    BY <1>0
  <2>3. t + BSIZE <= s
    BY <2>1, <2>2, Multiples
  <2> QED
    BY <1>0, <1>1, <1>2, <2>1, <2>2, <2>3
<1>4. ASSUME NEW x \in Nat, x < k * BSIZE
      PROVE  E[L[x \div BSIZE]][x % BSIZE] = IF x < n THEN ip ELSE 0
  <2>1. PICK q \in Nat : q = x \div BSIZE /\ q < k
    BY <1>0, <1>4, DivBelow
  <2>2. L[q] # 0 /\ q \in 0..K-1
    BY <1>1, <1>2, <1>3, <2>1
  <2>3. E[L[q]] = D[L[q]]
    BY <2>2
  <2>4. D[L[x \div BSIZE]][x % BSIZE] = IF x < n THEN ip ELSE 0
    BY <1>2, <1>4 DEF Sound
  <2> QED
    BY <2>1, <2>3, <2>4
<1> QED
  BY <1>2, <1>4 DEF Sound

\* How far a file reaches when bytes up to e have been written to it.
Further(n, e) == IF e > n THEN e ELSE n

\* Byte x of a file is byte r of logical block q.
At(x, q, r) == x \in Nat /\ q \in Nat /\ r \in 0..(BSIZE - 1) /\ x = q * BSIZE + r

\* A turn writes the m bytes from o on, which are those of logical block bn from x0 on.
Spans(o, m, bn, x0) == At(o, bn, x0) /\ m \in Nat /\ m >= 1 /\ x0 + m <= BSIZE

\* The bytes of one turn, and the others.
LEMMA TurnBytes ==
  ASSUME NEW o, NEW m, NEW bn, NEW x0, Spans(o, m, bn, x0), NEW x, NEW q, NEW r, At(x, q, r)
  PROVE  x \in o..(o + m - 1) <=> q = bn /\ r \in x0..(x0 + m - 1)
<1>0. BSIZE \in Nat \ {0}
  BY Sizes
<1> USE DEF At, Spans
<1>1. PICK t \in Nat : t = bn * BSIZE
  BY <1>0
<1>2. PICK s \in Nat : s = q * BSIZE
  BY <1>0
<1>3. CASE q = bn
  <2>1. s = t
    BY <1>1, <1>2, <1>3
  <2> QED
    BY <1>0, <1>1, <1>2, <1>3, <2>1
<1>4. CASE q < bn
  <2>1. s + BSIZE <= t
    BY <1>1, <1>2, <1>4, Multiples
  <2>2. x < o
    BY <1>0, <1>1, <1>2, <2>1
  <2> QED
    BY <1>4, <2>2
<1>5. CASE bn < q
  <2>1. t + BSIZE <= s
    BY <1>1, <1>2, <1>5, Multiples
  <2>2. x > o + m - 1
    BY <1>0, <1>1, <1>2, <2>1
  <2> QED
    BY <1>5, <2>2
<1> QED
  BY <1>3, <1>4, <1>5

\* A turn of writei() that finds its block.
LEMMA SoundMapped ==
  ASSUME NEW K \in Nat, NEW L, NEW D, NEW n, NEW ip, Sound(L, D, K, n, ip),
         NEW o, NEW m, NEW bn, NEW x0, Spans(o, m, bn, x0), o <= n, bn < K, o + m <= K * BSIZE,
         NEW b, b = L[bn], b # 0, NEW E, \A c \in 0..K-1 : L[c] # 0 /\ L[c] # b => E[L[c]] = D[L[c]],
         E[b] = Filled(D[b], x0, x0 + m - 1, ip)
  PROVE  Sound(L, E, K, Further(n, o + m), ip) /\ Ceil(Further(n, o + m)) = Ceil(n)
<1>0. BSIZE \in Nat \ {0}
  BY Sizes
<1>a. o \in Nat /\ m \in Nat /\ m >= 1 /\ bn \in Nat /\ x0 \in 0..(BSIZE - 1) /\ o = bn * BSIZE + x0 /\ x0 + m <= BSIZE
  BY DEF Spans, At
<1>1. n \in Nat /\ n <= K * BSIZE /\ \A c \in 0..K-1 : L[c] # 0 <=> c < Ceil(n)
  BY DEF Sound
<1>2. PICK k \in Nat : k = Ceil(n) /\ n <= k * BSIZE /\ k * BSIZE < n + BSIZE
  BY <1>1, CeilIs
<1>3. bn < k /\ bn \in 0..K-1
  BY <1>1, <1>2, <1>a
<1>4. PICK e \in Nat : e = Further(n, o + m)
  BY <1>1, <1>a DEF Further
<1>5. PICK t \in Nat : t = k * BSIZE
  BY <1>0
<1>6. PICK s \in Nat : s = bn * BSIZE /\ s + BSIZE <= t
  BY <1>0, <1>3, <1>5, <1>a, Multiples
<1>7. o + m <= t
  BY <1>0, <1>6, <1>a
<1>8. n <= e /\ e <= t /\ e <= K * BSIZE /\ (e = n \/ e = o + m) /\ e >= o + m
  BY <1>1, <1>2, <1>4, <1>5, <1>7, <1>a DEF Further
<1>9. Ceil(e) = k
  <2>1. t < e + BSIZE
    BY <1>0, <1>1, <1>2, <1>5, <1>8
  <2> QED
    BY <1>5, <1>8, <2>1, CeilUnique
<1>10. k <= K
  <2> SUFFICES ASSUME K < k PROVE FALSE
    BY <1>2
  <2>1. PICK u \in Nat : u = K * BSIZE
    BY <1>0
  <2>2. u + BSIZE <= t
    BY <1>5, <2>1, Multiples
  <2> QED
    BY <1>0, <1>1, <1>2, <1>5, <2>1, <2>2
<1>11. ASSUME NEW x \in Nat, x < t
       PROVE  E[L[x \div BSIZE]][x % BSIZE] = IF x < e THEN ip ELSE 0
  <2>1. PICK q \in Nat, r \in 0..(BSIZE - 1) : q = x \div BSIZE /\ r = x % BSIZE /\ x = q * BSIZE + r
    BY PlaceIs
  <2>2. q < k /\ q \in 0..K-1 /\ L[q] # 0
    <3>1. q < k
      BY <1>0, <1>5, <1>11, <2>1, DivBelow
    <3> QED
      BY <1>1, <1>2, <1>10, <3>1
  <2>3. D[L[q]][r] = IF x < n THEN ip ELSE 0
    BY <1>2, <1>5, <1>11, <2>1 DEF Sound
  <2>4. x \in o..(o + m - 1) <=> q = bn /\ r \in x0..(x0 + m - 1)
    BY <2>1, TurnBytes DEF At
  <2>5. CASE q = bn
    <3>1. E[L[q]][r] = IF r \in x0..(x0 + m - 1) THEN ip ELSE D[L[q]][r]
      BY <2>5 DEF Filled
    <3>2. CASE r \in x0..(x0 + m - 1)
      <4>1. x < e
        BY <1>8, <1>a, <2>4, <2>5, <3>2
      <4> QED
        BY <2>1, <3>1, <3>2, <4>1
    <3>3. CASE r \notin x0..(x0 + m - 1)
      <4>1. x < e <=> x < n
        BY <1>1, <1>8, <1>a, <2>4, <2>5, <3>3
      <4> QED
        BY <2>1, <2>3, <3>1, <3>3, <4>1
    <3> QED
      BY <3>2, <3>3
  <2>6. CASE q # bn
    <3>1. L[q] # b
      BY <1>3, <2>2, <2>6 DEF Sound
    <3>2. x < e <=> x < n
      <4>1. x \notin o..(o + m - 1)
        BY <2>4, <2>6
      <4>2. x < o \/ x >= o + m
        BY <1>a, <4>1
      <4>3. CASE x >= o + m
        BY <1>1, <1>8, <1>a, <4>3
      <4>4. CASE x < o
        BY <1>1, <1>8, <1>a, <4>4
      <4> QED
        BY <4>2, <4>3, <4>4
    <3>3. E[L[q]] = D[L[q]]
      BY <2>2, <3>1
    <3> QED
      BY <2>1, <2>3, <3>2, <3>3
  <2> QED
    BY <2>5, <2>6
<1>12. \A c \in 0..K-1 : L[c] # 0 <=> c < Ceil(e)
  BY <1>1, <1>2, <1>9
<1>13. \A c, d \in 0..K-1 : L[c] # 0 /\ L[c] = L[d] => c = d
  BY DEF Sound
<1>14. \A x \in Nat : x < Ceil(e) * BSIZE => E[L[x \div BSIZE]][x % BSIZE] = IF x < e THEN ip ELSE 0
  BY <1>5, <1>9, <1>11
<1>15. Sound(L, E, K, e, ip)
  BY <1>8, <1>12, <1>13, <1>14 DEF Sound
<1> QED
  BY <1>2, <1>4, <1>9, <1>15

\* A turn of writei() that adds a zeroed block: it can only be the next one of the file.
LEMMA SoundGrown ==
  ASSUME NEW K \in Nat, NEW L, NEW D, NEW n, NEW ip, Sound(L, D, K, n, ip),
         NEW o, NEW m, NEW bn, NEW x0, Spans(o, m, bn, x0), o <= n, bn < K, o + m <= K * BSIZE,
         L[bn] = 0, NEW b, b # 0, \A c \in 0..K-1 : L[c] # b,
         NEW M, M[bn] = b, \A c \in 0..K-1 : c # bn => M[c] = L[c],
         NEW E, \A c \in 0..K-1 : L[c] # 0 /\ L[c] # b => E[L[c]] = D[L[c]], E[b] = Filled(ZeroBlock, x0, x0 + m - 1, ip)
  PROVE  /\ Sound(M, E, K, Further(n, o + m), ip)
         /\ Ceil(n) = bn /\ Ceil(Further(n, o + m)) = bn + 1
<1>0. BSIZE \in Nat \ {0}
  BY Sizes
<1>a. o \in Nat /\ m \in Nat /\ m >= 1 /\ bn \in Nat /\ x0 \in 0..(BSIZE - 1) /\ o = bn * BSIZE + x0 /\ x0 + m <= BSIZE
  BY DEF Spans, At
<1>1. n \in Nat /\ n <= K * BSIZE /\ \A c \in 0..K-1 : L[c] # 0 <=> c < Ceil(n)
  BY DEF Sound
<1>2. PICK k \in Nat : k = Ceil(n) /\ n <= k * BSIZE /\ k * BSIZE < n + BSIZE
  BY <1>1, CeilIs
<1>3. ~(bn < k) /\ bn \in 0..K-1
  BY <1>1, <1>2, <1>a
<1>4. PICK t \in Nat : t = k * BSIZE
  BY <1>0
<1>5. PICK s \in Nat : s = bn * BSIZE
  BY <1>0, <1>a
<1>6. bn = k
  <2> SUFFICES ASSUME k < bn PROVE FALSE
    BY <1>2, <1>3, <1>a
  <2>1. t + BSIZE <= s
    BY <1>4, <1>5, <1>a, Multiples
  <2> QED
    BY <1>0, <1>1, <1>2, <1>4, <1>5, <1>a, <2>1
<1>7. o = n /\ n = t /\ x0 = 0
  BY <1>1, <1>2, <1>4, <1>5, <1>6, <1>a
<1>8. PICK e \in Nat : e = Further(n, o + m) /\ e = t + m
  BY <1>1, <1>7, <1>a DEF Further
<1>9. Ceil(e) = k + 1
  <2>1. PICK u \in Nat : u = (k + 1) * BSIZE /\ u = t + BSIZE
    BY <1>0, <1>4, Multiples
  <2>2. e <= u /\ u < e + BSIZE /\ k + 1 \in Nat
    BY <1>0, <1>7, <1>8, <1>a, <2>1
  <2> QED
    BY <2>1, <2>2, CeilUnique
<1>10. e <= K * BSIZE
  BY <1>7, <1>8
<1>11. ASSUME NEW x \in Nat, x < (k + 1) * BSIZE
       PROVE  E[M[x \div BSIZE]][x % BSIZE] = IF x < e THEN ip ELSE 0
  <2>1. PICK q \in Nat, r \in 0..(BSIZE - 1) : q = x \div BSIZE /\ r = x % BSIZE /\ x = q * BSIZE + r
    BY PlaceIs
  <2>2. q < k + 1
    <3>1. PICK h \in Nat : h = k + 1
      OBVIOUS
    <3>2. q < h
      BY <1>0, <1>11, <2>1, <3>1, DivBelow
    <3> QED
      BY <3>1, <3>2
  <2>3. PICK u \in Nat : u = q * BSIZE
    BY <1>0
  <2>4. CASE q = k
    <3>1. M[q] = b /\ u = t
      BY <1>4, <1>6, <2>3, <2>4
    <3>2. E[M[q]][r] = IF r \in x0..(x0 + m - 1) THEN ip ELSE 0
      <4>1. ZeroBlock[r] = 0
        BY DEF ZeroBlock
      <4>2. PICK F : F = Filled(ZeroBlock, x0, x0 + m - 1, ip)
        OBVIOUS
      <4>3. F[r] = IF r \in x0..(x0 + m - 1) THEN ip ELSE ZeroBlock[r]
        BY <4>2 DEF Filled
      <4> QED
        BY <3>1, <4>1, <4>2, <4>3
    <3>3. x < e <=> r \in x0..(x0 + m - 1)
      <4>1. x = t + r
        BY <2>1, <2>3, <3>1
      <4> QED
        BY <1>0, <1>7, <1>8, <1>a, <4>1
    <3> QED
      BY <2>1, <3>2, <3>3
  <2>5. CASE q < k
    <3>1. u + BSIZE <= t
      BY <1>4, <2>3, <2>5, Multiples
    <3>2. x < t /\ x < n /\ x < e
      <4>1. x = u + r
        BY <2>1, <2>3
      <4>2. x < t
        BY <1>0, <3>1, <4>1
      <4>3. x < n
        BY <1>7, <4>2
      <4>4. e = t + m /\ m \in Nat
        BY <1>8, <1>a
      <4>5. x < e
        BY <4>2, <4>4
      <4> QED
        BY <4>2, <4>3, <4>5
    <3>3. q \in 0..K-1 /\ q # bn
      BY <1>3, <1>6, <1>a, <2>5
    <3>4. M[q] = L[q] /\ L[q] # b /\ L[q] # 0
      BY <1>1, <1>2, <2>5, <3>3
    <3>5. D[L[q]][r] = ip
      BY <1>2, <1>4, <2>1, <3>2 DEF Sound
    <3>6. E[L[q]] = D[L[q]]
      BY <3>3, <3>4
    <3> QED
      BY <2>1, <3>2, <3>4, <3>5, <3>6
  <2> QED
    BY <2>2, <2>4, <2>5
<1>12. ASSUME NEW c \in 0..K-1 PROVE M[c] # 0 <=> c < k + 1
  <2>1. CASE c = bn
    BY <1>6, <1>a, <2>1
  <2>2. CASE c # bn
    <3>1. M[c] = L[c] /\ (L[c] # 0 <=> c < k)
      BY <1>1, <1>2, <2>2
    <3> QED
      BY <1>6, <1>a, <2>2, <3>1
  <2> QED
    BY <2>1, <2>2
<1>13. \A c, d \in 0..K-1 : M[c] # 0 /\ M[c] = M[d] => c = d
  <2> SUFFICES ASSUME NEW c \in 0..K-1, NEW d \in 0..K-1, M[c] # 0, M[c] = M[d] PROVE c = d
    OBVIOUS
  <2>1. CASE c # bn /\ d # bn
    <3>1. L[c] # 0 /\ L[c] = L[d]
      BY <2>1
    <3> QED
      BY <3>1 DEF Sound
  <2>2. CASE c = bn \/ d = bn
    BY <2>2
  <2> QED
    BY <2>1, <2>2
<1>14. \A x \in Nat : x < Ceil(e) * BSIZE => E[M[x \div BSIZE]][x % BSIZE] = IF x < e THEN ip ELSE 0
  BY <1>9, <1>11
<1>15. \A c \in 0..K-1 : M[c] # 0 <=> c < Ceil(e)
  BY <1>9, <1>12
<1>16. Sound(M, E, K, e, ip)
  BY <1>10, <1>13, <1>14, <1>15 DEF Sound
<1> QED
  BY <1>2, <1>6, <1>8, <1>9, <1>16

-----------------------------------------------------------------------------
(* The bytes of a file                                                     *)

\* How many logical blocks a file can have, and the blocks that they are.
MaxBlocks(ip) == IF itype[ip] = "T_CS" THEN MAXCSBLOCKS ELSE MAXFILE
MapOf(ip) == [bn \in 0..MaxBlocks(ip)-1 |-> Lookup(ip, bn)]

\* The file holds n bytes of its own.
Good(ip, n) ==
    /\ Sound(MapOf(ip), data, MaxBlocks(ip), n, ip)
    /\ itype[ip] = "T_CS" => Total(addrs[ip]) = Ceil(n)

\* How many bytes that is: the size of a file that nobody writes; of one that is being written, also
\* what the writer has written so far.
Rests(ip, n) == itype[ip] # "free" /\ lock[ip] = NoProc /\ n = size[ip]
Writes(p, ip, n) == pc[p] \in {"block", "end"} /\ ip = fip[wr[p].f] /\ n = Further(size[ip], wr[p].o)
Live(ip, n) == Rests(ip, n) \/ \E p \in Proc : Writes(p, ip, n)

\* Every file in use holds that many bytes of its own.
DataInv == \A ip \in Ino, n \in Nat : Live(ip, n) => Good(ip, n)

\* The sizes of the maps.
LEMMA MaxBlocksIs ==
  ASSUME NEW ip
  PROVE  MaxBlocks(ip) \in Nat \ {0} /\ Limit(ip) = MaxBlocks(ip) * BSIZE
<1>1. MAXCSBLOCKS \in Nat \ {0} /\ MAXFILE \in Nat \ {0}
  BY Sizes DEF MAXCSBLOCKS, MAXFILE
<1> QED
  BY <1>1 DEF MaxBlocks, Limit

\* The count of a CS file, one step later.
LEMMA TotalNext ==
  ASSUME NEW ip, NEW a, a = addrs'[ip]
  PROVE  Total(addrs[ip])' = Total(a)
  BY DEF Total, Before, Extents, Length

\* What csbmap() finds, one step later.
LEMMA CsLookupNext ==
  ASSUME NEW ip, NEW a, a = addrs'[ip], NEW bn
  PROVE  CsLookup(addrs[ip], bn)' = CsLookup(a, bn)
  BY DEF CsLookup, Before, Extents, Length, Start

\* What a file holds, one step later.
LEMMA GoodNext ==
  ASSUME NEW ip, NEW n, NEW L, L = MapOf(ip)', NEW K, K = MaxBlocks(ip)'
  PROVE  Good(ip, n)' <=> Sound(L, data', K, n, ip) /\ (itype'[ip] = "T_CS" => Total(addrs[ip])' = Ceil(n))
  BY DEF Good, Sound, Ceil

\* What bmap() finds belongs to the file.
LEMMA LookupOwned ==
  ASSUME IInv, NEW ip \in Ino, NEW bn \in 0..MaxBlocks(ip)-1, Lookup(ip, bn) # 0
  PROVE  Lookup(ip, bn) \in Blocks(ip)
<1>0. NDIRECT \in Nat \ {0} /\ NINDIRECT \in Nat \ {0} /\ MaxBlocks(ip) \in Nat
  BY Sizes, MaxBlocksIs
<1>1. PICK a \in Addrs : a = addrs[ip]
  BY TypeFacts DEF IInv
<1>2. CASE itype[ip] = "T_CS"
  <2>1. Runs(a)
    BY <1>1, <1>2 DEF IInv, NodeInv
  <2>2. bn \in Nat
    BY <1>0
  <2>3. Lookup(ip, bn) = CsLookup(a, bn) /\ Blocks(ip) = CsBlocks(a)
    BY <1>1, <1>2 DEF Lookup, Blocks
  <2> QED
    BY <2>1, <2>2, <2>3, CsLookupIn
<1>3. CASE itype[ip] # "T_CS" /\ bn < NDIRECT
  <2>1. Lookup(ip, bn) = a[bn] /\ bn \in 0..NDIRECT
    BY <1>0, <1>1, <1>3 DEF Lookup
  <2> QED
    BY <1>1, <1>3, <2>1 DEF Blocks, FileBlocks
<1>4. CASE itype[ip] # "T_CS" /\ ~(bn < NDIRECT)
  <2>1. a[NDIRECT] # 0 /\ Lookup(ip, bn) = ind[a[NDIRECT]][bn - NDIRECT]
    BY <1>1, <1>4 DEF Lookup
  <2>2. PICK j \in 0..NINDIRECT-1 : j = bn - NDIRECT
    BY <1>0, <1>4 DEF MaxBlocks, MAXFILE
  <2> QED
    BY <1>1, <1>4, <2>1, <2>2 DEF Blocks, FileBlocks
<1> QED
  BY <1>2, <1>3, <1>4

\* A file whose map and blocks stay as they are holds what it held.
LEMMA GoodFrame ==
  ASSUME IInv, NEW ip \in Ino, NEW n, Good(ip, n), itype'[ip] = itype[ip], addrs'[ip] = addrs[ip],
         \A c \in Blocks(ip) : ind'[c] = ind[c] /\ data'[c] = data[c]
  PROVE  Good(ip, n)'
<1>0. MaxBlocks(ip) \in Nat \ {0}
  BY MaxBlocksIs
<1>1. PICK a : a = addrs[ip] /\ a = addrs'[ip]
  OBVIOUS
<1>2. PICK K \in Nat : K = MaxBlocks(ip) /\ K = MaxBlocks(ip)'
  BY <1>0 DEF MaxBlocks
<1>3. ASSUME NEW bn \in 0..K-1
      PROVE  Lookup(ip, bn)' = Lookup(ip, bn)
  <2>1. CASE itype[ip] = "T_CS"
    BY <1>1, <2>1, CsLookupNext DEF Lookup
  <2>2. CASE itype[ip] # "T_CS" /\ a[NDIRECT] = 0
    BY <1>1, <2>2 DEF Lookup
  <2>3. CASE itype[ip] # "T_CS" /\ a[NDIRECT] # 0
    <3>1. a[NDIRECT] \in Blocks(ip)
      BY <1>1, <2>3, IndirectIs
    <3>2. ind'[a[NDIRECT]] = ind[a[NDIRECT]]
      BY <3>1
    <3> QED
      BY <1>1, <2>3, <3>2 DEF Lookup
  <2> QED
    BY <2>1, <2>2, <2>3
<1>4. PICK L : L = MapOf(ip)
  OBVIOUS
<1>5. L = MapOf(ip)' /\ \A bn \in 0..K-1 : L[bn] = Lookup(ip, bn)
  BY <1>2, <1>3, <1>4 DEF MapOf
<1>6. \A bn \in 0..K-1 : L[bn] # 0 => data'[L[bn]] = data[L[bn]]
  BY <1>2, <1>5, LookupOwned
<1>7. Sound(L, data, K, n, ip) /\ (itype[ip] = "T_CS" => Total(a) = Ceil(n))
  BY <1>1, <1>2, <1>4 DEF Good
<1>8. Sound(L, data', K, n, ip)
  BY <1>6, <1>7, SoundFrame
<1>9. Total(addrs[ip])' = Total(a)
  BY <1>1, TotalNext
<1> QED
  BY <1>2, <1>5, <1>7, <1>8, <1>9, GoodNext

\* A new file holds nothing.
LEMMA GoodEmpty ==
  ASSUME NEW ip, addrs[ip] = ZeroAddrs
  PROVE  Good(ip, 0)
<1>0. NDIRECT \in Nat \ {0} /\ NINDIRECT \in Nat \ {0} /\ BSIZE \in Nat \ {0}
  BY Sizes
<1>1. PICK K \in Nat \ {0} : K = MaxBlocks(ip)
  BY MaxBlocksIs
<1>2. PICK a \in Addrs : a = addrs[ip] /\ Runs(a) /\ Total(a) = 0 /\ \A i \in 0..NDIRECT : a[i] = 0
  BY NoRuns, NoTotal
<1>3. Ceil(0) = 0
  <2>1. PICK z \in Nat : z = 0 /\ z <= z * BSIZE /\ z * BSIZE < z + BSIZE
    BY <1>0
  <2>2. Ceil(z) = z
    BY <2>1, CeilUnique
  <2> QED
    BY <2>1, <2>2
<1>4. ASSUME NEW bn \in 0..K-1 PROVE Lookup(ip, bn) = 0
  <2>1. CASE itype[ip] = "T_CS"
    <3>1. bn \in Nat /\ ~(bn < Total(a))
      BY <1>1, <1>2
    <3>2. CsLookup(a, bn) = 0
      BY <1>2, <3>1, CsLookupIn
    <3> QED
      BY <1>2, <2>1, <3>2 DEF Lookup
  <2>2. CASE itype[ip] # "T_CS"
    <3>1. a[NDIRECT] = 0 /\ (bn < NDIRECT => a[bn] = 0)
      BY <1>0, <1>1, <1>2
    <3> QED
      BY <1>2, <2>2, <3>1 DEF Lookup
  <2> QED
    BY <2>1, <2>2
<1>5. PICK L : L = MapOf(ip)
  OBVIOUS
<1>6. \A bn \in 0..K-1 : L[bn] = 0
  BY <1>1, <1>4, <1>5 DEF MapOf
<1>7. Sound(L, data, K, 0, ip)
  <2>1. 0 * BSIZE = 0 /\ 0 <= K * BSIZE
    BY <1>0, Multiples
  <2>2. \A bn \in 0..K-1 : L[bn] # 0 <=> bn < Ceil(0)
    BY <1>3, <1>6
  <2>3. \A x \in Nat : ~(x < Ceil(0) * BSIZE)
    BY <1>3, <2>1
  <2> QED
    BY <1>6, <2>1, <2>2, <2>3 DEF Sound
<1> QED
  BY <1>1, <1>2, <1>3, <1>5, <1>7 DEF Good

-----------------------------------------------------------------------------
(* Every step leaves the files with their bytes                            *)

\* Steps that change neither maps nor contents.
LEMMA DataSame ==
  ASSUME IInv, DataInv, UNCHANGED <<data, ind, itype, addrs>>,
         \A ip \in Ino, n \in Nat : Live(ip, n)' => Live(ip, n)
  PROVE  DataInv'
<1> SUFFICES ASSUME NEW ip \in Ino, NEW n \in Nat, Live(ip, n)' PROVE Good(ip, n)'
  BY DEF DataInv
<1>1. Good(ip, n)
  BY DEF DataInv
<1> QED
  BY <1>1, GoodFrame

\* Steps in which writers go on as they were.
LEMMA LiveSame ==
  ASSUME NEW ip \in Ino, NEW n \in Nat, Live(ip, n)', itype'[ip] = itype[ip],
         lock'[ip] = NoProc => lock[ip] = NoProc /\ size'[ip] = size[ip],
         \A q \in Proc : pc'[q] \in {"block", "end"} /\ fip'[wr'[q].f] = ip =>
             pc[q] \in {"block", "end"} /\ fip[wr[q].f] = ip /\ wr'[q].o = wr[q].o /\ size'[ip] = size[ip]
  PROVE  Live(ip, n)
<1>1. CASE Rests(ip, n)'
  BY <1>1 DEF Rests, Live
<1>2. ASSUME NEW q \in Proc, Writes(q, ip, n)' PROVE Live(ip, n)
  <2>1. pc'[q] \in {"block", "end"} /\ fip'[wr'[q].f] = ip
    BY <1>2 DEF Writes
  <2>2. pc[q] \in {"block", "end"} /\ fip[wr[q].f] = ip /\ wr'[q].o = wr[q].o /\ size'[ip] = size[ip]
    BY <2>1
  <2>3. n = Further(size[ip], wr[q].o)
    BY <1>2, <2>2 DEF Writes, Further
  <2> QED
    BY <2>2, <2>3 DEF Writes, Live
<1> QED
  BY <1>1, <1>2 DEF Live

\* A step that changes no file, no lock and no writer.
LEMMA DataAside ==
  ASSUME IInv, DataInv, UNCHANGED <<data, ind, itype, addrs, size, lock>>,
         \A q \in Proc : pc'[q] \in {"block", "end"} =>
             pc[q] \in {"block", "end"} /\ wr'[q] = wr[q] /\ (fip'[wr[q].f] \in Ino => fip'[wr[q].f] = fip[wr[q].f])
  PROVE  DataInv'
<1>1. ASSUME NEW ip \in Ino, NEW n \in Nat, Live(ip, n)' PROVE Live(ip, n)
  <2>1. \A q \in Proc : pc'[q] \in {"block", "end"} /\ fip'[wr'[q].f] = ip =>
             pc[q] \in {"block", "end"} /\ fip[wr[q].f] = ip /\ wr'[q].o = wr[q].o /\ size'[ip] = size[ip]
    OBVIOUS
  <2> QED
    BY <1>1, <2>1, LiveSame
<1> QED
  BY <1>1, DataSame

\* Steps of a writer: its own file holds what it should, and the others are untouched.
LEMMA DataWriter ==
  ASSUME IInv, Owned, DataInv, NEW p \in Proc, More(p), NEW ip \in Ino, ip = fip[wr[p].f],
         NEW m \in Nat, Turn(p, m), UNCHANGED <<itype, size, fip, off, lock, pc>>,
         NEW n, n = Further(size[ip], wr[p].o + m), Good(ip, n)',
         \A jp \in Ino : jp # ip => addrs'[jp] = addrs[jp],
         \A jp \in Ino : jp # ip => \A c \in Blocks(jp) : ind'[c] = ind[c] /\ data'[c] = data[c]
  PROVE  DataInv'
<1> SUFFICES ASSUME NEW jp \in Ino, NEW k \in Nat, Live(jp, k)' PROVE Good(jp, k)'
  BY DEF DataInv
<1>1. TypeInv /\ pc[p] = "block" /\ lock[ip] = p /\ ProcInv(p)
  BY WriterIs DEF IInv
<1>2. wr'[p].f = wr[p].f /\ wr'[p].o = wr[p].o + m /\ \A q \in Proc : q # p => wr'[q] = wr[q]
  BY <1>1, TurnIs
<1>3. \A q \in Proc : q # p /\ pc[q] \in {"block", "end"} => fip[wr[q].f] # ip
  BY <1>1, OneWriter DEF IInv
<1>4. CASE jp = ip
  <2>1. ~ Rests(jp, k)'
    BY <1>1, <1>4, SentinelAssumption DEF Rests
  <2>2. PICK q \in Proc : Writes(q, jp, k)'
    BY <2>1 DEF Live
  <2>3. q = p
    BY <1>2, <1>3, <1>4, <2>2 DEF Writes
  <2>4. k = n
    BY <1>2, <1>4, <2>2, <2>3 DEF Writes, Further
  <2> QED
    BY <1>4, <2>4
<1>5. CASE jp # ip
  <2>1. ASSUME NEW q \in Proc, pc'[q] \in {"block", "end"}, fip'[wr'[q].f] = jp
        PROVE  pc[q] \in {"block", "end"} /\ fip[wr[q].f] = jp /\ wr'[q].o = wr[q].o /\ size'[jp] = size[jp]
    <3>1. q # p
      BY <1>2, <1>5, <2>1
    <3> QED
      BY <1>2, <2>1, <3>1
  <2>2. Live(jp, k)
    BY <2>1, LiveSame
  <2>3. Good(jp, k)
    BY <2>2 DEF DataInv
  <2> QED
    BY <1>5, <2>3, GoodFrame
<1> QED
  BY <1>4, <1>5

\* A turn of writei() and the bytes it is about.
LEMMA WriterSpans ==
  ASSUME IInv, DataInv, NEW p \in Proc, More(p), NEW ip \in Ino, ip = fip[wr[p].f], NEW m \in Nat, Turn(p, m)
  PROVE  /\ Spans(wr[p].o, m, wr[p].o \div BSIZE, wr[p].o % BSIZE)
         /\ wr[p].o \div BSIZE < MaxBlocks(ip) /\ wr[p].o + m <= MaxBlocks(ip) * BSIZE
         /\ Further(size[ip], wr[p].o) \in Nat /\ wr[p].o <= Further(size[ip], wr[p].o)
         /\ Good(ip, Further(size[ip], wr[p].o))
         /\ Further(size[ip], wr[p].o + m) = Further(Further(size[ip], wr[p].o), wr[p].o + m)
<1>1. TypeInv /\ ProcInv(p) /\ pc[p] = "block" /\ wr[p].f \in File
  BY WriterIs DEF IInv
<1>2. PICK o \in Nat : o = wr[p].o
  BY <1>1, WriteFacts
<1>3. PICK z \in Nat : z = size[ip]
  BY <1>1, TypeFacts
<1>4. PICK q \in Nat, r \in 0..(BSIZE - 1) : q = o \div BSIZE /\ r = o % BSIZE /\ o = q * BSIZE + r
  BY PlaceIs
<1>5. m >= 1 /\ wr[p].tot + m <= wr[p].nn /\ r + m <= BSIZE
  BY <1>2, <1>4 DEF Turn
<1>6. Spans(o, m, q, r)
  BY <1>4, <1>5 DEF Spans, At
<1>7. PICK K \in Nat : K = MaxBlocks(ip) /\ Limit(ip) = K * BSIZE
  BY MaxBlocksIs
<1>8. q < K
  BY <1>2, <1>4, <1>7, BlockBelow
<1>9. o + m <= Limit(ip)
  <2>1. wr[p].o = off[wr[p].f] + wr[p].tot /\ off[wr[p].f] + wr[p].nn <= Limit(ip)
    BY <1>1 DEF ProcInv
  <2>2. off[wr[p].f] \in Nat /\ wr[p].nn \in Nat /\ wr[p].tot \in Nat /\ Limit(ip) \in Nat
    BY <1>1, WriteFacts, TypeFacts, LimitNat
  <2> QED
    BY <1>2, <1>5, <2>1, <2>2
<1>10. PICK n \in Nat : n = Further(z, o) /\ o <= n /\ z <= n /\ (n = z \/ n = o)
  BY <1>2, <1>3 DEF Further
<1>11. Good(ip, n)
  <2>1. Writes(p, ip, n)
    BY <1>1, <1>2, <1>3, <1>10 DEF Writes
  <2> QED
    BY <2>1 DEF DataInv, Live
<1>12. Further(z, o + m) = Further(n, o + m)
  BY <1>10 DEF Further
<1> QED
  BY <1>2, <1>3, <1>4, <1>6, <1>7, <1>8, <1>9, <1>10, <1>11, <1>12


\* The step of a writer, when its block was there.
LEMMA DataMapped ==
  ASSUME IInv, Owned, DataInv, NEW p \in Proc, write_mapped(p)
  PROVE  DataInv'
<1>1. More(p) /\ UNCHANGED <<bitmap, ind, itype, addrs, linked, size, fip, off, lock, pc, panicked>>
  BY DEF write_mapped, inodeVars
<1>2. PICK ip \in Ino : ip = fip[wr[p].f]
  BY <1>1, WriterIs
<1>3. PICK K \in Nat : K = MaxBlocks(ip) /\ K = MaxBlocks(ip)'
  BY <1>1, MaxBlocksIs DEF MaxBlocks
<1>4. PICK o : o = wr[p].o
  OBVIOUS
<1>5. PICK bn : bn = o \div BSIZE
  OBVIOUS
<1>6. PICK b : b = Lookup(ip, bn) /\ b # 0 /\ Put(p, b, data[b])
  BY <1>2, <1>4, <1>5 DEF write_mapped
<1>7. TypeInv
  BY DEF IInv
<1>8. PICK m \in Nat : /\ Turn(p, m)
                       /\ data' = [data EXCEPT ![b] = Filled(data[b], o % BSIZE, (o % BSIZE) + m - 1, ip)]
  BY <1>1, <1>2, <1>4, <1>6, <1>7, PutIs
<1>9. PICK x0 : x0 = o % BSIZE
  OBVIOUS
<1>10. PICK n \in Nat : n = Further(size[ip], o) /\ o <= n /\ Good(ip, n) /\ Spans(o, m, bn, x0) /\ bn < K
                        /\ o + m <= K * BSIZE /\ Further(size[ip], o + m) = Further(n, o + m)
  BY <1>1, <1>2, <1>3, <1>4, <1>5, <1>8, <1>9, WriterSpans
<1>11. PICK L : L = MapOf(ip)
  OBVIOUS
<1>12. L = MapOf(ip)' /\ \A cn \in 0..K-1 : L[cn] = Lookup(ip, cn)
  <2>1. \A cn : Lookup(ip, cn)' = Lookup(ip, cn)
    <3> SUFFICES ASSUME NEW cn PROVE Lookup(ip, cn)' = Lookup(ip, cn)
      OBVIOUS
    <3>1. CsLookup(addrs[ip], cn)' = CsLookup(addrs[ip], cn)
      BY <1>1 DEF CsLookup, Before, Extents, Length, Start
    <3> QED
      BY <1>1, <3>1 DEF Lookup
  <2> QED
    BY <1>3, <1>11, <2>1 DEF MapOf
<1>13. bn \in 0..K-1
  BY <1>3, <1>10 DEF Spans, At
<1>14. b \in Blocks(ip) /\ b \in 1..NBLOCK
  BY <1>3, <1>6, <1>7, <1>13, LookupOwned, OwnedFacts
<1>15. data \in [1..NBLOCK -> [0..BSIZE-1 -> Byte]]
  BY <1>7, TypeFacts
<1>16. data'[b] = Filled(data[b], x0, x0 + m - 1, ip) /\ \A c \in 1..NBLOCK : c # b => data'[c] = data[c]
  BY <1>8, <1>9, <1>14, <1>15
<1>17. \A cn \in 0..K-1 : L[cn] # 0 /\ L[cn] # b => data'[L[cn]] = data[L[cn]]
  <2> SUFFICES ASSUME NEW cn \in 0..K-1, L[cn] # 0, L[cn] # b PROVE data'[L[cn]] = data[L[cn]]
    OBVIOUS
  <2>1. L[cn] \in 1..NBLOCK
    BY <1>3, <1>7, <1>12, LookupOwned, OwnedFacts
  <2> QED
    BY <1>16, <2>1
<1>18. Sound(L, data, K, n, ip) /\ (itype[ip] = "T_CS" => Total(addrs[ip]) = Ceil(n))
  BY <1>3, <1>10, <1>11 DEF Good
<1>19. b = L[bn]
  BY <1>6, <1>12, <1>13
<1>20. PICK e : e = Further(n, o + m)
  OBVIOUS
<1>21. PICK E : E = data'
  OBVIOUS
<1>22. Sound(L, E, K, e, ip) /\ Ceil(e) = Ceil(n)
  BY <1>6, <1>10, <1>16, <1>17, <1>18, <1>19, <1>20, <1>21, SoundMapped
<1>23. Total(addrs[ip])' = Total(addrs[ip])
  <2>1. PICK a : a = addrs[ip] /\ a = addrs'[ip]
    BY <1>1
  <2> QED
    BY <2>1, TotalNext
<1>24. Good(ip, e)'
  BY <1>1, <1>3, <1>12, <1>18, <1>21, <1>22, <1>23, GoodNext
<1>25. \A jp \in Ino : jp # ip => \A c \in Blocks(jp) : ind'[c] = ind[c] /\ data'[c] = data[c]
  <2> SUFFICES ASSUME NEW jp \in Ino, jp # ip, NEW c \in Blocks(jp) PROVE ind'[c] = ind[c] /\ data'[c] = data[c]
    OBVIOUS
  <2>1. c \in 1..NBLOCK
    BY <1>7, OwnedFacts
  <2>2. c # b
    BY <1>14 DEF Owned
  <2> QED
    BY <1>1, <1>16, <2>1, <2>2
<1> QED
  BY <1>1, <1>2, <1>4, <1>8, <1>10, <1>20, <1>24, <1>25, DataWriter

\* The step of a writer that adds the block b to its file.
LEMMA DataGrown ==
  ASSUME IInv, Owned, DataInv, NEW p \in Proc, More(p), NEW ip \in Ino, ip = fip[wr[p].f],
         UNCHANGED <<itype, size, fip, off, lock, pc>>,
         NEW b \in 1..NBLOCK, b \notin bitmap, Put(p, b, ZeroBlock),
         NEW bn, bn = wr[p].o \div BSIZE, Lookup(ip, bn) = 0,
         \A cn \in 0..MaxBlocks(ip)-1 : Lookup(ip, cn)' = IF cn = bn THEN b ELSE Lookup(ip, cn),
         itype[ip] = "T_CS" => Total(addrs[ip])' = bn + 1,
         \A jp \in Ino : jp # ip => addrs'[jp] = addrs[jp],
         \A jp \in Ino : jp # ip => \A c \in Blocks(jp) : ind'[c] = ind[c]
  PROVE  DataInv'
<1>3. PICK K \in Nat : K = MaxBlocks(ip) /\ K = MaxBlocks(ip)'
  BY MaxBlocksIs DEF MaxBlocks
<1>4. PICK o : o = wr[p].o
  OBVIOUS
<1>7. TypeInv
  BY DEF IInv
<1>8. PICK m \in Nat : /\ Turn(p, m)
                       /\ data' = [data EXCEPT ![b] = Filled(ZeroBlock, o % BSIZE, (o % BSIZE) + m - 1, ip)]
  BY <1>4, <1>7, PutIs
<1>9. PICK x0 : x0 = o % BSIZE
  OBVIOUS
<1>10. PICK n \in Nat : n = Further(size[ip], o) /\ o <= n /\ Good(ip, n) /\ Spans(o, m, bn, x0) /\ bn < K
                        /\ o + m <= K * BSIZE /\ Further(size[ip], o + m) = Further(n, o + m)
  BY <1>3, <1>4, <1>8, <1>9, WriterSpans
<1>11. PICK L : L = MapOf(ip)
  OBVIOUS
<1>12. \A cn \in 0..K-1 : L[cn] = Lookup(ip, cn)
  BY <1>3, <1>11 DEF MapOf
<1>13. bn \in 0..K-1
  BY <1>3, <1>10 DEF Spans, At
<1>14. PICK M : M = MapOf(ip)'
  OBVIOUS
<1>15. M[bn] = b /\ \A cn \in 0..K-1 : cn # bn => M[cn] = L[cn]
  <2>1. \A cn \in 0..K-1 : M[cn] = Lookup(ip, cn)'
    BY <1>3, <1>14 DEF MapOf
  <2> QED
    BY <1>3, <1>12, <1>13, <2>1
<1>16. \A cn \in 0..K-1 : L[cn] # 0 => L[cn] \in 1..NBLOCK /\ L[cn] # b
  <2> SUFFICES ASSUME NEW cn \in 0..K-1, L[cn] # 0 PROVE L[cn] \in 1..NBLOCK /\ L[cn] # b
    OBVIOUS
  <2>0. cn \in 0..MaxBlocks(ip)-1 /\ L[cn] = Lookup(ip, cn)
    BY <1>3, <1>12
  <2>1. L[cn] \in Blocks(ip)
    BY <2>0, LookupOwned
  <2>2. Blocks(ip) \subseteq bitmap /\ Blocks(ip) \subseteq 1..NBLOCK
    BY <1>7, OwnedFacts
  <2> QED
    BY <2>1, <2>2
<1>17. data \in [1..NBLOCK -> [0..BSIZE-1 -> Byte]]
  BY <1>7, TypeFacts
<1>18. data'[b] = Filled(ZeroBlock, x0, x0 + m - 1, ip) /\ \A c \in 1..NBLOCK : c # b => data'[c] = data[c]
  BY <1>8, <1>9, <1>17
<1>19. b # 0 /\ L[bn] = 0 /\ \A cn \in 0..K-1 : L[cn] # b
  BY <1>12, <1>13, <1>16
<1>20. \A cn \in 0..K-1 : L[cn] # 0 /\ L[cn] # b => data'[L[cn]] = data[L[cn]]
  BY <1>16, <1>18
<1>21. Sound(L, data, K, n, ip)
  BY <1>3, <1>10, <1>11 DEF Good
<1>22. PICK e : e = Further(n, o + m)
  OBVIOUS
<1>23. PICK E : E = data'
  OBVIOUS
<1>24. Sound(M, E, K, e, ip) /\ Ceil(e) = bn + 1
  BY <1>10, <1>15, <1>18, <1>19, <1>20, <1>21, <1>22, <1>23, SoundGrown
<1>25. Good(ip, e)'
  BY <1>3, <1>14, <1>23, <1>24, GoodNext
<1>26. \A jp \in Ino : jp # ip => \A c \in Blocks(jp) : ind'[c] = ind[c] /\ data'[c] = data[c]
  <2> SUFFICES ASSUME NEW jp \in Ino, jp # ip, NEW c \in Blocks(jp) PROVE data'[c] = data[c]
    OBVIOUS
  <2>1. c \in 1..NBLOCK /\ c # b
    BY <1>7, OwnedFacts
  <2> QED
    BY <1>18, <2>1
<1> QED
  BY <1>4, <1>8, <1>10, <1>22, <1>25, <1>26, DataWriter

\* csbmap() adds the next block of the file.
LEMMA DataCsGrow ==
  ASSUME IInv, Owned, DataInv, NEW p \in Proc, write_csgrow(p)
  PROVE  DataInv'
<1>1. More(p) /\ UNCHANGED <<itype, linked, size, fip, off, lock, pc, panicked>>
  BY DEF write_csgrow
<1>2. PICK ip \in Ino : ip = fip[wr[p].f]
  BY <1>1, WriterIs
<1>3. TypeInv
  BY DEF IInv
<1>4. PICK bn : bn = wr[p].o \div BSIZE
  OBVIOUS
<1>5. /\ itype[ip] = "T_CS" /\ Lookup(ip, bn) = 0 /\ CanGrow(ip, bn)
      /\ ind' = [ind EXCEPT ![FirstFree] = ZeroPointers]
      /\ addrs' = [addrs EXCEPT ![ip] = CsAppend(addrs[ip], FirstFree)]
      /\ Put(p, FirstFree, ZeroBlock)
  BY <1>2, <1>4 DEF write_csgrow
<1>6. PICK b \in 1..NBLOCK : b = FirstFree /\ b \notin bitmap
  BY <1>3, <1>5, FirstFreeIs DEF CanGrow
<1>7. PICK a \in Addrs : a = addrs[ip] /\ Runs(a)
  BY <1>5, TypeFacts DEF IInv, NodeInv
<1>8. bn = Total(a) /\ CsAppend(a, b) # a
  BY <1>5, <1>6, <1>7 DEF CanGrow
<1>9. PICK c : c = CsAppend(a, b)
  OBVIOUS
<1>10. c = addrs'[ip] /\ \A jp \in Ino : jp # ip => addrs'[jp] = addrs[jp]
  BY <1>3, <1>5, <1>6, <1>7, <1>9, TypeFacts
<1>11. Total(c) = bn + 1 /\ \A cn \in Nat : CsLookup(c, cn) = IF cn = bn THEN b ELSE CsLookup(a, cn)
  BY <1>7, <1>8, <1>9, AppendLookup
<1>12. Total(addrs[ip])' = bn + 1
  BY <1>10, <1>11, TotalNext
<1>13. ASSUME NEW cn \in 0..MaxBlocks(ip)-1
       PROVE  Lookup(ip, cn)' = IF cn = bn THEN b ELSE Lookup(ip, cn)
  <2>1. cn \in Nat
    BY MaxBlocksIs
  <2>2. Lookup(ip, cn)' = CsLookup(addrs[ip], cn)'
    BY <1>1, <1>5 DEF Lookup
  <2>3. Lookup(ip, cn) = CsLookup(a, cn)
    BY <1>5, <1>7 DEF Lookup
  <2>4. CsLookup(addrs[ip], cn)' = CsLookup(c, cn)
    BY <1>10, CsLookupNext
  <2> QED
    BY <1>11, <2>1, <2>2, <2>3, <2>4
<1>14. \A jp \in Ino : jp # ip => \A d \in Blocks(jp) : ind'[d] = ind[d]
  <2> SUFFICES ASSUME NEW jp \in Ino, NEW d \in Blocks(jp) PROVE ind'[d] = ind[d]
    OBVIOUS
  <2>1. d \in 1..NBLOCK /\ d # FirstFree
    BY <1>3, <1>6, OwnedFacts
  <2> QED
    BY <1>3, <1>5, <2>1, TypeFacts
<1> QED
  BY <1>1, <1>2, <1>4, <1>5, <1>6, <1>10, <1>12, <1>13, <1>14, DataGrown

\* bmap() finds the block that it added, and the others as before: a direct block.
LEMMA LookupDirect ==
  ASSUME IInv, Owned, NEW ip \in Ino, itype[ip] = "T_FILE", itype' = itype,
         NEW b \in 1..NBLOCK, b \notin bitmap, NEW bn \in Nat, GrowsDirect(ip, bn, b)
  PROVE  \A cn \in 0..MAXFILE-1 : Lookup(ip, cn)' = IF cn = bn THEN b ELSE Lookup(ip, cn)
<1> SUFFICES ASSUME NEW cn \in 0..MAXFILE-1 PROVE Lookup(ip, cn)' = IF cn = bn THEN b ELSE Lookup(ip, cn)
  OBVIOUS
<1>0. NDIRECT \in Nat \ {0} /\ MAXFILE \in Nat /\ TypeInv
  BY Sizes DEF MAXFILE, IInv
<1>1. PICK a \in Addrs : a = addrs[ip]
  BY <1>0, TypeFacts
<1>2. PICK c : c = addrs'[ip] /\ c = [a EXCEPT ![bn] = b] /\ bn < NDIRECT
  BY <1>0, <1>1, TypeFacts DEF GrowsDirect
<1>3. c[bn] = b /\ \A i \in 0..NDIRECT : i # bn => c[i] = a[i]
  BY <1>0, <1>2 DEF Addrs
<1>4. CASE cn < NDIRECT
  <2>1. Lookup(ip, cn)' = c[cn] /\ Lookup(ip, cn) = a[cn]
    BY <1>1, <1>2, <1>4 DEF Lookup
  <2> QED
    BY <1>0, <1>3, <1>4, <2>1
<1>5. CASE ~(cn < NDIRECT)
  <2>1. cn # bn /\ NDIRECT # bn
    BY <1>0, <1>2, <1>5
  <2>2. c[NDIRECT] = a[NDIRECT]
    BY <1>0, <1>3, <2>1
  <2>3. a[NDIRECT] # 0 => ind'[a[NDIRECT]] = ind[a[NDIRECT]]
    <3> SUFFICES ASSUME a[NDIRECT] # 0 PROVE ind'[a[NDIRECT]] = ind[a[NDIRECT]]
      OBVIOUS
    <3>1. a[NDIRECT] \in Blocks(ip)
      BY <1>1, IndirectIs
    <3>2. a[NDIRECT] \in 1..NBLOCK /\ a[NDIRECT] # b
      BY <1>0, <3>1, OwnedFacts
    <3> QED
      BY <1>0, <3>2, TypeFacts DEF GrowsDirect
  <2> QED
    BY <1>1, <1>2, <1>5, <2>1, <2>2, <2>3 DEF Lookup
<1> QED
  BY <1>4, <1>5

\* One behind the indirect block.
LEMMA LookupOld ==
  ASSUME IInv, Owned, NEW ip \in Ino, itype[ip] = "T_FILE", itype' = itype,
         NEW b \in 1..NBLOCK, b \notin bitmap, NEW j \in 0..NINDIRECT-1, GrowsOld(ip, j, b)
  PROVE  \A cn \in 0..MAXFILE-1 : Lookup(ip, cn)' = IF cn = NDIRECT + j THEN b ELSE Lookup(ip, cn)
<1> SUFFICES ASSUME NEW cn \in 0..MAXFILE-1 PROVE Lookup(ip, cn)' = IF cn = NDIRECT + j THEN b ELSE Lookup(ip, cn)
  OBVIOUS
<1>0. NDIRECT \in Nat \ {0} /\ NINDIRECT \in Nat \ {0} /\ MAXFILE = NDIRECT + NINDIRECT /\ TypeInv
  BY Sizes DEF MAXFILE, IInv
<1>1. PICK a \in Addrs : a = addrs[ip] /\ a = addrs'[ip]
  BY <1>0, TypeFacts DEF GrowsOld
<1>2. PICK s : s = a[NDIRECT] /\ s # 0
  BY <1>1 DEF GrowsOld
<1>3. s \in Blocks(ip)
  BY <1>1, <1>2, IndirectIs
<1>4. s \in 1..NBLOCK /\ s # b
  BY <1>0, <1>3, OwnedFacts
<1>5. ind \in [1..NBLOCK -> [0..NINDIRECT-1 -> 0..NBLOCK]]
  BY <1>0, TypeFacts
<1>6. ind' = [ind EXCEPT ![b] = ZeroPointers, ![s] = [ind[s] EXCEPT ![j] = b]]
  BY <1>1, <1>2 DEF GrowsOld
<1>7. ind'[s] = [ind[s] EXCEPT ![j] = b]
  BY <1>4, <1>5, <1>6
<1>8. PICK d \in [0..NINDIRECT-1 -> 0..NBLOCK] : d = ind[s]
  BY <1>4, <1>5
<1>9. PICK e : e = ind'[s] /\ e = [d EXCEPT ![j] = b]
  BY <1>7, <1>8
<1>10. CASE cn < NDIRECT
  <2>1. Lookup(ip, cn)' = a[cn] /\ Lookup(ip, cn) = a[cn]
    BY <1>1, <1>10 DEF Lookup
  <2> QED
    BY <1>0, <1>10, <2>1
<1>11. CASE ~(cn < NDIRECT)
  <2>1. PICK i \in 0..NINDIRECT-1 : i = cn - NDIRECT /\ (cn = NDIRECT + j <=> i = j)
    BY <1>0, <1>11
  <2>2. Lookup(ip, cn)' = e[i] /\ Lookup(ip, cn) = d[i]
    BY <1>1, <1>2, <1>8, <1>9, <1>11, <2>1 DEF Lookup
  <2>3. e[i] = IF i = j THEN b ELSE d[i]
    BY <1>8, <1>9
  <2> QED
    BY <2>1, <2>2, <2>3
<1> QED
  BY <1>10, <1>11

\* The first one behind a new indirect block.
LEMMA LookupNew ==
  ASSUME IInv, Owned, NEW ip \in Ino, itype[ip] = "T_FILE", itype' = itype,
         NEW b \in 1..NBLOCK, b \notin bitmap, NEW j \in 0..NINDIRECT-1, GrowsNew(ip, j, b)
  PROVE  \A cn \in 0..MAXFILE-1 : Lookup(ip, cn)' = IF cn = NDIRECT + j THEN b ELSE Lookup(ip, cn)
<1> SUFFICES ASSUME NEW cn \in 0..MAXFILE-1 PROVE Lookup(ip, cn)' = IF cn = NDIRECT + j THEN b ELSE Lookup(ip, cn)
  OBVIOUS
<1>0. NDIRECT \in Nat \ {0} /\ NINDIRECT \in Nat \ {0} /\ MAXFILE = NDIRECT + NINDIRECT /\ TypeInv
  BY Sizes DEF MAXFILE, IInv
<1>1. PICK a \in Addrs : a = addrs[ip] /\ a[NDIRECT] = 0
  BY <1>0, TypeFacts DEF GrowsNew
<1>2. PICK s \in 1..NBLOCK : s = FirstFree /\ s # b
  BY <1>0, FirstFreeIs DEF GrowsNew
<1>3. PICK c : c = addrs'[ip] /\ c = [a EXCEPT ![NDIRECT] = s]
  BY <1>0, <1>1, <1>2, TypeFacts DEF GrowsNew
<1>4. c[NDIRECT] = s /\ s # 0 /\ \A i \in 0..NDIRECT : i # NDIRECT => c[i] = a[i]
  BY <1>0, <1>2, <1>3 DEF Addrs
<1>5. ind \in [1..NBLOCK -> [0..NINDIRECT-1 -> 0..NBLOCK]]
  BY <1>0, TypeFacts
<1>6. ind' = [ind EXCEPT ![b] = ZeroPointers, ![s] = [ZeroPointers EXCEPT ![j] = b]]
  BY <1>2 DEF GrowsNew
<1>7. PICK e : e = ind'[s] /\ e = [ZeroPointers EXCEPT ![j] = b]
  BY <1>2, <1>5, <1>6
<1>8. CASE cn < NDIRECT
  <2>1. Lookup(ip, cn)' = c[cn] /\ Lookup(ip, cn) = a[cn]
    BY <1>1, <1>3, <1>8 DEF Lookup
  <2> QED
    BY <1>0, <1>4, <1>8, <2>1
<1>9. CASE ~(cn < NDIRECT)
  <2>1. PICK i \in 0..NINDIRECT-1 : i = cn - NDIRECT /\ (cn = NDIRECT + j <=> i = j)
    BY <1>0, <1>9
  <2>2. Lookup(ip, cn)' = e[i] /\ Lookup(ip, cn) = 0
    BY <1>1, <1>3, <1>4, <1>7, <1>9, <2>1 DEF Lookup
  <2>3. e[i] = IF i = j THEN b ELSE 0
    BY <1>7 DEF ZeroPointers
  <2> QED
    BY <2>1, <2>2, <2>3
<1> QED
  BY <1>8, <1>9

\* bmap() adds a block to an ordinary file.
LEMMA DataGrow ==
  ASSUME IInv, Owned, DataInv, NEW p \in Proc, write_grow(p), Running'
  PROVE  DataInv'
<1>1. More(p) /\ UNCHANGED <<itype, linked, size, fip, off, lock, pc>>
  BY DEF write_grow
<1>2. PICK ip \in Ino : ip = fip[wr[p].f]
  BY <1>1, WriterIs
<1>3. PICK bn \in Nat : bn = wr[p].o \div BSIZE
  <2>1. PICK K \in Nat : Limit(ip) = K * BSIZE
    BY MaxBlocksIs
  <2> QED
    BY <1>1, <1>2, <2>1, BlockBelow
<1>4. TypeInv /\ NDIRECT \in Nat \ {0} /\ NINDIRECT \in Nat \ {0}
  BY Sizes DEF IInv
<1>5. itype[ip] = "T_FILE" /\ Lookup(ip, bn) = 0
  BY <1>2, <1>3 DEF write_grow
<1>6. MaxBlocks(ip) = MAXFILE
  BY <1>5 DEF MaxBlocks
<1>7. PICK b \in 1..NBLOCK :
         /\ b \notin bitmap /\ Put(p, b, ZeroBlock)
         /\ \/ GrowsDirect(ip, bn, b)
            \/ \E j \in 0..NINDIRECT-1 : j = bn - NDIRECT /\ (GrowsOld(ip, j, b) \/ GrowsNew(ip, j, b))
  BY <1>2, <1>3, GrowIs DEF Running
<1>8. addrs \in [Ino -> Addrs] /\ ind \in [1..NBLOCK -> [0..NINDIRECT-1 -> 0..NBLOCK]]
  BY <1>4, TypeFacts
<1>9. CASE GrowsDirect(ip, bn, b)
  <2>1. \A cn \in 0..MaxBlocks(ip)-1 : Lookup(ip, cn)' = IF cn = bn THEN b ELSE Lookup(ip, cn)
    BY <1>1, <1>4, <1>5, <1>6, <1>7, <1>9, LookupDirect
  <2>2. \A jp \in Ino : jp # ip => addrs'[jp] = addrs[jp]
    BY <1>8, <1>9 DEF GrowsDirect
  <2>3. \A jp \in Ino : jp # ip => \A c \in Blocks(jp) : ind'[c] = ind[c]
    <3> SUFFICES ASSUME NEW jp \in Ino, NEW c \in Blocks(jp) PROVE ind'[c] = ind[c]
      OBVIOUS
    <3>1. c \in 1..NBLOCK /\ c # b
      BY <1>4, <1>7, OwnedFacts
    <3> QED
      BY <1>8, <1>9, <3>1 DEF GrowsDirect
  <2> QED
    BY <1>1, <1>2, <1>3, <1>5, <1>7, <2>1, <2>2, <2>3, DataGrown
<1>10. ASSUME NEW j \in 0..NINDIRECT-1, j = bn - NDIRECT, GrowsOld(ip, j, b) PROVE DataInv'
  <2>0. bn = NDIRECT + j
    BY <1>4, <1>10
  <2>1. \A cn \in 0..MaxBlocks(ip)-1 : Lookup(ip, cn)' = IF cn = bn THEN b ELSE Lookup(ip, cn)
    BY <1>1, <1>5, <1>6, <1>7, <1>10, <2>0, LookupOld
  <2>2. \A jp \in Ino : jp # ip => addrs'[jp] = addrs[jp]
    BY <1>10 DEF GrowsOld
  <2>3. \A jp \in Ino : jp # ip => \A c \in Blocks(jp) : ind'[c] = ind[c]
    <3> SUFFICES ASSUME NEW jp \in Ino, jp # ip, NEW c \in Blocks(jp) PROVE ind'[c] = ind[c]
      OBVIOUS
    <3>1. c \in 1..NBLOCK /\ c # b
      BY <1>4, <1>7, OwnedFacts
    <3>2. PICK s : s = addrs[ip][NDIRECT] /\ s # 0
      BY <1>10 DEF GrowsOld
    <3>3. s \in Blocks(ip)
      BY <1>5, <3>2, IndirectIs
    <3>4. c # s
      BY <3>3 DEF Owned
    <3>5. ind' = [ind EXCEPT ![b] = ZeroPointers, ![s] = [ind[s] EXCEPT ![j] = b]]
      BY <1>10, <3>2 DEF GrowsOld
    <3> QED
      BY <1>8, <3>1, <3>4, <3>5
  <2> QED
    BY <1>1, <1>2, <1>3, <1>5, <1>7, <2>1, <2>2, <2>3, DataGrown
<1>11. ASSUME NEW j \in 0..NINDIRECT-1, j = bn - NDIRECT, GrowsNew(ip, j, b) PROVE DataInv'
  <2>0. bn = NDIRECT + j
    BY <1>4, <1>11
  <2>1. \A cn \in 0..MaxBlocks(ip)-1 : Lookup(ip, cn)' = IF cn = bn THEN b ELSE Lookup(ip, cn)
    BY <1>1, <1>5, <1>6, <1>7, <1>11, <2>0, LookupNew
  <2>2. \A jp \in Ino : jp # ip => addrs'[jp] = addrs[jp]
    BY <1>8, <1>11 DEF GrowsNew
  <2>3. \A jp \in Ino : jp # ip => \A c \in Blocks(jp) : ind'[c] = ind[c]
    <3> SUFFICES ASSUME NEW jp \in Ino, jp # ip, NEW c \in Blocks(jp) PROVE ind'[c] = ind[c]
      OBVIOUS
    <3>1. PICK s \in 1..NBLOCK : s = FirstFree /\ s \notin bitmap
      BY <1>4, <1>11, FirstFreeIs DEF GrowsNew
    <3>2. c \in 1..NBLOCK /\ c # b /\ c # s
      BY <1>4, <1>7, <3>1, OwnedFacts
    <3>3. ind' = [ind EXCEPT ![b] = ZeroPointers, ![s] = [ZeroPointers EXCEPT ![j] = b]]
      BY <1>11, <3>1 DEF GrowsNew
    <3> QED
      BY <1>8, <3>2, <3>3
  <2> QED
    BY <1>1, <1>2, <1>3, <1>5, <1>7, <2>1, <2>2, <2>3, DataGrown
<1> QED
  BY <1>7, <1>9, <1>10, <1>11

\* A chunk begins where the file ends or before: nothing of it is written yet.
LEMMA DataBegin ==
  ASSUME IInv, DataInv, NEW p \in Proc, writei_begin(p)
  PROVE  DataInv'
<1>0. TypeInv /\ ProcInv(p)
  BY DEF IInv
<1>1. /\ pc[p] = "chunk" /\ wr[p].f \in File /\ fip[wr[p].f] \in Ino /\ lock[fip[wr[p].f]] = NoProc
      /\ UNCHANGED <<data, ind, itype, addrs, size, fip>>
  BY <1>0, BeginIs
<1>2. pc \in [Proc -> {"idle", "chunk", "block", "end"}] /\ wr \in [Proc -> Write] /\ lock \in [Ino -> Proc \cup {NoProc}]
  BY <1>0, TypeFacts
<1>3. CASE pc' = [pc EXCEPT ![p] = "idle"] /\ wr' = [wr EXCEPT ![p] = NoWrite] /\ UNCHANGED lock
  <2>1. \A q \in Proc : pc'[q] \in {"block", "end"} => pc[q] \in {"block", "end"} /\ wr'[q] = wr[q]
    BY <1>1, <1>2, <1>3
  <2> QED
    BY <1>1, <1>3, <2>1, DataAside
<1>4. ASSUME NEW m \in Nat, NEW k \in Nat, pc' = [pc EXCEPT ![p] = "block"],
             lock' = [lock EXCEPT ![fip[wr[p].f]] = p], wr' = [wr EXCEPT ![p] = Chunk(p, m, k)],
             off[wr[p].f] <= size[fip[wr[p].f]]
      PROVE  DataInv'
  <2>1. PICK ip \in Ino : ip = fip[wr[p].f]
    BY <1>1
  <2>2. /\ wr'[p].f = wr[p].f /\ wr'[p].o = off[wr[p].f] /\ \A q \in Proc : q # p => wr'[q] = wr[q] /\ pc'[q] = pc[q]
        /\ lock'[ip] = p /\ \A jp \in Ino : jp # ip => lock'[jp] = lock[jp]
    <3>1. Chunk(p, m, k).f = wr[p].f /\ Chunk(p, m, k).o = off[wr[p].f]
      BY <1>0, <1>1, ChunkIs
    <3>2. wr'[p] = Chunk(p, m, k) /\ \A q \in Proc : q # p => wr'[q] = wr[q] /\ pc'[q] = pc[q]
      BY <1>2, <1>4
    <3>3. lock'[ip] = p /\ \A jp \in Ino : jp # ip => lock'[jp] = lock[jp]
      BY <1>2, <1>4, <2>1
    <3> QED
      BY <3>1, <3>2, <3>3
  <2>3. \A q \in Proc : pc[q] \in {"block", "end"} => fip[wr[q].f] # ip
    BY <1>1, <2>1, SentinelAssumption DEF IInv, ProcInv
  <2>4. ASSUME NEW jp \in Ino, NEW n \in Nat, Live(jp, n)' PROVE Live(jp, n)
    <3>1. CASE jp = ip
      <4>1. ~ Rests(jp, n)'
        BY <2>2, <3>1, SentinelAssumption DEF Rests
      <4>2. PICK q \in Proc : Writes(q, jp, n)'
        BY <2>4, <4>1 DEF Live
      <4>3. q = p
        BY <1>1, <2>2, <2>3, <3>1, <4>2 DEF Writes
      <4>4. n = size[ip]
        <5>1. PICK o \in Nat : o = off[wr[p].f]
          BY <1>0, <1>1, TypeFacts
        <5>2. PICK z \in Nat : z = size[ip] /\ z = size'[ip]
          BY <1>0, <1>1, TypeFacts
        <5>3. o <= z
          BY <1>4, <2>1, <5>1, <5>2
        <5>4. n = Further(z, o)
          BY <2>2, <3>1, <4>2, <4>3, <5>1, <5>2 DEF Writes, Further
        <5> QED
          BY <5>2, <5>3, <5>4 DEF Further
      <4>5. itype[ip] # "free"
        BY <1>1, <2>1 DEF IInv, NodeInv, Opened
      <4> QED
        BY <1>1, <2>1, <3>1, <4>4, <4>5 DEF Rests, Live
    <3>2. CASE jp # ip
      <4>1. ASSUME NEW q \in Proc, pc'[q] \in {"block", "end"}, fip'[wr'[q].f] = jp
            PROVE  pc[q] \in {"block", "end"} /\ fip[wr[q].f] = jp /\ wr'[q].o = wr[q].o /\ size'[jp] = size[jp]
        <5>1. q # p
          BY <1>1, <2>1, <2>2, <3>2, <4>1
        <5> QED
          BY <1>1, <2>2, <4>1, <5>1
      <4> QED
        BY <1>1, <2>2, <2>4, <3>2, <4>1, LiveSame
    <3> QED
      BY <3>1, <3>2
  <2> QED
    BY <1>1, <2>4, DataSame
<1>5. \/ pc' = [pc EXCEPT ![p] = "idle"] /\ wr' = [wr EXCEPT ![p] = NoWrite] /\ UNCHANGED lock
      \/ \E m \in Nat, k \in Nat :
            /\ pc' = [pc EXCEPT ![p] = "block"] /\ lock' = [lock EXCEPT ![fip[wr[p].f]] = p]
            /\ wr' = [wr EXCEPT ![p] = Chunk(p, m, k)] /\ off[wr[p].f] <= size[fip[wr[p].f]]
  BY <1>0, BeginIs
<1> QED
  BY <1>3, <1>4, <1>5

\* At the end of a chunk the size covers what the writer has written.
LEMMA DataEnd ==
  ASSUME IInv, DataInv, NEW p \in Proc, writei_end(p)
  PROVE  DataInv'
<1>0. TypeInv /\ ProcInv(p)
  BY DEF IInv
<1>1. pc[p] \in {"block", "end"} /\ UNCHANGED <<data, ind, itype, addrs, fip>>
  BY DEF writei_end
<1>2. PICK ip \in Ino : ip = fip[wr[p].f]
  BY <1>0, <1>1 DEF ProcInv
<1>3. wr[p].nn > 0 /\ wr[p].o \in Nat /\ size[ip] \in Nat
  BY <1>0, <1>1, WriteFacts, TypeFacts DEF ProcInv
<1>4. PICK z \in Nat : z = Further(size[ip], wr[p].o)
  BY <1>3 DEF Further
<1>5. size' = [size EXCEPT ![ip] = z] /\ lock' = [lock EXCEPT ![ip] = NoProc]
  BY <1>2, <1>3, <1>4 DEF writei_end, Further
<1>6. pc'[p] \notin {"block", "end"} /\ \A q \in Proc : q # p => pc'[q] = pc[q] /\ wr'[q] = wr[q]
  <2>1. \A q \in Proc : q # p => pc'[q] = pc[q]
    BY <1>0, TypeFacts DEF writei_end
  <2>2. \A q \in Proc : q # p => wr'[q] = wr[q]
    BY <1>0, TypeFacts DEF writei_end
  <2>3. pc'[p] \in {"idle", "chunk"}
    BY <1>0, TypeFacts DEF writei_end
  <2> QED
    BY <2>1, <2>2, <2>3
<1>7. size'[ip] = z /\ lock'[ip] = NoProc /\ \A jp \in Ino : jp # ip => size'[jp] = size[jp] /\ lock'[jp] = lock[jp]
  BY <1>0, <1>5, TypeFacts
<1>8. \A q \in Proc : q # p /\ pc[q] \in {"block", "end"} => fip[wr[q].f] # ip
  BY <1>1, <1>2, OneWriter DEF IInv
<1>9. ASSUME NEW jp \in Ino, NEW n \in Nat, Live(jp, n)' PROVE Live(jp, n)
  <2>1. CASE jp = ip
    <3>1. \A q \in Proc : ~ Writes(q, jp, n)'
      BY <1>1, <1>6, <1>8, <2>1 DEF Writes
    <3>2. n = z
      BY <1>7, <1>9, <2>1, <3>1 DEF Live, Rests
    <3>3. Writes(p, jp, n)
      BY <1>1, <1>2, <1>4, <2>1, <3>2 DEF Writes
    <3> QED
      BY <3>3 DEF Live
  <2>2. CASE jp # ip
    <3>1. ASSUME NEW q \in Proc, pc'[q] \in {"block", "end"}, fip'[wr'[q].f] = jp
          PROVE  pc[q] \in {"block", "end"} /\ fip[wr[q].f] = jp /\ wr'[q].o = wr[q].o /\ size'[jp] = size[jp]
      <4>1. q # p
        BY <1>6, <3>1
      <4> QED
        BY <1>1, <1>6, <1>7, <2>2, <3>1, <4>1
    <3> QED
      BY <1>1, <1>7, <1>9, <2>2, <3>1, LiveSame
  <2> QED
    BY <2>1, <2>2
<1> QED
  BY <1>1, <1>9, DataSame

\* The same, one step later.
LEMMA GoodEmptyNext ==
  ASSUME NEW ip, addrs'[ip] = ZeroAddrs
  PROVE  Good(ip, 0)'
<1>1. (addrs[ip] = ZeroAddrs => Good(ip, 0))'
  BY GoodEmpty, PTL
<1> QED
  BY <1>1 DEF ZeroAddrs

\* A new file is empty, and nobody writes it.
LEMMA DataCreate ==
  ASSUME IInv, DataInv, NEW f \in File, NEW ip \in Ino, NEW type \in {"T_FILE", "T_CS"}, create(f, ip, type)
  PROVE  DataInv'
<1> SUFFICES ASSUME NEW jp \in Ino, NEW n \in Nat, Live(jp, n)' PROVE Good(jp, n)'
  BY DEF DataInv
<1>0. TypeInv
  BY DEF IInv
<1>1. /\ fip[f] = NoIno /\ itype[ip] = "free" /\ UNCHANGED <<data, ind, lock, pc, wr>>
      /\ fip' = [fip EXCEPT ![f] = ip] /\ size' = [size EXCEPT ![ip] = 0]
      /\ itype' = [itype EXCEPT ![ip] = type] /\ addrs' = [addrs EXCEPT ![ip] = ZeroAddrs]
  BY DEF create
<1>2. /\ fip'[f] = ip /\ \A g \in File : g # f => fip'[g] = fip[g]
      /\ size'[ip] = 0 /\ addrs'[ip] = ZeroAddrs
      /\ \A kp \in Ino : kp # ip => size'[kp] = size[kp] /\ addrs'[kp] = addrs[kp] /\ itype'[kp] = itype[kp]
  BY <1>0, <1>1, TypeFacts
<1>3. \A q \in Proc : pc[q] \in {"block", "end"} => /\ wr[q].f \in File /\ wr[q].f # f
                                                   /\ fip'[wr[q].f] = fip[wr[q].f] /\ fip[wr[q].f] # ip
  <2> SUFFICES ASSUME NEW q \in Proc, pc[q] \in {"block", "end"}
               PROVE  wr[q].f \in File /\ wr[q].f # f /\ fip'[wr[q].f] = fip[wr[q].f] /\ fip[wr[q].f] # ip
    OBVIOUS
  <2>1. wr[q].f \in File /\ fip[wr[q].f] \in Ino
    BY DEF IInv, ProcInv
  <2>2. fip[wr[q].f] # ip
    BY <1>1, <2>1 DEF IInv, NodeInv, Opened
  <2> QED
    BY <1>1, <1>2, <2>1, <2>2, SentinelAssumption
<1>4. CASE jp = ip
  <2>1. \A q \in Proc : ~ Writes(q, jp, n)'
    BY <1>1, <1>3, <1>4 DEF Writes
  <2>2. n = 0
    BY <1>2, <1>4, <2>1 DEF Live, Rests
  <2> QED
    BY <1>2, <1>4, <2>2, GoodEmptyNext
<1>5. CASE jp # ip
  <2>1. ASSUME NEW q \in Proc, pc'[q] \in {"block", "end"}, fip'[wr'[q].f] = jp
        PROVE  pc[q] \in {"block", "end"} /\ fip[wr[q].f] = jp /\ wr'[q].o = wr[q].o /\ size'[jp] = size[jp]
    BY <1>1, <1>2, <1>3, <1>5, <2>1
  <2>2. Live(jp, n)
    BY <1>1, <1>2, <1>5, <2>1, LiveSame
  <2>3. Good(jp, n)
    BY <2>2 DEF DataInv
  <2> QED
    BY <1>1, <1>2, <1>5, <2>3, GoodFrame
<1> QED
  BY <1>4, <1>5

\* A file that is freed takes none of another's bytes with it.
LEMMA DataFreed ==
  ASSUME IInv, Owned, DataInv, NEW ip \in Ino, FreeInode(ip), UNCHANGED <<lock, pc, wr>>,
         \A g \in File : fip'[g] # ip, \A g \in File : fip'[g] \in Ino => fip'[g] = fip[g]
  PROVE  DataInv'
<1> SUFFICES ASSUME NEW jp \in Ino, NEW n \in Nat, Live(jp, n)' PROVE Good(jp, n)'
  BY DEF DataInv
<1>0. TypeInv
  BY DEF IInv
<1>1. /\ itype'[ip] = "free"
      /\ \A kp \in Ino : kp # ip => size'[kp] = size[kp] /\ addrs'[kp] = addrs[kp] /\ itype'[kp] = itype[kp]
  BY <1>0, TypeFacts DEF FreeInode
<1>2. \A q \in Proc : pc[q] \in {"block", "end"} => wr[q].f \in File
  BY DEF IInv, ProcInv
<1>3. jp # ip
  <2> SUFFICES ASSUME jp = ip PROVE FALSE
    OBVIOUS
  <2>1. ~ Rests(jp, n)'
    BY <1>1 DEF Rests
  <2>2. \A q \in Proc : ~ Writes(q, jp, n)'
    BY <1>2 DEF Writes
  <2> QED
    BY <2>1, <2>2 DEF Live
<1>4. ASSUME NEW q \in Proc, pc'[q] \in {"block", "end"}, fip'[wr'[q].f] = jp
      PROVE  pc[q] \in {"block", "end"} /\ fip[wr[q].f] = jp /\ wr'[q].o = wr[q].o /\ size'[jp] = size[jp]
  BY <1>1, <1>2, <1>3, <1>4
<1>5. Live(jp, n)
  BY <1>1, <1>3, <1>4, LiveSame
<1>6. Good(jp, n)
  BY <1>5 DEF DataInv
<1>7. ASSUME NEW c \in Blocks(jp) PROVE ind'[c] = ind[c] /\ data'[c] = data[c]
  <2>1. c \in 1..NBLOCK
    BY <1>0, OwnedFacts
  <2>2. c \notin Blocks(ip)
    BY <1>3 DEF Owned
  <2> QED
    BY <2>1, <2>2 DEF FreeInode
<1> QED
  BY <1>1, <1>3, <1>6, <1>7, GoodFrame

\* unlink() frees a file that is not open.
LEMMA DataUnlink ==
  ASSUME IInv, Owned, DataInv, NEW ip \in Ino, unlink(ip)
  PROVE  DataInv'
<1>1. UNCHANGED <<fip, lock, pc, wr>>
  BY DEF unlink
<1>2. CASE Opened(ip) = {}
  <2>1. FreeInode(ip) /\ \A g \in File : fip'[g] # ip
    BY <1>1, <1>2 DEF unlink, Opened
  <2> QED
    BY <1>1, <2>1, DataFreed
<1>3. CASE Opened(ip) # {}
  <2>1. UNCHANGED <<data, ind, addrs, size, itype>>
    BY <1>3 DEF unlink
  <2> QED
    BY <1>1, <2>1, DataAside
<1> QED
  BY <1>2, <1>3

\* The last close of an unlinked file frees it.
LEMMA DataClose ==
  ASSUME IInv, Owned, DataInv, NEW f \in File, fileclose(f)
  PROVE  DataInv'
<1>0. TypeInv
  BY DEF IInv
<1>1. /\ fip[f] # NoIno /\ fip' = [fip EXCEPT ![f] = NoIno] /\ UNCHANGED <<lock, pc, wr>>
      /\ \A p \in Proc : wr[p].f # f
  BY DEF fileclose
<1>2. PICK ip \in Ino : ip = fip[f]
  BY <1>0, <1>1, TypeFacts
<1>3. fip'[f] = NoIno /\ \A g \in File : g # f => fip'[g] = fip[g]
  BY <1>0, <1>1, TypeFacts
<1>4. CASE Opened(ip) = {f} /\ ~linked[ip]
  <2>1. FreeInode(ip)
    BY <1>2, <1>4 DEF fileclose
  <2>2. \A g \in File : fip'[g] # ip
    BY <1>3, <1>4, SentinelAssumption DEF Opened
  <2>3. \A g \in File : fip'[g] \in Ino => fip'[g] = fip[g]
    BY <1>3, SentinelAssumption
  <2> QED
    BY <1>1, <2>1, <2>2, <2>3, DataFreed
<1>5. CASE ~(Opened(ip) = {f} /\ ~linked[ip])
  <2>1. UNCHANGED <<data, ind, addrs, size, itype>>
    BY <1>2, <1>5 DEF fileclose
  <2>2. \A q \in Proc : pc'[q] \in {"block", "end"} =>
          pc[q] \in {"block", "end"} /\ wr'[q] = wr[q] /\ (fip'[wr[q].f] \in Ino => fip'[wr[q].f] = fip[wr[q].f])
    BY <1>1, <1>3 DEF IInv, ProcInv
  <2> QED
    BY <1>1, <2>1, <2>2, DataAside
<1> QED
  BY <1>4, <1>5

\* open() takes an open-file structure that nobody writes through.
LEMMA DataOpen ==
  ASSUME IInv, DataInv, NEW f \in File, NEW ip \in Ino, open(f, ip)
  PROVE  DataInv'
<1>0. TypeInv
  BY DEF IInv
<1>1. fip[f] = NoIno /\ fip' = [fip EXCEPT ![f] = ip] /\ UNCHANGED <<data, ind, itype, addrs, size, lock, pc, wr>>
  BY DEF open, inodeVars
<1>2. \A g \in File : g # f => fip'[g] = fip[g]
  BY <1>0, <1>1, TypeFacts
<1>3. ASSUME NEW q \in Proc, pc[q] \in {"block", "end"} PROVE fip'[wr[q].f] = fip[wr[q].f]
  <2>1. wr[q].f \in File /\ fip[wr[q].f] \in Ino
    BY <1>3 DEF IInv, ProcInv
  <2> QED
    BY <1>1, <1>2, <2>1, SentinelAssumption
<1> QED
  BY <1>1, <1>3, DataAside

\* The steps that change no file.
LEMMA DataOthers ==
  ASSUME IInv, DataInv, NEW p \in Proc, NEW f, NEW n,
         sys_write(p, f, n) \/ fileread(p, f, n) \/ write_csfail(p)
  PROVE  DataInv'
<1>0. TypeInv
  BY DEF IInv
<1>1. UNCHANGED <<data, ind, itype, addrs, size, lock, fip>>
  BY DEF sys_write, fileread, write_csfail, inodeVars
<1>2. ASSUME NEW q \in Proc, pc'[q] \in {"block", "end"} PROVE pc[q] \in {"block", "end"} /\ wr'[q] = wr[q]
  <2>1. CASE sys_write(p, f, n)
    BY <1>0, <1>2, <2>1, TypeFacts DEF sys_write
  <2>2. CASE fileread(p, f, n)
    BY <1>2, <2>2 DEF fileread
  <2>3. CASE write_csfail(p)
    BY <1>0, <1>2, <2>3, TypeFacts DEF write_csfail, More
  <2> QED
    BY <2>1, <2>2, <2>3
<1> QED
  BY <1>1, <1>2, DataAside

\* What holds of the bytes while the system runs.
BytesInv == Running => DataInv

\* Every step keeps it.
LEMMA StepData ==
  ASSUME IInv, BlocksOwned, BytesInv, [Next]_vars
  PROVE  BytesInv'
<1> SUFFICES ASSUME Running' PROVE DataInv'
  BY DEF BytesInv
<1>1. CASE UNCHANGED vars
  <2>1. UNCHANGED <<data, ind, itype, addrs, size, lock, fip, pc, wr>>
    BY <1>1 DEF vars, inodeVars
  <2>2. DataInv
    BY <1>1 DEF vars, BytesInv, Running
  <2> QED
    BY <2>1, <2>2, DataAside
<1>2. CASE Next
  <2>1. Running
    BY <1>2 DEF Next, create, open, unlink, fileclose, sys_write, fileread, writei_begin, writei_end,
                write_mapped, write_grow, write_csgrow, write_csfail
  <2>2. Owned /\ DataInv
    BY <2>1 DEF BlocksOwned, Owned, BytesInv
  <2>3. ASSUME NEW f \in File, NEW ip \in Ino, NEW type \in {"T_FILE", "T_CS"}, create(f, ip, type) PROVE DataInv'
    BY <2>2, <2>3, DataCreate
  <2>4. ASSUME NEW f \in File, NEW ip \in Ino, open(f, ip) PROVE DataInv'
    BY <2>2, <2>4, DataOpen
  <2>5. ASSUME NEW ip \in Ino, unlink(ip) PROVE DataInv'
    BY <2>2, <2>5, DataUnlink
  <2>6. ASSUME NEW f \in File, fileclose(f) PROVE DataInv'
    BY <2>2, <2>6, DataClose
  <2>7. ASSUME NEW p \in Proc, NEW f \in File, NEW n, sys_write(p, f, n) \/ fileread(p, f, n) PROVE DataInv'
    BY <2>2, <2>7, DataOthers
  <2>8. ASSUME NEW p \in Proc, write_csfail(p) PROVE DataInv'
    BY <2>2, <2>8, DataOthers
  <2>9. ASSUME NEW p \in Proc, writei_begin(p) PROVE DataInv'
    BY <2>2, <2>9, DataBegin
  <2>10. ASSUME NEW p \in Proc, writei_end(p) PROVE DataInv'
    BY <2>2, <2>10, DataEnd
  <2>11. ASSUME NEW p \in Proc, write_mapped(p) PROVE DataInv'
    BY <2>2, <2>11, DataMapped
  <2>12. ASSUME NEW p \in Proc, write_grow(p) PROVE DataInv'
    BY <2>2, <2>12, DataGrow
  <2>13. ASSUME NEW p \in Proc, write_csgrow(p) PROVE DataInv'
    BY <2>2, <2>13, DataCsGrow
  <2> QED
    BY <1>2, <2>3, <2>4, <2>5, <2>6, <2>7, <2>8, <2>9, <2>10, <2>11, <2>12, <2>13 DEF Next
<1> QED
  BY <1>1, <1>2

\* There is no file at the beginning.
LEMMA InitData == Init => BytesInv
  BY DEF Init, BytesInv, DataInv, Live, Rests, Writes

\* The bytes are right in every reachable state, also in the middle of a write.
THEOREM CsFileBytes == Spec => []BytesInv
<1>1. IInv /\ BlocksOwned /\ BytesInv /\ [Next]_vars => BytesInv'
  BY StepData
<1> QED
  BY <1>1, InitData, CsFileInvariant, CsFileBlocksOwned, PTL DEF Spec

\* A file that nobody writes, in the terms of its size.
LEMMA RestsIs ==
  ASSUME IInv, BytesInv, Running, NEW ip \in Ino, itype[ip] # "free", lock[ip] = NoProc
  PROVE  \E K \in Nat, k \in Nat :
            /\ K = Limit(ip) \div BSIZE /\ k = Ceil(size[ip]) /\ k <= K
            /\ Sound(MapOf(ip), data, K, size[ip], ip) /\ \A bn \in 0..K-1 : MapOf(ip)[bn] = Lookup(ip, bn)
            /\ itype[ip] = "T_CS" => Total(addrs[ip]) = k
<1>0. BSIZE \in Nat \ {0}
  BY Sizes
<1>1. PICK n \in Nat : n = size[ip]
  BY TypeFacts DEF IInv
<1>2. PICK K \in Nat : K = MaxBlocks(ip) /\ Limit(ip) = K * BSIZE
  BY MaxBlocksIs
<1>3. PICK t \in Nat : t = K * BSIZE
  BY <1>0
<1>4. t \div BSIZE = K
  <2>1. PICK r \in 0..(BSIZE - 1) : r = 0
    BY <1>0
  <2>2. t = K * BSIZE + r
    BY <1>0, <1>3, <2>1
  <2> QED
    BY <2>2, PlaceUnique
<1>5. Good(ip, n)
  BY <1>1 DEF BytesInv, DataInv, Live, Rests
<1>6. PICK L : L = MapOf(ip)
  OBVIOUS
<1>7. Sound(L, data, K, n, ip) /\ (itype[ip] = "T_CS" => Total(addrs[ip]) = Ceil(n))
  BY <1>2, <1>5, <1>6 DEF Good
<1>8. \A bn \in 0..K-1 : L[bn] = Lookup(ip, bn)
  BY <1>2, <1>6 DEF MapOf
<1>9. PICK k \in Nat : k = Ceil(n) /\ k * BSIZE < n + BSIZE
  BY CeilIs
<1>10. k <= K
  <2> SUFFICES ASSUME K < k PROVE FALSE
    OBVIOUS
  <2>1. PICK s \in Nat : s = k * BSIZE
    BY <1>0
  <2>2. t + BSIZE <= s
    BY <1>3, <2>1, Multiples
  <2>3. n <= t
    BY <1>3, <1>7 DEF Sound
  <2> QED
    BY <1>0, <1>9, <2>1, <2>2, <2>3
<1> QED
  BY <1>1, <1>2, <1>3, <1>4, <1>6, <1>7, <1>8, <1>9, <1>10

\* Between writes a file maps exactly the blocks its size needs.
THEOREM CsFileMapsSize == Spec => []MapsSize
<1>1. IInv /\ BytesInv => MapsSize
  <2> SUFFICES ASSUME IInv, BytesInv, NEW ip \in Ino, Running, itype[ip] # "free", lock[ip] = NoProc
               PROVE  /\ \A bn \in 0..Ceil(size[ip])-1 : Lookup(ip, bn) # 0
                      /\ Ceil(size[ip]) >= Limit(ip) \div BSIZE \/ Lookup(ip, Ceil(size[ip])) = 0
                      /\ itype[ip] = "T_CS" => Total(addrs[ip]) = Ceil(size[ip])
    BY DEF MapsSize
  <2>1. PICK K \in Nat, k \in Nat :
            /\ K = Limit(ip) \div BSIZE /\ k = Ceil(size[ip]) /\ k <= K
            /\ Sound(MapOf(ip), data, K, size[ip], ip) /\ \A bn \in 0..K-1 : MapOf(ip)[bn] = Lookup(ip, bn)
            /\ itype[ip] = "T_CS" => Total(addrs[ip]) = k
    BY RestsIs
  <2>a. PICK L : L = MapOf(ip)
    OBVIOUS
  <2>2. \A bn \in 0..K-1 : L[bn] # 0 <=> bn < k
    BY <2>1, <2>a DEF Sound
  <2>3. \A bn \in 0..k-1 : Lookup(ip, bn) # 0
    BY <2>1, <2>2, <2>a
  <2>4. k >= K \/ Lookup(ip, k) = 0
    <3> SUFFICES ASSUME k < K PROVE Lookup(ip, k) = 0
      OBVIOUS
    <3>1. k \in 0..K-1 /\ ~(k < k)
      OBVIOUS
    <3> QED
      BY <2>1, <2>2, <2>a, <3>1
  <2> QED
    BY <2>1, <2>3, <2>4
<1> QED
  BY <1>1, CsFileInvariant, CsFileBytes, PTL

\* The bytes of a file below its size were written to this file, the rest of its last block is zero.
THEOREM CsFileOwnBytes == Spec => []OwnBytes
<1>1. IInv /\ BytesInv => OwnBytes
  <2> SUFFICES ASSUME IInv, BytesInv, NEW ip \in Ino, Running, itype[ip] # "free", lock[ip] = NoProc,
                      NEW x \in 0..(Ceil(size[ip]) * BSIZE)-1
               PROVE  data[Lookup(ip, x \div BSIZE)][x % BSIZE] = IF x < size[ip] THEN ip ELSE 0
    BY DEF OwnBytes
  <2>0. BSIZE \in Nat \ {0}
    BY Sizes
  <2>1. PICK K \in Nat, k \in Nat :
            /\ K = Limit(ip) \div BSIZE /\ k = Ceil(size[ip]) /\ k <= K
            /\ Sound(MapOf(ip), data, K, size[ip], ip) /\ \A bn \in 0..K-1 : MapOf(ip)[bn] = Lookup(ip, bn)
            /\ itype[ip] = "T_CS" => Total(addrs[ip]) = k
    BY RestsIs
  <2>a. PICK L : L = MapOf(ip)
    OBVIOUS
  <2>2. PICK t \in Nat : t = k * BSIZE
    BY <2>0
  <2>3. PICK y \in Nat : y = x /\ y < k * BSIZE
    BY <2>1, <2>2
  <2>4. PICK q \in Nat : q = y \div BSIZE /\ q < k
    BY <2>0, <2>3, DivBelow
  <2>5. L[q] = Lookup(ip, q)
    BY <2>1, <2>4, <2>a
  <2>6. data[L[y \div BSIZE]][y % BSIZE] = IF y < size[ip] THEN ip ELSE 0
    BY <2>1, <2>3, <2>a DEF Sound
  <2> QED
    BY <2>3, <2>4, <2>5, <2>6
<1> QED
  BY <1>1, CsFileInvariant, CsFileBytes, PTL
=============================================================================
