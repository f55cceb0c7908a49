---------------------------- MODULE InodeProofs ----------------------------
(***************************************************************************)
(* Proofs about Inode, for any number of processes, names, open files,     *)
(* inodes and cache entries: types, reference counts, coherence of the     *)
(* cache, link counts, and that nothing refers to a freed inode.           *)
(*                                                                         *)
(* One invariant carries them all, because each needs the others: an inode *)
(* is freed when its count of names is zero (LinkCounts) as the cache says *)
(* (Coherent) and no other reference exists (RefCounts); LinkCounts in     *)
(* turn needs the locks, and they the reference counts.                    *)
(***************************************************************************)
EXTENDS Inode, FiniteSetTheorems, WellFoundedInduction, TLAPS

-----------------------------------------------------------------------------
(* The inductive invariant                                                 *)

Put == {"iput", "iput_ref", "iput_free", "iput_unlock", "iput_dec"}
Locked == {"create", "open", "unlink", "drop", "link"}

Call == [call : {"", "open", "unlink", "link", "create", "drop"}, name : Name \cup {NoName},
         ip : Entry \cup {0}, put : Entry \cup {0}, then : {"idle", "bad"}]

CacheEntry == [inum : Inum \cup {0}, ref : Nat, valid : BOOLEAN, type : {"free", "file"}, nlink : Nat]

\* What a process remembers (a) at each point (c) of a call.
AtOK(c, a) ==
    /\ c = "idle" => a = NoCall
    /\ c \in {"ilock", "dirlink", "bad"} \cup Locked => a.ip \in Entry /\ a.put = 0 /\ a.name \in Name
    /\ c = "ilock" => a.then = "idle" /\ a.call # ""
    /\ c = "open" => a.then = "idle" /\ a.call \in {"open", "create"}
    /\ c \in {"create", "unlink", "link"} => a.then = "idle" /\ a.call = c
    /\ c = "drop" => a.then = "idle" /\ a.call \in {"unlink", "drop"}
    /\ c = "dirlink" => a.then = "idle" /\ a.call = "link"
    /\ c = "bad" => a.then = "bad" /\ a.call = "link"
    /\ c \in Put => /\ a.put \in Entry
                    /\ \/ a.then = "idle" /\ a.ip = 0 /\ a.call = ""
                       \/ a.then = "bad" /\ a.ip \in Entry /\ a.call = "link" /\ a.name \in Name

\* The locks it holds there, and whether it has a link counted that is not there (yet
\* or any more), is about to name a new inode, or to remove a name it has found.
Holds(c, a, e) == \/ c \in Locked /\ a.ip = e
                  \/ c \in {"iput_ref", "iput_free", "iput_unlock"} /\ a.put = e
HoldsDir(c, a) == c \in {"create", "unlink"} \/ (c = "ilock" /\ a.call \in {"unlink", "create"}) \/ a.then = "bad"
Counted(c, a) == /\ a.call \in {"link", "unlink", "drop"}
                 /\ c \in {"dirlink", "bad", "drop"} \cup Put \/ (c = "ilock" /\ a.call = "drop")
Creating(c, a) == c = "create" \/ (c = "ilock" /\ a.call = "create")
Unlinking(c, a) == c = "unlink" \/ (c = "ilock" /\ a.call = "unlink")

\* The steps of iput that may still use the inode, that have seen it without links,
\* and that have seen no other reference.
Using(c) == c \in {"iput", "iput_ref", "iput_free"}
Last(c) == c \in {"iput_ref", "iput_free"}
Sole(c) == c = "iput_free"

AtInv == /\ at \in [Proc -> Call]
         /\ \A p \in Proc : AtOK(pc[p], at[p])

\* A sleep-lock is held exactly from the step that takes it to the one that lets it go.
LockInv ==
    /\ \A p \in Proc, e \in Entry : lock[e] = p <=> Holds(pc[p], at[p], e)
    /\ \A p \in Proc : dirlock = p <=> HoldsDir(pc[p], at[p])

\* ip->ref counts the references.
RefInv == \A e \in Entry : icache[e].ref = Holders(e)

\* No inode is cached twice.
Once == /\ \A e \in Entry : icache[e].ref > 0 => icache[e].inum \in Inum
        /\ \A e, g \in Entry : icache[e].ref > 0 /\ icache[g].ref > 0 /\ icache[e].inum = icache[g].inum => e = g

\* A valid entry says what the disk says, locked or not, and is not of a free inode.
Coherent ==
    /\ \A e \in Entry : icache[e].ref > 0 /\ icache[e].valid =>
         /\ dinode[icache[e].inum].type = "file" /\ icache[e].type = "file"
         /\ dinode[icache[e].inum].nlink = icache[e].nlink
    /\ \A i \in Inum : dinode[i].type = "free" => dinode[i].nlink = 0

\* What process p relies on.  Under an inode's lock the entry is valid, and the inode a
\* call works on is allocated until an iput has freed it; what that iput has found out is
\* still so when it acts on it.  Under the directory's lock the name unlink found stays,
\* and the one create did not find stays away; nobody else has the new inode before it
\* has its name.
Relies(p) ==
    /\ pc[p] \in Locked => icache[at[p].ip].valid
    /\ at[p].ip # 0 => dinode[icache[at[p].ip].inum].type = "file"
    /\ Using(pc[p]) => dinode[icache[at[p].put].inum].type = "file"
    /\ Last(pc[p]) => icache[at[p].put].valid /\ icache[at[p].put].nlink = 0
    /\ Sole(pc[p]) => icache[at[p].put].ref = 1
    /\ Unlinking(pc[p], at[p]) => dir[at[p].name] = icache[at[p].ip].inum
    /\ Creating(pc[p], at[p]) => /\ dir[at[p].name] = 0
                                 /\ dinode[icache[at[p].ip].inum].nlink = 0
                                 /\ \A q \in Proc : q # p => at[q].ip # at[p].ip

ProcInv == \A p \in Proc : Relies(p)

IInv == TypeOK /\ AtInv /\ LockInv /\ RefInv /\ Once /\ Coherent /\ NoDangling /\ ProcInv /\ LinkCounts

-----------------------------------------------------------------------------
(* Least elements and counting                                             *)

\* Every nonempty set of numbers has a least element: the intervals below its members are
\* ordered by inclusion, which is well-founded on finite sets.
LEMMA MinIn ==
  ASSUME NEW S \in SUBSET Nat, S # {}
  PROVE  Min(S) \in S
<1> DEFINE R == StrictSubsetOrdering(Nat)
           F == FiniteSubsetsOf(Nat)
           T == {1..x : x \in S}
<1>1. IsWellFoundedOn(R, F)
  BY FS_StrictSubsetOrderingWellFounded
<1>2. T \subseteq F /\ T # {}
  <2>1. \A x \in Nat : IsFiniteSet(1..x) /\ 1..x \in SUBSET Nat
    BY FS_Interval
  <2> QED
    BY <2>1 DEF FiniteSubsetsOf
<1>3. PICK t \in T : \A u \in T : ~ (<<u, t>> \in R)
  <2> HIDE DEF R, F, T
  <2> QED
    BY <1>1, <1>2, WFMin
<1>4. PICK x \in S : t = 1..x
  OBVIOUS
<1>5. ASSUME NEW y \in S, y < x
      PROVE  FALSE
  <2>1. 1..y \in SUBSET (1..x) /\ x \in 1..x /\ x \notin 1..y
    BY <1>5
  <2>2. 1..y \in F /\ 1..x \in F
    BY <1>2
  <2>3. <<1..y, 1..x>> \in R
    BY <2>1, <2>2 DEF StrictSubsetOrdering, FiniteSubsetsOf
  <2> QED
    BY <1>3, <1>4, <2>3
<1>6. \A y \in S : x <= y
  BY <1>5
<1> QED
  BY <1>6 DEF Min

\* A set that changes at one element only has one element more, one less, or as many.
LEMMA CountChange ==
  ASSUME NEW D, IsFiniteSet(D), NEW a \in D, NEW A \in SUBSET D, NEW B \in SUBSET D,
         A \ {a} = B \ {a}
  PROVE  /\ Cardinality(A) \in Nat /\ Cardinality(B) \in Nat
         /\ Cardinality(B) = Cardinality(A) + (IF a \in B THEN 1 ELSE 0) - (IF a \in A THEN 1 ELSE 0)
<1>1. IsFiniteSet(A) /\ IsFiniteSet(B)
  BY FS_Subset
<1>2. Cardinality(A) \in Nat /\ Cardinality(B) \in Nat
  BY <1>1, FS_CardinalityType
<1>3. Cardinality(A \ {a}) = IF a \in A THEN Cardinality(A) - 1 ELSE Cardinality(A)
  BY <1>1, FS_RemoveElement
<1>4. Cardinality(A \ {a}) = IF a \in B THEN Cardinality(B) - 1 ELSE Cardinality(B)
  BY <1>1, FS_RemoveElement
<1> QED
  BY <1>2, <1>3, <1>4

\* The references to an entry, and the names and pending links of an inode.
Files(e) == {f \in File : fip[f] = e}
Ips(e) == {p \in Proc : at[p].ip = e}
Puts(e) == {p \in Proc : at[p].put = e}
Names(i) == {n \in Name : dir[n] = i}

\* How many of the references are in a call, and in a file.
Own(a, e) == (IF a.ip = e THEN 1 ELSE 0) + (IF a.put = e THEN 1 ELSE 0)
Is(x, y) == IF x = y THEN 1 ELSE 0

\* Holders counts these sets.
LEMMA HoldersIs ==
  ASSUME NEW e
  PROVE  Holders(e) = Cardinality(Files(e)) + Cardinality(Ips(e)) + Cardinality(Puts(e))
  BY DEF Holders, Files, Ips, Puts

\* All these sets are finite.
LEMMA Counts ==
  ASSUME NEW e
  PROVE  /\ IsFiniteSet(Files(e)) /\ Cardinality(Files(e)) \in Nat
         /\ IsFiniteSet(Ips(e)) /\ Cardinality(Ips(e)) \in Nat
         /\ IsFiniteSet(Puts(e)) /\ Cardinality(Puts(e)) \in Nat
         /\ IsFiniteSet(Names(e)) /\ Cardinality(Names(e)) \in Nat
         /\ IsFiniteSet(Pending(e)) /\ Cardinality(Pending(e)) \in Nat
<1>1. Files(e) \in SUBSET File /\ Ips(e) \in SUBSET Proc /\ Puts(e) \in SUBSET Proc
      /\ Names(e) \in SUBSET Name /\ Pending(e) \in SUBSET Proc
  BY DEF Files, Ips, Puts, Names, Pending
<1>2. IsFiniteSet(Files(e)) /\ IsFiniteSet(Ips(e)) /\ IsFiniteSet(Puts(e))
      /\ IsFiniteSet(Names(e)) /\ IsFiniteSet(Pending(e))
  BY <1>1, FS_Subset, FiniteAssumption
<1> QED
  BY <1>2, FS_CardinalityType

\* The reference count grows and shrinks with the references of one process ...
LEMMA HoldersProc ==
  ASSUME NEW p \in Proc, NEW e, UNCHANGED fip,
         \A q \in Proc : q # p => at'[q] = at[q]
  PROVE  /\ Holders(e) \in Nat
         /\ Holders(e)' = Holders(e) + Own(at'[p], e) - Own(at[p], e)
<1>1. Files(e)' = Files(e)
  BY DEF Files
<1>2. Ips(e) \in SUBSET Proc /\ Ips(e)' \in SUBSET Proc /\ Ips(e) \ {p} = Ips(e)' \ {p}
      /\ (p \in Ips(e) <=> at[p].ip = e) /\ (p \in Ips(e)' <=> at'[p].ip = e)
  BY DEF Ips
<1>3. Puts(e) \in SUBSET Proc /\ Puts(e)' \in SUBSET Proc /\ Puts(e) \ {p} = Puts(e)' \ {p}
      /\ (p \in Puts(e) <=> at[p].put = e) /\ (p \in Puts(e)' <=> at'[p].put = e)
  BY DEF Puts
<1>4. /\ Cardinality(Ips(e)) \in Nat /\ Cardinality(Ips(e)') \in Nat
      /\ Cardinality(Ips(e)') = Cardinality(Ips(e)) + (IF p \in Ips(e)' THEN 1 ELSE 0)
                                                - (IF p \in Ips(e) THEN 1 ELSE 0)
  BY <1>2, CountChange, FiniteAssumption
<1>5. /\ Cardinality(Puts(e)) \in Nat /\ Cardinality(Puts(e)') \in Nat
      /\ Cardinality(Puts(e)') = Cardinality(Puts(e)) + (IF p \in Puts(e)' THEN 1 ELSE 0)
                                                - (IF p \in Puts(e) THEN 1 ELSE 0)
  BY <1>3, CountChange, FiniteAssumption
<1>6. Cardinality(Files(e)) \in Nat
  BY Counts
<1>7. Holders(e)' = Cardinality(Files(e)') + Cardinality(Ips(e)') + Cardinality(Puts(e)')
  BY DEF Holders, Files, Ips, Puts
<1> QED
  BY <1>1, <1>2, <1>3, <1>4, <1>5, <1>6, <1>7, HoldersIs DEF Own, Is

\* ... and of one open file.
LEMMA HoldersFile ==
  ASSUME NEW p \in Proc, NEW f \in File, NEW e,
         \A q \in Proc : q # p => at'[q] = at[q],
         \A g \in File : g # f => fip'[g] = fip[g]
  PROVE  /\ Holders(e) \in Nat
         /\ Holders(e)' = Holders(e) + Own(at'[p], e) - Own(at[p], e) + Is(fip'[f], e) - Is(fip[f], e)
<1>1. Files(e) \in SUBSET File /\ Files(e)' \in SUBSET File /\ Files(e) \ {f} = Files(e)' \ {f}
      /\ (f \in Files(e) <=> fip[f] = e) /\ (f \in Files(e)' <=> fip'[f] = e)
  BY DEF Files
<1>2. Ips(e) \in SUBSET Proc /\ Ips(e)' \in SUBSET Proc /\ Ips(e) \ {p} = Ips(e)' \ {p}
      /\ (p \in Ips(e) <=> at[p].ip = e) /\ (p \in Ips(e)' <=> at'[p].ip = e)
  BY DEF Ips
<1>3. Puts(e) \in SUBSET Proc /\ Puts(e)' \in SUBSET Proc /\ Puts(e) \ {p} = Puts(e)' \ {p}
      /\ (p \in Puts(e) <=> at[p].put = e) /\ (p \in Puts(e)' <=> at'[p].put = e)
  BY DEF Puts
<1>4. /\ Cardinality(Ips(e)) \in Nat /\ Cardinality(Ips(e)') \in Nat
      /\ Cardinality(Ips(e)') = Cardinality(Ips(e)) + (IF p \in Ips(e)' THEN 1 ELSE 0)
                                                - (IF p \in Ips(e) THEN 1 ELSE 0)
  BY <1>2, CountChange, FiniteAssumption
<1>5. /\ Cardinality(Puts(e)) \in Nat /\ Cardinality(Puts(e)') \in Nat
      /\ Cardinality(Puts(e)') = Cardinality(Puts(e)) + (IF p \in Puts(e)' THEN 1 ELSE 0)
                                                - (IF p \in Puts(e) THEN 1 ELSE 0)
  BY <1>3, CountChange, FiniteAssumption
<1>6. /\ Cardinality(Files(e)) \in Nat /\ Cardinality(Files(e)') \in Nat
      /\ Cardinality(Files(e)') = Cardinality(Files(e)) + (IF f \in Files(e)' THEN 1 ELSE 0)
                                                - (IF f \in Files(e) THEN 1 ELSE 0)
  BY <1>1, CountChange, FiniteAssumption
<1>7. Holders(e)' = Cardinality(Files(e)') + Cardinality(Ips(e)') + Cardinality(Puts(e)')
  BY DEF Holders, Files, Ips, Puts
<1> QED
  BY <1>1, <1>2, <1>3, <1>4, <1>5, <1>6, <1>7, HoldersIs DEF Own, Is

\* Process p has a link of inode i in the making.
Pends(p, i) == at[p].ip # 0 /\ icache[at[p].ip].inum = i /\ Counted(pc[p], at[p])
PendN(p, i) == IF Pends(p, i) THEN 1 ELSE 0

\* Pending has these processes.
LEMMA PendingIs == ASSUME NEW i, NEW p \in Proc PROVE p \in Pending(i) <=> Pends(p, i)
  BY DEF Pending, Pends, Counted, Put

\* The pending links change with one process ...
LEMMA PendingChange ==
  ASSUME NEW p \in Proc, NEW i,
         \A q \in Proc : q # p => at'[q] = at[q] /\ pc'[q] = pc[q],
         \A q \in Proc : q # p /\ at[q].ip # 0 => icache'[at[q].ip].inum = icache[at[q].ip].inum
  PROVE  /\ Cardinality(Pending(i)) \in Nat
         /\ Cardinality(Pending(i)') = Cardinality(Pending(i)) + PendN(p, i)' - PendN(p, i)
<1>1. \A q \in Proc : q \in Pending(i) <=> Pends(q, i)
  BY PendingIs
<1>2. \A q \in Proc : q \in Pending(i)' <=> Pends(q, i)'
  BY DEF Pending, Pends, Counted, Put
<1>3. \A q \in Proc : q # p => (Pends(q, i)' <=> Pends(q, i))
  BY DEF Pends, Counted
<1>4. Pending(i) \in SUBSET Proc /\ Pending(i)' \in SUBSET Proc
  BY DEF Pending
<1>5. Pending(i) \ {p} = Pending(i)' \ {p}
  BY <1>1, <1>2, <1>3, <1>4
<1>6. /\ Cardinality(Pending(i)) \in Nat
      /\ Cardinality(Pending(i)') = Cardinality(Pending(i)) + (IF p \in Pending(i)' THEN 1 ELSE 0)
                                                - (IF p \in Pending(i) THEN 1 ELSE 0)
  BY <1>4, <1>5, CountChange, FiniteAssumption
<1> QED
  BY <1>1, <1>2, <1>6 DEF PendN

\* ... and the names with one entry of the directory.
LEMMA NamesChange ==
  ASSUME NEW n \in Name, NEW i, \A m \in Name : m # n => dir'[m] = dir[m]
  PROVE  /\ Cardinality(Names(i)) \in Nat
         /\ Cardinality(Names(i)') = Cardinality(Names(i)) + Is(dir'[n], i) - Is(dir[n], i)
<1>1. Names(i) \in SUBSET Name /\ Names(i)' \in SUBSET Name /\ Names(i) \ {n} = Names(i)' \ {n}
      /\ (n \in Names(i) <=> dir[n] = i) /\ (n \in Names(i)' <=> dir'[n] = i)
  BY DEF Names
<1>2. /\ Cardinality(Names(i)) \in Nat
      /\ Cardinality(Names(i)') = Cardinality(Names(i)) + (IF n \in Names(i)' THEN 1 ELSE 0)
                                                - (IF n \in Names(i) THEN 1 ELSE 0)
  BY <1>1, CountChange, FiniteAssumption
<1> QED
  BY <1>1, <1>2 DEF Is

-----------------------------------------------------------------------------
(* What the counts say                                                     *)

\* An entry somebody refers to is in use, and the only reference is the only one.
LEMMA Refs ==
  ASSUME RefInv
  PROVE  /\ \A e \in Entry, f \in File : fip[f] = e => icache[e].ref > 0
         /\ \A e \in Entry, p \in Proc : at[p].ip = e \/ at[p].put = e => icache[e].ref > 0
         /\ \A e \in Entry, p \in Proc : at[p].put = e /\ icache[e].ref = 1 =>
              /\ \A f \in File : fip[f] # e
              /\ \A q \in Proc : at[q].ip # e /\ (q # p => at[q].put # e)
<1> SUFFICES ASSUME NEW e \in Entry
             PROVE  /\ \A f \in File : fip[f] = e => icache[e].ref > 0
                    /\ \A p \in Proc : at[p].ip = e \/ at[p].put = e => icache[e].ref > 0
                    /\ \A p \in Proc : at[p].put = e /\ icache[e].ref = 1 =>
                         /\ \A f \in File : fip[f] # e
                         /\ \A q \in Proc : at[q].ip # e /\ (q # p => at[q].put # e)
  OBVIOUS
<1> DEFINE F == Files(e)  I == Ips(e)  P == Puts(e)
<1>1. icache[e].ref = Cardinality(F) + Cardinality(I) + Cardinality(P)
  BY HoldersIs DEF RefInv
<1>2. /\ IsFiniteSet(F) /\ Cardinality(F) \in Nat
      /\ IsFiniteSet(I) /\ Cardinality(I) \in Nat
      /\ IsFiniteSet(P) /\ Cardinality(P) \in Nat
  BY Counts
<1>3. /\ Cardinality(F) = 0 <=> F = {}
      /\ Cardinality(I) = 0 <=> I = {}
      /\ Cardinality(P) = 0 <=> P = {}
  BY <1>2, FS_EmptySet
<1>4. Cardinality(P) = 1 <=> \E x : P = {x}
  BY <1>2, FS_Singleton
<1>5. /\ \A f \in File : f \in F <=> fip[f] = e
      /\ \A p \in Proc : p \in I <=> at[p].ip = e
      /\ \A p \in Proc : p \in P <=> at[p].put = e
  BY DEF Files, Ips, Puts
<1> HIDE DEF F, I, P
<1>6. /\ \A f \in File : fip[f] = e => icache[e].ref > 0
      /\ \A p \in Proc : at[p].ip = e \/ at[p].put = e => icache[e].ref > 0
  BY <1>1, <1>2, <1>3, <1>5
<1>7. ASSUME NEW p \in Proc, at[p].put = e, icache[e].ref = 1
      PROVE  /\ \A f \in File : fip[f] # e
             /\ \A q \in Proc : at[q].ip # e /\ (q # p => at[q].put # e)
  <2>1. p \in P /\ Cardinality(P) # 0
    BY <1>3, <1>5, <1>7
  <2>2. Cardinality(P) = 1 /\ Cardinality(F) = 0 /\ Cardinality(I) = 0
    BY <2>1, <1>1, <1>2, <1>7
  <2>3. P = {p} /\ F = {} /\ I = {}
    BY <2>1, <2>2, <1>3, <1>4
  <2> QED
    BY <2>3, <1>5
<1> QED
  BY <1>6, <1>7

\* An inode without links has no name and no link being made or removed.
LEMMA Links ==
  ASSUME LinkCounts, Running
  PROVE  \A i \in Inum :
            /\ dinode[i].nlink \in Nat
            /\ dinode[i].nlink = 0 => /\ \A n \in Name : dir[n] # i
                                      /\ \A p \in Proc : ~ Pends(p, i)
<1> SUFFICES ASSUME NEW i \in Inum
             PROVE  /\ dinode[i].nlink \in Nat
                    /\ dinode[i].nlink = 0 => /\ \A n \in Name : dir[n] # i
                                              /\ \A p \in Proc : ~ Pends(p, i)
  OBVIOUS
<1> DEFINE N == Names(i)  P == Pending(i)
<1>1. dinode[i].nlink = Cardinality(N) + Cardinality(P)
  BY DEF LinkCounts, Names
<1>2. /\ IsFiniteSet(N) /\ Cardinality(N) \in Nat
      /\ IsFiniteSet(P) /\ Cardinality(P) \in Nat
  BY Counts
<1>3. /\ Cardinality(N) = 0 <=> N = {}
      /\ Cardinality(P) = 0 <=> P = {}
  BY <1>2, FS_EmptySet
<1>4. \A p \in Proc : p \in P <=> Pends(p, i)
  BY PendingIs
<1>5. \A n \in Name : n \in N <=> dir[n] = i
  BY DEF Names
<1> HIDE DEF N, P
<1>6. dinode[i].nlink \in Nat /\ (dinode[i].nlink = 0 => Cardinality(N) = 0 /\ Cardinality(P) = 0)
  BY <1>1, <1>2
<1>7. dinode[i].nlink = 0 => N = {} /\ P = {}
  BY <1>3, <1>6
<1> QED
  BY <1>4, <1>5, <1>6, <1>7

\* LinkCounts in the next state, from how the two counts change.
LEMMA LinkStep ==
  ASSUME LinkCounts, Running, NEW i \in Inum, NEW n \in Name, NEW p \in Proc,
         \A m \in Name : m # n => dir'[m] = dir[m],
         \A q \in Proc : q # p => at'[q] = at[q] /\ pc'[q] = pc[q],
         \A q \in Proc : q # p /\ at[q].ip # 0 => icache'[at[q].ip].inum = icache[at[q].ip].inum,
         dinode'[i].nlink = dinode[i].nlink + Is(dir'[n], i) - Is(dir[n], i)
                                            + PendN(p, i)' - PendN(p, i)
  PROVE  dinode'[i].nlink = Cardinality(Names(i)') + Cardinality(Pending(i)')
<1>1. dinode[i].nlink = Cardinality(Names(i)) + Cardinality(Pending(i))
  BY DEF LinkCounts, Names
<1>2. Cardinality(Names(i)') = Cardinality(Names(i)) + Is(dir'[n], i) - Is(dir[n], i)
  BY NamesChange
<1>3. Cardinality(Pending(i)') = Cardinality(Pending(i)) + PendN(p, i)' - PendN(p, i)
  BY PendingChange
<1>4. Cardinality(Names(i)) \in Nat /\ Cardinality(Pending(i)) \in Nat
  BY Counts
<1> QED
  BY <1>1, <1>2, <1>3, <1>4 DEF PendN, Is

\* The same when the directory stays as it is.
LEMMA LinkSame ==
  ASSUME LinkCounts, Running, NEW i \in Inum, NEW p \in Proc, UNCHANGED dir,
         \A q \in Proc : q # p => at'[q] = at[q] /\ pc'[q] = pc[q],
         \A q \in Proc : q # p /\ at[q].ip # 0 => icache'[at[q].ip].inum = icache[at[q].ip].inum,
         dinode'[i].nlink = dinode[i].nlink + PendN(p, i)' - PendN(p, i)
  PROVE  dinode'[i].nlink = Cardinality(Names(i)') + Cardinality(Pending(i)')
<1>1. dinode[i].nlink = Cardinality(Names(i)) + Cardinality(Pending(i))
  BY DEF LinkCounts, Names
<1>2. Names(i)' = Names(i)
  BY DEF Names
<1>3. Cardinality(Pending(i)') = Cardinality(Pending(i)) + PendN(p, i)' - PendN(p, i)
  BY PendingChange
<1>4. Cardinality(Names(i)) \in Nat /\ Cardinality(Pending(i)) \in Nat
  BY Counts
<1> QED
  BY <1>1, <1>2, <1>3, <1>4 DEF PendN, Is

-----------------------------------------------------------------------------
(* iget                                                                    *)

\* iget takes the entry that caches the inode, or else an unused one.
LEMMA IgetChoice ==
  ASSUME TypeOK, NEW i, Hits(i) \cup Empty # {}
  PROVE  /\ IgetEntry(i) \in Entry
         /\ \/ icache[IgetEntry(i)].ref > 0 /\ icache[IgetEntry(i)].inum = i
            \/ icache[IgetEntry(i)].ref = 0 /\ Hits(i) = {}
<1>1. Hits(i) \in SUBSET Nat /\ Empty \in SUBSET Nat
  BY SizesAssumption DEF Hits, Empty, Entry
<1>2. CASE Hits(i) # {}
  <2>1. IgetEntry(i) \in Hits(i)
    BY <1>1, <1>2, MinIn DEF IgetEntry
  <2> QED
    BY <2>1 DEF Hits
<1>3. CASE Hits(i) = {}
  <2>1. IgetEntry(i) \in Empty
    BY <1>1, <1>3, MinIn DEF IgetEntry
  <2> QED
    BY <2>1, <1>3 DEF Empty
<1> QED
  BY <1>2, <1>3

\* One more reference: to the entry as it was, or to an unused one that nothing else
\* of the inode is in.
IgetStep(i, e) ==
    /\ icache' \in [Entry -> CacheEntry]
    /\ \A g \in Entry : g # e => icache'[g] = icache[g]
    /\ icache'[e].ref = icache[e].ref + 1
    /\ icache'[e].inum = i
    /\ \/ /\ icache[e].ref > 0 /\ icache[e].inum = i
          /\ icache'[e].valid = icache[e].valid
          /\ icache'[e].type = icache[e].type /\ icache'[e].nlink = icache[e].nlink
       \/ /\ icache[e].ref = 0 /\ icache'[e].valid = FALSE
          /\ \A g \in Entry : ~ (icache[g].ref > 0 /\ icache[g].inum = i)

\* That is what iget does.
LEMMA IgetDoes ==
  ASSUME TypeOK, NEW i \in Inum, iget(i)
  PROVE  IgetEntry(i) \in Entry /\ IgetStep(i, IgetEntry(i))
<1> DEFINE e == IgetEntry(i)
<1>1. e \in Entry /\ \/ icache[e].ref > 0 /\ icache[e].inum = i
                     \/ icache[e].ref = 0 /\ Hits(i) = {}
  BY IgetChoice DEF iget
<1>2. icache' = IF icache[e].ref > 0 THEN [icache EXCEPT ![e].ref = @ + 1]
                ELSE [icache EXCEPT ![e] = [inum |-> i, ref |-> 1, valid |-> FALSE,
                                            type |-> "free", nlink |-> 0]]
  BY DEF iget
<1> HIDE DEF e
<1>3. CASE icache[e].ref > 0 /\ icache[e].inum = i
  <2>1. icache' = [icache EXCEPT ![e].ref = @ + 1]
    BY <1>2, <1>3
  <2> QED
    BY <2>1, <1>1, <1>3 DEF IgetStep, TypeOK, CacheEntry, e
<1>4. CASE icache[e].ref = 0 /\ Hits(i) = {}
  <2>1. icache' = [icache EXCEPT ![e] = [inum |-> i, ref |-> 1, valid |-> FALSE, type |-> "free", nlink |-> 0]]
    BY <1>2, <1>4
  <2>2. \A g \in Entry : ~ (icache[g].ref > 0 /\ icache[g].inum = i)
    BY <1>4 DEF Hits
  <2> QED
    BY <2>1, <2>2, <1>1, <1>4 DEF IgetStep, TypeOK, CacheEntry, e
<1> QED
  BY <1>1, <1>3, <1>4

-----------------------------------------------------------------------------
(* What one process's step leaves alone                                    *)

\* A process outside any call refers to nothing.
LEMMA NoCallIs ==
  /\ NoCall \in Call /\ NoCall.ip = 0 /\ NoCall.put = 0 /\ NoCall.then = "idle" /\ NoCall.call = ""
  /\ \A e \in Entry : /\ [NoCall EXCEPT !.put = e] \in Call /\ [NoCall EXCEPT !.put = e].ip = 0
                       /\ [NoCall EXCEPT !.put = e].put = e /\ [NoCall EXCEPT !.put = e].then = "idle"
                       /\ [NoCall EXCEPT !.put = e].call = ""
<1>1. NoCall \in Call /\ NoCall.ip = 0 /\ NoCall.put = 0 /\ NoCall.then = "idle" /\ NoCall.call = ""
  BY DEF NoCall, Call
<1>2. ASSUME NEW e \in Entry
      PROVE  /\ [NoCall EXCEPT !.put = e] \in Call /\ [NoCall EXCEPT !.put = e].ip = 0
             /\ [NoCall EXCEPT !.put = e].put = e /\ [NoCall EXCEPT !.put = e].then = "idle"
             /\ [NoCall EXCEPT !.put = e].call = ""
  BY DEF NoCall, Call
<1> QED
  BY <1>1, <1>2

\* A call that has found its inode, in entry e.
Found(a, c, n, e) == /\ a \in Call /\ a.call = c /\ a.name = n /\ a.ip = e
                     /\ a.put = 0 /\ a.then = "idle"

\* Enter leaves the process with the entry, waiting for its lock.
LEMMA EnterDoes ==
  ASSUME TypeOK, at \in [Proc -> Call], NEW p \in Proc, NEW c \in {"open", "unlink", "link", "create"}, NEW n \in Name,
         NEW i, IgetEntry(i) \in Entry, Enter(p, c, n, i)
  PROVE  /\ pc'[p] = "ilock" /\ Found(at'[p], c, n, IgetEntry(i))
         /\ pc' \in [Proc -> PC] /\ at' \in [Proc -> Call]
         /\ \A q \in Proc : q # p => at'[q] = at[q] /\ pc'[q] = pc[q]
<1> DEFINE E == IgetEntry(i)
           a == [NoCall EXCEPT !.call = c, !.name = n, !.ip = E]
<1>1. at' = [at EXCEPT ![p] = a] /\ pc' = [pc EXCEPT ![p] = "ilock"]
  BY DEF Enter
<1>2. Found(a, c, n, E)
  <2> HIDE DEF E
  <2>1. E \in Entry
    BY DEF E
  <2> QED
    BY <2>1 DEF Found, NoCall, Call
<1> HIDE DEF a, E
<1>3. a \in Call
  BY <1>2 DEF Found
<1>4. pc \in [Proc -> PC] /\ "ilock" \in PC
  BY DEF TypeOK, PC
<1>5. at'[p] = a /\ pc'[p] = "ilock" /\ pc' \in [Proc -> PC] /\ at' \in [Proc -> Call]
  BY <1>1, <1>3, <1>4
<1>6. \A q \in Proc : q # p => at'[q] = at[q] /\ pc'[q] = pc[q]
  BY <1>1, <1>4
<1> QED
  BY <1>2, <1>5, <1>6 DEF E

\* Everything a process or an open file refers to is in use.
LEMMA Facts ==
  ASSUME IInv
  PROVE  /\ 0 \notin Entry /\ 0 \notin Inum
         /\ \A q \in Proc : at[q] \in Call /\ AtOK(pc[q], at[q])
         /\ \A q \in Proc : at[q].ip # 0 => /\ at[q].ip \in Entry /\ icache[at[q].ip].ref > 0
                                            /\ icache[at[q].ip].inum \in Inum
                                            /\ dinode[icache[at[q].ip].inum].type = "file"
         /\ \A q \in Proc : at[q].put # 0 => /\ at[q].put \in Entry /\ icache[at[q].put].ref > 0
                                             /\ icache[at[q].put].inum \in Inum
         /\ \A f \in File : fip[f] # 0 => /\ fip[f] \in Entry /\ icache[fip[f]].ref > 0
                                          /\ icache[fip[f]].inum \in Inum
                                          /\ dinode[icache[fip[f]].inum].type = "file"
         /\ \A n \in Name : dir[n] # 0 => dir[n] \in Inum /\ dinode[dir[n]].type = "file"
<1>1. 0 \notin Entry /\ 0 \notin Inum
  BY SizesAssumption DEF Entry, Inum
<1>2. \A q \in Proc : at[q] \in Call /\ AtOK(pc[q], at[q])
  BY DEF IInv, AtInv
<1>3. \A q \in Proc : (at[q].ip # 0 => at[q].ip \in Entry) /\ (at[q].put # 0 => at[q].put \in Entry)
  BY <1>2 DEF Call
<1>4. \A f \in File : fip[f] # 0 => fip[f] \in Entry
  BY DEF IInv, TypeOK
<1>5. ASSUME NEW q \in Proc, at[q].ip # 0
      PROVE  /\ icache[at[q].ip].ref > 0 /\ icache[at[q].ip].inum \in Inum
             /\ dinode[icache[at[q].ip].inum].type = "file"
  BY <1>3, <1>5, Refs DEF IInv, Once, ProcInv, Relies
<1>6. ASSUME NEW q \in Proc, at[q].put # 0
      PROVE  icache[at[q].put].ref > 0 /\ icache[at[q].put].inum \in Inum
  BY <1>3, <1>6, Refs DEF IInv, Once
<1>7. ASSUME NEW f \in File, fip[f] # 0
      PROVE  /\ icache[fip[f]].ref > 0 /\ icache[fip[f]].inum \in Inum
             /\ dinode[icache[fip[f]].inum].type = "file"
  BY <1>4, <1>7, Refs DEF IInv, Once, NoDangling
<1>8. \A n \in Name : dir[n] # 0 => dir[n] \in Inum /\ dinode[dir[n]].type = "file"
  BY DEF IInv, TypeOK, NoDangling
<1> QED
  BY <1>1, <1>2, <1>3, <1>4, <1>5, <1>6, <1>7, <1>8

\* Reference counts that follow the references of one process, or of one process and one file.
LEMMA RefStep ==
  ASSUME RefInv, NEW p \in Proc, UNCHANGED fip,
         \A q \in Proc : q # p => at'[q] = at[q] /\ pc'[q] = pc[q],
         \A e \in Entry : icache'[e].ref = icache[e].ref + Own(at'[p], e) - Own(at[p], e)
  PROVE  RefInv'
<1> SUFFICES ASSUME NEW e \in Entry
             PROVE  icache'[e].ref = Holders(e)'
  BY DEF RefInv
<1>1. Holders(e)' = Holders(e) + Own(at'[p], e) - Own(at[p], e)
  BY HoldersProc
<1>2. icache[e].ref = Holders(e)
  BY DEF RefInv
<1> QED
  BY <1>1, <1>2

\* The same for a process and an open file.
LEMMA RefStepFile ==
  ASSUME RefInv, NEW p \in Proc, NEW f \in File,
         \A g \in File : g # f => fip'[g] = fip[g],
         \A q \in Proc : q # p => at'[q] = at[q] /\ pc'[q] = pc[q],
         \A e \in Entry : icache'[e].ref = icache[e].ref + Own(at'[p], e) - Own(at[p], e)
                                                         + Is(fip'[f], e) - Is(fip[f], e)
  PROVE  RefInv'
<1> SUFFICES ASSUME NEW e \in Entry
             PROVE  icache'[e].ref = Holders(e)'
  BY DEF RefInv
<1>1. Holders(e)' = Holders(e) + Own(at'[p], e) - Own(at[p], e) + Is(fip'[f], e) - Is(fip[f], e)
  BY HoldersFile
<1>2. icache[e].ref = Holders(e)
  BY DEF RefInv
<1> QED
  BY <1>1, <1>2

\* Locks that follow what one process holds.
LEMMA LockStep ==
  ASSUME LockInv, NEW p \in Proc,
         \A q \in Proc : q # p => at'[q] = at[q] /\ pc'[q] = pc[q],
         \A e \in Entry : lock'[e] = p <=> Holds(pc'[p], at'[p], e),
         \A e \in Entry, q \in Proc : q # p => (lock'[e] = q <=> lock[e] = q),
         dirlock' = p <=> HoldsDir(pc'[p], at'[p]),
         \A q \in Proc : q # p => (dirlock' = q <=> dirlock = q)
  PROVE  LockInv'
<1>1. ASSUME NEW q \in Proc, NEW e \in Entry
      PROVE  lock'[e] = q <=> Holds(pc'[q], at'[q], e)
  <2>1. CASE q = p
    BY <2>1
  <2>2. CASE q # p
    <3>1. at'[q] = at[q] /\ pc'[q] = pc[q] /\ (lock'[e] = q <=> lock[e] = q)
      BY <2>2
    <3>2. lock[e] = q <=> Holds(pc[q], at[q], e)
      BY DEF LockInv
    <3> QED
      BY <3>1, <3>2
  <2> QED
    BY <2>1, <2>2
<1>2. ASSUME NEW q \in Proc
      PROVE  dirlock' = q <=> HoldsDir(pc'[q], at'[q])
  <2>1. CASE q = p
    BY <2>1
  <2>2. CASE q # p
    <3>1. at'[q] = at[q] /\ pc'[q] = pc[q] /\ (dirlock' = q <=> dirlock = q)
      BY <2>2
    <3>2. dirlock = q <=> HoldsDir(pc[q], at[q])
      BY DEF LockInv
    <3> QED
      BY <3>1, <3>2
  <2> QED
    BY <2>1, <2>2
<1> QED
  BY <1>1, <1>2 DEF LockInv

\* The directory's lock stays, is taken or is let go by p.
DirStep(p) ==
    \/ UNCHANGED dirlock /\ (HoldsDir(pc'[p], at'[p]) <=> HoldsDir(pc[p], at[p]))
    \/ dirlock = NoProc /\ dirlock' = p /\ HoldsDir(pc'[p], at'[p])
    \/ dirlock' = NoProc /\ HoldsDir(pc[p], at[p]) /\ ~ HoldsDir(pc'[p], at'[p])

\* In each of these cases its holder is known again.
LEMMA DirSteps ==
  ASSUME IInv, NEW p \in Proc, DirStep(p)
  PROVE  /\ dirlock' = p <=> HoldsDir(pc'[p], at'[p])
         /\ \A q \in Proc : q # p => (dirlock' = q <=> dirlock = q)
         /\ dirlock' \in Proc \cup {NoProc}
<1>1. dirlock = p <=> HoldsDir(pc[p], at[p])
  BY DEF IInv, LockInv
<1>2. dirlock \in Proc \cup {NoProc}
  BY DEF IInv, TypeOK
<1> QED
  BY <1>1, <1>2, SentinelAssumption DEF DirStep

\* A step that leaves the inodes' locks alone,
LEMMA LockSame ==
  ASSUME IInv, NEW p \in Proc, UNCHANGED lock, DirStep(p),
         \A q \in Proc : q # p => at'[q] = at[q] /\ pc'[q] = pc[q],
         \A x \in Entry : Holds(pc'[p], at'[p], x) <=> Holds(pc[p], at[p], x)
  PROVE  LockInv'
<1>1. \A x \in Entry : lock[x] = p <=> Holds(pc[p], at[p], x)
  BY DEF IInv, LockInv
<1>2. \A x \in Entry : lock'[x] = p <=> Holds(pc'[p], at'[p], x)
  BY <1>1
<1> QED
  BY <1>2, DirSteps, LockStep DEF IInv

\* acquiresleep of one,
LEMMA LockTake ==
  ASSUME IInv, NEW p \in Proc, NEW e \in Entry, lock[e] = NoProc, lock' = [lock EXCEPT ![e] = p], DirStep(p),
         \A q \in Proc : q # p => at'[q] = at[q] /\ pc'[q] = pc[q],
         \A x \in Entry : ~ Holds(pc[p], at[p], x),
         \A x \in Entry : Holds(pc'[p], at'[p], x) <=> x = e
  PROVE  LockInv'
<1>1. \A x \in Entry : lock[x] # p
  BY DEF IInv, LockInv
<1>2. /\ \A x \in Entry : lock'[x] = p <=> x = e
      /\ \A x \in Entry, q \in Proc : q # p => (lock'[x] = q <=> lock[x] = q)
  BY <1>1, SentinelAssumption DEF IInv, TypeOK
<1> QED
  BY <1>2, DirSteps, LockStep DEF IInv

\* and releasesleep of one.
LEMMA LockFree ==
  ASSUME IInv, NEW p \in Proc, NEW e \in Entry, lock' = [lock EXCEPT ![e] = NoProc], DirStep(p),
         \A q \in Proc : q # p => at'[q] = at[q] /\ pc'[q] = pc[q],
         \A x \in Entry : Holds(pc[p], at[p], x) <=> x = e,
         \A x \in Entry : ~ Holds(pc'[p], at'[p], x)
  PROVE  LockInv'
<1>1. \A x \in Entry : lock[x] = p <=> x = e
  BY DEF IInv, LockInv
<1>2. /\ \A x \in Entry : lock'[x] # p
      /\ \A x \in Entry, q \in Proc : q # p => (lock'[x] = q <=> lock[x] = q)
  BY <1>1, SentinelAssumption DEF IInv, TypeOK
<1> QED
  BY <1>2, DirSteps, LockStep DEF IInv

\* Link counts that follow the links one process is making or removing.
LEMMA LinkFrame ==
  ASSUME LinkCounts, Running, NEW p \in Proc, UNCHANGED dir,
         \A q \in Proc : q # p => at'[q] = at[q] /\ pc'[q] = pc[q],
         \A q \in Proc : q # p /\ at[q].ip # 0 => icache'[at[q].ip].inum = icache[at[q].ip].inum,
         \A i \in Inum : dinode'[i].nlink = dinode[i].nlink + PendN(p, i)' - PendN(p, i)
  PROVE  LinkCounts'
<1> SUFFICES ASSUME NEW i \in Inum
             PROVE  dinode'[i].nlink = Cardinality(Names(i)') + Cardinality(Pending(i)')
  BY DEF LinkCounts, Names
<1>1. dinode'[i].nlink = dinode[i].nlink + PendN(p, i)' - PendN(p, i)
  OBVIOUS
<1> QED
  BY <1>1, LinkSame

\* The same for a process and a name.
LEMMA LinkFrameDir ==
  ASSUME LinkCounts, Running, NEW p \in Proc, NEW n \in Name,
         \A m \in Name : m # n => dir'[m] = dir[m],
         \A q \in Proc : q # p => at'[q] = at[q] /\ pc'[q] = pc[q],
         \A q \in Proc : q # p /\ at[q].ip # 0 => icache'[at[q].ip].inum = icache[at[q].ip].inum,
         \A i \in Inum : dinode'[i].nlink = dinode[i].nlink + Is(dir'[n], i) - Is(dir[n], i)
                                                            + PendN(p, i)' - PendN(p, i)
  PROVE  LinkCounts'
<1> SUFFICES ASSUME NEW i \in Inum
             PROVE  dinode'[i].nlink = Cardinality(Names(i)') + Cardinality(Pending(i)')
  BY DEF LinkCounts, Names
<1>1. dinode'[i].nlink = dinode[i].nlink + Is(dir'[n], i) - Is(dir[n], i) + PendN(p, i)' - PendN(p, i)
  OBVIOUS
<1> QED
  BY <1>1, LinkStep

\* What a process at each point of its call can rely on.
LEMMA AtFacts ==
  ASSUME IInv, NEW q \in Proc
  PROVE  /\ pc[q] \in Locked => /\ at[q].ip \in Entry /\ icache[at[q].ip].valid /\ icache[at[q].ip].ref > 0
                                /\ Holds(pc[q], at[q], at[q].ip)
         /\ Using(pc[q]) => /\ at[q].put \in Entry /\ icache[at[q].put].ref > 0 /\ icache[at[q].put].inum \in Inum
                            /\ dinode[icache[at[q].put].inum].type = "file"
         /\ Last(pc[q]) => /\ at[q].put \in Entry /\ icache[at[q].put].ref > 0 /\ Holds(pc[q], at[q], at[q].put)
                           /\ icache[at[q].put].valid /\ icache[at[q].put].nlink = 0
         /\ Sole(pc[q]) => Last(pc[q]) /\ icache[at[q].put].ref = 1
         /\ Unlinking(pc[q], at[q]) =>
              /\ at[q].ip \in Entry /\ at[q].name \in Name /\ icache[at[q].ip].ref > 0 /\ HoldsDir(pc[q], at[q])
              /\ dir[at[q].name] = icache[at[q].ip].inum
         /\ Creating(pc[q], at[q]) =>
              /\ at[q].ip \in Entry /\ at[q].name \in Name /\ icache[at[q].ip].ref > 0 /\ HoldsDir(pc[q], at[q])
              /\ icache[at[q].ip].inum \in Inum
              /\ dir[at[q].name] = 0 /\ dinode[icache[at[q].ip].inum].nlink = 0
              /\ \A r \in Proc : r # q => at[r].ip # at[q].ip
<1>1. AtOK(pc[q], at[q]) /\ 0 \notin Entry
  BY Facts
<1>2. pc[q] \in Locked => at[q].ip \in Entry /\ Holds(pc[q], at[q], at[q].ip)
  BY <1>1 DEF AtOK, Locked, Holds
<1>3. Using(pc[q]) => at[q].put \in Entry
  BY <1>1 DEF AtOK, Put, Using
<1>4. Last(pc[q]) => at[q].put \in Entry /\ Holds(pc[q], at[q], at[q].put)
  BY <1>1 DEF AtOK, Put, Last, Holds
<1>5. Sole(pc[q]) => Last(pc[q])
  BY DEF Sole, Last
<1>6. Unlinking(pc[q], at[q]) => at[q].ip \in Entry /\ at[q].name \in Name /\ HoldsDir(pc[q], at[q])
  BY <1>1 DEF AtOK, Locked, Unlinking, HoldsDir
<1>7. Creating(pc[q], at[q]) => at[q].ip \in Entry /\ at[q].name \in Name /\ HoldsDir(pc[q], at[q])
  BY <1>1 DEF AtOK, Locked, Creating, HoldsDir
<1>8. /\ at[q].ip \in Entry => icache[at[q].ip].ref > 0 /\ icache[at[q].ip].inum \in Inum
      /\ at[q].put \in Entry => icache[at[q].put].ref > 0 /\ icache[at[q].put].inum \in Inum
  BY <1>1, Facts
<1>9. pc[q] \in Locked => icache[at[q].ip].valid
  BY DEF IInv, ProcInv, Relies
<1>10. Using(pc[q]) => dinode[icache[at[q].put].inum].type = "file"
  BY DEF IInv, ProcInv, Relies
<1>11. /\ Last(pc[q]) => icache[at[q].put].valid /\ icache[at[q].put].nlink = 0
       /\ Sole(pc[q]) => icache[at[q].put].ref = 1
  BY DEF IInv, ProcInv, Relies
<1>12. /\ Unlinking(pc[q], at[q]) => dir[at[q].name] = icache[at[q].ip].inum
       /\ Creating(pc[q], at[q]) => /\ dir[at[q].name] = 0 /\ dinode[icache[at[q].ip].inum].nlink = 0
                                    /\ \A r \in Proc : r # q => at[r].ip # at[q].ip
  BY DEF IInv, ProcInv, Relies
<1> QED
  BY <1>2, <1>3, <1>4, <1>5, <1>6, <1>7, <1>8, <1>9, <1>10, <1>11, <1>12

\* What processes remember, when one moves.
LEMMA AtStep ==
  ASSUME IInv, NEW p \in Proc, at' \in [Proc -> Call], AtOK(pc'[p], at'[p]),
         \A q \in Proc : q # p => at'[q] = at[q] /\ pc'[q] = pc[q]
  PROVE  AtInv'
<1>1. ASSUME NEW q \in Proc
      PROVE  AtOK(pc'[q], at'[q])
  <2>1. CASE q = p
    BY <2>1
  <2>2. CASE q # p
    <3>1. at'[q] = at[q] /\ pc'[q] = pc[q]
      BY <2>2
    <3> QED
      BY <3>1, Facts
  <2> QED
    BY <2>1, <2>2
<1> QED
  BY <1>1 DEF AtInv

\* The entries in use, except x, stay what they are to those who use them.
Keeps(x) ==
    \A e \in Entry : icache[e].ref > 0 /\ e # x =>
        /\ icache'[e].inum = icache[e].inum
        /\ icache[e].valid => icache'[e].valid
        /\ dinode[icache[e].inum].type = "file" => dinode'[icache[e].inum].type = "file"

\* The step of one process takes nothing away from the others that they rely on.
LEMMA OthersKeep ==
  ASSUME IInv, NEW p \in Proc, NEW x, Keeps(x),
         \A q \in Proc : q # p => at'[q] = at[q] /\ pc'[q] = pc[q],
         x \in Entry => \A q \in Proc : at[q].ip # x /\ (q # p => at[q].put # x),
         \A q \in Proc : q # p /\ Last(pc[q]) => icache'[at[q].put].nlink = icache[at[q].put].nlink,
         \A q \in Proc : q # p /\ Sole(pc[q]) => icache'[at[q].put].ref = icache[at[q].put].ref,
         \A q \in Proc : q # p /\ HoldsDir(pc[q], at[q]) => UNCHANGED dir /\ at'[p].ip \in {0, at[p].ip},
         \A e \in Entry : icache[e].ref > 0 /\ e # at[p].ip =>
                             dinode'[icache[e].inum].nlink = dinode[icache[e].inum].nlink
  PROVE  \A q \in Proc : q # p => Relies(q)'
<1> SUFFICES ASSUME NEW q \in Proc, q # p
             PROVE  Relies(q)'
  OBVIOUS
<1>1. at'[q] = at[q] /\ pc'[q] = pc[q] /\ 0 \notin Entry
  BY Facts
<1>2. ASSUME at[q].ip # 0
      PROVE  /\ at[q].ip \in Entry /\ icache[at[q].ip].ref > 0 /\ icache'[at[q].ip].inum = icache[at[q].ip].inum
             /\ icache[at[q].ip].valid => icache'[at[q].ip].valid
             /\ dinode'[icache'[at[q].ip].inum].type = "file"
  <2>1. /\ at[q].ip \in Entry /\ icache[at[q].ip].ref > 0 /\ dinode[icache[at[q].ip].inum].type = "file"
        /\ at[q].ip # x
    BY <1>2, Facts
  <2> QED
    BY <2>1 DEF Keeps
<1>3. ASSUME at[q].put \in Entry
      PROVE  /\ icache'[at[q].put].inum = icache[at[q].put].inum
             /\ icache[at[q].put].valid => icache'[at[q].put].valid
             /\ dinode[icache[at[q].put].inum].type = "file" => dinode'[icache[at[q].put].inum].type = "file"
  <2>1. icache[at[q].put].ref > 0 /\ at[q].put # x
    BY <1>1, <1>3, Facts
  <2> QED
    BY <1>3, <2>1 DEF Keeps
<1>4. pc[q] \in Locked => icache'[at[q].ip].valid
  BY <1>1, <1>2, AtFacts
<1>5. Using(pc[q]) => dinode'[icache'[at[q].put].inum].type = "file"
  BY <1>3, AtFacts
<1>6. Last(pc[q]) => icache'[at[q].put].valid /\ icache'[at[q].put].nlink = 0
  BY <1>3, AtFacts
<1>7. Sole(pc[q]) => icache'[at[q].put].ref = 1
  BY AtFacts
<1>8. Unlinking(pc[q], at[q]) => dir'[at[q].name] = icache'[at[q].ip].inum
  <2> SUFFICES ASSUME Unlinking(pc[q], at[q])
               PROVE  dir'[at[q].name] = icache'[at[q].ip].inum
    OBVIOUS
  <2>1. at[q].ip \in Entry /\ dir[at[q].name] = icache[at[q].ip].inum /\ HoldsDir(pc[q], at[q])
    BY AtFacts
  <2> QED
    BY <2>1, <1>1, <1>2
<1>9. ASSUME Creating(pc[q], at[q])
      PROVE  /\ dir'[at[q].name] = 0
             /\ dinode'[icache'[at[q].ip].inum].nlink = 0
             /\ \A r \in Proc : r # q => at'[r].ip # at[q].ip
  <2>1. /\ at[q].ip \in Entry /\ icache[at[q].ip].ref > 0 /\ HoldsDir(pc[q], at[q])
        /\ dir[at[q].name] = 0 /\ dinode[icache[at[q].ip].inum].nlink = 0
        /\ \A r \in Proc : r # q => at[r].ip # at[q].ip
    BY <1>9, AtFacts
  <2>2. dir'[at[q].name] = 0 /\ at'[p].ip \in {0, at[p].ip}
    BY <2>1
  <2>3. dinode'[icache'[at[q].ip].inum].nlink = 0
    BY <2>1, <1>1, <1>2
  <2>4. ASSUME NEW r \in Proc, r # q
        PROVE  at'[r].ip # at[q].ip
    <3>1. CASE r = p
      BY <3>1, <2>1, <2>2, <1>1
    <3>2. CASE r # p
      BY <3>2, <2>1, <2>4
    <3> QED
      BY <3>1, <3>2
  <2> QED
    BY <2>2, <2>3, <2>4
<1>10. /\ pc'[q] \in Locked => icache'[at'[q].ip].valid
       /\ at'[q].ip # 0 => dinode'[icache'[at'[q].ip].inum].type = "file"
       /\ Using(pc'[q]) => dinode'[icache'[at'[q].put].inum].type = "file"
       /\ Last(pc'[q]) => icache'[at'[q].put].valid /\ icache'[at'[q].put].nlink = 0
       /\ Sole(pc'[q]) => icache'[at'[q].put].ref = 1
  BY <1>1, <1>2, <1>4, <1>5, <1>6, <1>7
<1>11. /\ Unlinking(pc'[q], at'[q]) => dir'[at'[q].name] = icache'[at'[q].ip].inum
       /\ Creating(pc'[q], at'[q]) => /\ dir'[at'[q].name] = 0
                                      /\ dinode'[icache'[at'[q].ip].inum].nlink = 0
                                      /\ \A r \in Proc : r # q => at'[r].ip # at'[q].ip
  BY <1>1, <1>8, <1>9
<1> QED
  BY <1>10, <1>11 DEF Relies

\* Least of all when inodes, cache and directory stay as they are.
LEMMA OthersSame ==
  ASSUME IInv, NEW p \in Proc, UNCHANGED <<dinode, icache, dir>>, at'[p].ip \in {0, at[p].ip},
         \A q \in Proc : q # p => at'[q] = at[q] /\ pc'[q] = pc[q]
  PROVE  \A q \in Proc : q # p => Relies(q)'
<1>1. Keeps(0) /\ 0 \notin Entry
  BY Facts DEF Keeps
<1> QED
  BY <1>1, OthersKeep

\* A new link count goes to the entry and to the disk, and nothing else changes.
LEMMA StoreDoes ==
  ASSUME TypeOK, NEW e \in Entry, NEW n \in Nat, icache[e].inum \in Inum, icache[e].type = "file",
         Store(e, icache[e].type, n)
  PROVE  /\ icache' \in [Entry -> CacheEntry]
         /\ \A g \in Entry : g # e => icache'[g] = icache[g]
         /\ \A g \in Entry : icache'[g].ref = icache[g].ref /\ icache'[g].inum = icache[g].inum
         /\ \A g \in Entry : icache'[g].valid = icache[g].valid
         /\ icache'[e].type = "file" /\ icache'[e].nlink = n
         /\ dinode' \in [Inum -> [type : {"free", "file"}, nlink : Nat]]
         /\ dinode'[icache[e].inum].type = "file" /\ dinode'[icache[e].inum].nlink = n
         /\ \A i \in Inum : i # icache[e].inum => dinode'[i] = dinode[i]
<1>1. icache \in [Entry -> CacheEntry] /\ dinode \in [Inum -> [type : {"free", "file"}, nlink : Nat]]
  BY DEF TypeOK, CacheEntry
<1>2. /\ icache' = [icache EXCEPT ![e].type = icache[e].type, ![e].nlink = n]
      /\ dinode' = [dinode EXCEPT ![icache[e].inum] = [type |-> icache[e].type, nlink |-> n]]
  BY DEF Store
<1>3. icache'[e] = [icache[e] EXCEPT !.type = icache[e].type, !.nlink = n]
  BY <1>1, <1>2
<1>4. /\ icache'[e] \in CacheEntry /\ icache'[e].ref = icache[e].ref /\ icache'[e].inum = icache[e].inum
      /\ icache'[e].valid = icache[e].valid /\ icache'[e].type = "file" /\ icache'[e].nlink = n
  BY <1>1, <1>3 DEF CacheEntry
<1>5. \A g \in Entry : g # e => icache'[g] = icache[g]
  BY <1>1, <1>2
<1>6. icache' \in [Entry -> CacheEntry]
  BY <1>1, <1>2, <1>4, <1>5
<1>7. /\ dinode' \in [Inum -> [type : {"free", "file"}, nlink : Nat]]
      /\ dinode'[icache[e].inum].type = "file" /\ dinode'[icache[e].inum].nlink = n
      /\ \A i \in Inum : i # icache[e].inum => dinode'[i] = dinode[i]
  BY <1>1, <1>2
<1> QED
  BY <1>4, <1>5, <1>6, <1>7

\* iget disturbs no entry in use, and the entry it returns is the only one of its inode.
LEMMA IgetKeeps ==
  ASSUME IInv, NEW i \in Inum, NEW e \in Entry, IgetStep(i, e)
  PROVE  /\ \A g \in Entry : icache[g].ref > 0 =>
              /\ icache'[g].ref > 0 /\ icache'[g].inum = icache[g].inum /\ icache'[g].valid = icache[g].valid
              /\ icache'[g].type = icache[g].type /\ icache'[g].nlink = icache[g].nlink
         /\ \A g \in Entry : icache'[g].ref > 0 /\ icache'[g].valid => icache[g].ref > 0
         /\ \A g \in Entry : icache[g].ref \in Nat /\ icache'[g].ref = icache[g].ref + Is(e, g)
         /\ icache'[e].inum = i /\ icache' \in [Entry -> CacheEntry]
         /\ icache[e].ref > 0 => icache[e].inum = i
         /\ Once'
<1>1. \A g \in Entry : icache[g].ref \in Nat
  BY DEF IInv, TypeOK
<1>2. \A g \in Entry : icache'[g].ref = icache[g].ref + Is(e, g)
  BY <1>1 DEF IgetStep, Is
<1>3. \A g \in Entry : icache[g].ref > 0 =>
        /\ icache'[g].ref > 0 /\ icache'[g].inum = icache[g].inum /\ icache'[g].valid = icache[g].valid
        /\ icache'[g].type = icache[g].type /\ icache'[g].nlink = icache[g].nlink
  BY <1>1 DEF IgetStep
<1>4. \A g \in Entry : icache'[g].ref > 0 /\ icache'[g].valid => icache[g].ref > 0
  BY DEF IgetStep
<1>5. icache'[e].inum = i /\ icache' \in [Entry -> CacheEntry] /\ (icache[e].ref > 0 => icache[e].inum = i)
  BY DEF IgetStep
<1>6. ASSUME NEW g \in Entry, icache'[g].ref > 0
      PROVE  icache'[g].inum \in Inum
  <2>1. CASE g = e
    BY <2>1, <1>5
  <2>2. CASE g # e
    <3>1. icache'[g] = icache[g]
      BY <2>2 DEF IgetStep
    <3> QED
      BY <3>1, <1>6 DEF IInv, Once
  <2> QED
    BY <2>1, <2>2
<1>7. ASSUME NEW g \in Entry, g # e, icache'[g].ref > 0
      PROVE  icache'[g].inum # i
  <2>1. icache'[g] = icache[g]
    BY <1>7 DEF IgetStep
  <2>2. CASE icache[e].ref > 0 /\ icache[e].inum = i
    BY <2>1, <2>2, <1>7 DEF IInv, Once
  <2>3. CASE \A h \in Entry : ~ (icache[h].ref > 0 /\ icache[h].inum = i)
    BY <2>1, <2>3, <1>7
  <2> QED
    BY <2>2, <2>3 DEF IgetStep
<1>8. ASSUME NEW g \in Entry, NEW h \in Entry, icache'[g].ref > 0, icache'[h].ref > 0, icache'[g].inum = icache'[h].inum
      PROVE  g = h
  <2>1. CASE g = e \/ h = e
    BY <2>1, <1>5, <1>7, <1>8
  <2>2. CASE g # e /\ h # e
    <3>1. icache'[g] = icache[g] /\ icache'[h] = icache[h]
      BY <2>2 DEF IgetStep
    <3> QED
      BY <3>1, <1>8 DEF IInv, Once
  <2> QED
    BY <2>1, <2>2
<1>9. Once'
  BY <1>6, <1>8 DEF Once
<1> QED
  BY <1>1, <1>2, <1>3, <1>4, <1>5, <1>9

\* A panic leaves everything else alone, but create may have marked an inode before it.
LEMMA PanicInv ==
  ASSUME IInv, UNCHANGED <<icache, lock, dir, dirlock, fip, pc, at>>,
         panicked' \in {"iget: no inodes", "ialloc: no inodes"},
         dinode' \in [Inum -> [type : {"free", "file"}, nlink : Nat]],
         \A i \in Inum : dinode'[i].nlink = dinode[i].nlink /\ (dinode[i].type = "file" => dinode'[i].type = "file")
  PROVE  IInv'
<1>1. TypeOK'
  BY DEF IInv, TypeOK
<1>2. AtInv' /\ LockInv' /\ Once'
  BY DEF IInv, AtInv, LockInv, Once
<1>3. RefInv'
  <2>1. ASSUME NEW e \in Entry
        PROVE  Holders(e)' = Holders(e)
    BY DEF Holders
  <2> QED
    BY <2>1 DEF IInv, RefInv
<1>4. Coherent'
  <2>1. \A e \in Entry : icache[e].ref > 0 /\ icache[e].valid =>
          /\ icache[e].inum \in Inum /\ dinode[icache[e].inum].type = "file" /\ icache[e].type = "file"
          /\ dinode[icache[e].inum].nlink = icache[e].nlink
    BY DEF IInv, Coherent, Once
  <2>2. \A i \in Inum : dinode'[i].type = "free" => dinode'[i].nlink = 0
    <3>1. \A i \in Inum : dinode[i].type \in {"free", "file"}
      BY DEF IInv, TypeOK
    <3> QED
      BY <3>1 DEF IInv, Coherent
  <2> QED
    BY <2>1, <2>2 DEF Coherent
<1>5. NoDangling'
  BY Facts DEF NoDangling
<1>6. ASSUME NEW q \in Proc
      PROVE  Relies(q)'
  <2>1. at[q].ip # 0 => dinode'[icache[at[q].ip].inum].type = "file"
    BY Facts
  <2>2. Using(pc[q]) => dinode'[icache[at[q].put].inum].type = "file"
    BY AtFacts
  <2>3. Creating(pc[q], at[q]) => dinode'[icache[at[q].ip].inum].nlink = 0
    BY AtFacts
  <2> QED
    BY <2>1, <2>2, <2>3 DEF IInv, ProcInv, Relies
<1>7. LinkCounts'
  BY DEF LinkCounts, Running
<1> QED
  BY <1>1, <1>2, <1>3, <1>4, <1>5, <1>6, <1>7 DEF IInv, ProcInv

-----------------------------------------------------------------------------
(* One lemma per action                                                    *)

\* iput, under the inode's lock: is it the last link?
LEMMA iput_lockInv ==
  ASSUME IInv, NEW p \in Proc, iput_lock(p)
  PROVE  IInv'
<1>1. /\ Running /\ pc[p] = "iput" /\ at[p] \in Call
      /\ at[p].put \in Entry /\ icache[at[p].put].ref > 0
      /\ \/ at[p].then = "idle" /\ at[p].ip = 0 /\ at[p].call = ""
         \/ at[p].then = "bad" /\ at[p].ip \in Entry /\ at[p].call = "link" /\ at[p].name \in Name
  BY Facts DEF iput_lock, AtOK, Locked, Put, NoCall, Call
<1>2. /\ UNCHANGED <<dinode, icache, dir, dirlock, fip, at, panicked>>
      /\ lock[at[p].put] = NoProc /\ lock' = [lock EXCEPT ![at[p].put] = p]
  BY DEF iput_lock
<1>3. \/ pc' = [pc EXCEPT ![p] = "iput_ref"] /\ icache[at[p].put].valid /\ icache[at[p].put].nlink = 0
      \/ pc' = [pc EXCEPT ![p] = "iput_unlock"]
  BY DEF iput_lock
<1>4. at' \in [Proc -> Call] /\ pc' \in [Proc -> PC]
  BY <1>1, <1>2, <1>3 DEF IInv, TypeOK, PC, AtInv
<1>5. \A q \in Proc : q # p => at'[q] = at[q] /\ pc'[q] = pc[q]
  BY <1>2, <1>3 DEF IInv, TypeOK, AtInv
<1>6. at'[p] = at[p]
  BY <1>2 DEF IInv, TypeOK
<1>7. \/ pc'[p] = "iput_ref" /\ icache[at[p].put].valid /\ icache[at[p].put].nlink = 0
      \/ pc'[p] = "iput_unlock"
  BY <1>3 DEF IInv, TypeOK
<1>8. /\ \A x \in Entry : ~ Holds(pc[p], at[p], x)
      /\ \A x \in Entry : Holds(pc'[p], at'[p], x) <=> x = at[p].put
  BY <1>1, <1>6, <1>7 DEF Holds, Locked, Put
<1>9. DirStep(p)
  BY <1>1, <1>6, <1>7, <1>2 DEF DirStep, HoldsDir
<1>10. Counted(pc'[p], at'[p]) <=> Counted(pc[p], at[p])
  BY <1>1, <1>6, <1>7 DEF Counted, Put
<1>11. /\ ~ (pc'[p] \in Locked)
       /\ Using(pc[p])
       /\ ~ Last(pc[p])
       /\ Last(pc'[p]) => (icache[at[p].put].valid /\ icache[at[p].put].nlink = 0)
       /\ ~ Sole(pc'[p])
       /\ ~ Unlinking(pc'[p], at'[p])
       /\ ~ Creating(pc'[p], at'[p])
  BY <1>1, <1>6, <1>7 DEF Locked, Using, Last, Sole, Unlinking, Creating
<1>12. TypeOK'
  BY <1>1, <1>2, <1>4 DEF IInv, TypeOK, CacheEntry
<1>13. AtInv'
  <2>1. AtOK(pc'[p], at'[p])
    BY <1>1, <1>6, <1>7 DEF AtOK, Locked, Put, NoCall
  <2> QED
    BY <1>4, <1>5, <2>1, AtStep
<1>14. LockInv'
  BY <1>1, <1>2, <1>5, <1>8, <1>9, LockTake
<1>15. RefInv'
  <2>1. ASSUME NEW e \in Entry
        PROVE  icache'[e].ref = icache[e].ref + Own(at'[p], e) - Own(at[p], e)
    <3>1. icache[e].ref \in Nat /\ icache'[e].ref = icache[e].ref
      BY <1>2 DEF IInv, TypeOK
    <3>2. Own(at'[p], e) = Own(at[p], e) /\ Own(at[p], e) \in Nat
      BY <1>6 DEF Own
    <3> QED
      BY <3>1, <3>2
  <2> QED
    BY <1>2, <1>5, <2>1, RefStep DEF IInv
<1>16. Once'
  BY <1>2 DEF IInv, TypeOK, Once
<1>17. Coherent'
  BY <1>2 DEF IInv, Coherent
<1>18. NoDangling'
  BY <1>2 DEF IInv, NoDangling
<1>19. ProcInv'
  <2>1. \A q \in Proc : q # p => Relies(q)'
    BY <1>2, <1>5, <1>6, OthersSame
  <2>2. ASSUME at'[p].ip # 0
        PROVE  dinode'[icache'[at'[p].ip].inum].type = "file"
    <3>1. /\ at'[p].ip = at[p].ip /\ at[p].ip \in Entry /\ icache[at[p].ip].ref > 0
          /\ icache[at[p].ip].inum \in Inum /\ dinode[icache[at[p].ip].inum].type = "file"
      BY <2>2, <1>6, Facts
    <3> QED
      BY <3>1, <1>2
  <2>3. ASSUME Using(pc'[p])
        PROVE  dinode'[icache'[at'[p].put].inum].type = "file"
    BY <2>3, <1>11, <1>6, <1>2, AtFacts
  <2>4. ASSUME Last(pc'[p])
        PROVE  icache'[at'[p].put].valid /\ icache'[at'[p].put].nlink = 0
    BY <2>4, <1>11, <1>6, <1>2, AtFacts
  <2>5. Relies(p)'
    BY <2>2, <2>3, <2>4, <1>11 DEF Relies
  <2> QED
    BY <2>1, <2>5 DEF ProcInv
<1>20. LinkCounts'
  <2>1. ASSUME NEW i \in Inum
        PROVE  dinode'[i].nlink = dinode[i].nlink + PendN(p, i)' - PendN(p, i)
    <3>1. dinode[i].nlink \in Nat /\ PendN(p, i) \in {0, 1}
      BY DEF IInv, TypeOK, PendN
    <3>2. PendN(p, i)' = PendN(p, i)
      BY <1>1, <1>6, <1>7, <1>2, <1>10 DEF PendN, Pends
    <3> QED
      BY <3>1, <3>2, <1>2
  <2>2. \A q \in Proc : q # p /\ at[q].ip # 0 => icache'[at[q].ip].inum = icache[at[q].ip].inum
    BY <1>2, Facts
  <2> QED
    BY <1>1, <1>2, <1>5, <2>1, <2>2, LinkFrame DEF IInv
<1> QED
  BY <1>12, <1>13, <1>14, <1>15, <1>16, <1>17, <1>18, <1>19, <1>20 DEF IInv

\* iput, under icache.lock: is it the last reference?
LEMMA iput_refInv ==
  ASSUME IInv, NEW p \in Proc, iput_ref(p)
  PROVE  IInv'
<1>1. /\ Running /\ pc[p] = "iput_ref" /\ at[p] \in Call
      /\ at[p].put \in Entry /\ icache[at[p].put].ref > 0
      /\ \/ at[p].then = "idle" /\ at[p].ip = 0 /\ at[p].call = ""
         \/ at[p].then = "bad" /\ at[p].ip \in Entry /\ at[p].call = "link" /\ at[p].name \in Name
  BY Facts DEF iput_ref, AtOK, Locked, Put, NoCall, Call
<1>2. UNCHANGED <<dinode, icache, lock, dir, dirlock, fip, at, panicked>>
  BY DEF iput_ref
<1>3. \/ pc' = [pc EXCEPT ![p] = "iput_free"] /\ icache[at[p].put].ref = 1
      \/ pc' = [pc EXCEPT ![p] = "iput_unlock"]
  BY DEF iput_ref
<1>4. at' \in [Proc -> Call] /\ pc' \in [Proc -> PC]
  BY <1>1, <1>2, <1>3 DEF IInv, TypeOK, PC, AtInv
<1>5. \A q \in Proc : q # p => at'[q] = at[q] /\ pc'[q] = pc[q]
  BY <1>2, <1>3 DEF IInv, TypeOK, AtInv
<1>6. at'[p] = at[p]
  BY <1>2 DEF IInv, TypeOK
<1>7. \/ pc'[p] = "iput_free" /\ icache[at[p].put].ref = 1
      \/ pc'[p] = "iput_unlock"
  BY <1>3 DEF IInv, TypeOK
<1>8. /\ \A x \in Entry : Holds(pc[p], at[p], x) <=> x = at[p].put
      /\ \A x \in Entry : Holds(pc'[p], at'[p], x) <=> x = at[p].put
  BY <1>1, <1>6, <1>7 DEF Holds, Locked, Put
<1>9. DirStep(p)
  BY <1>1, <1>6, <1>7, <1>2 DEF DirStep, HoldsDir
<1>10. Counted(pc'[p], at'[p]) <=> Counted(pc[p], at[p])
  BY <1>1, <1>6, <1>7 DEF Counted, Put
<1>11. /\ ~ (pc'[p] \in Locked)
       /\ Using(pc[p])
       /\ Last(pc[p])
       /\ ~ Sole(pc[p])
       /\ Sole(pc'[p]) => icache[at[p].put].ref = 1
       /\ ~ Unlinking(pc'[p], at'[p])
       /\ ~ Creating(pc'[p], at'[p])
  BY <1>1, <1>6, <1>7 DEF Locked, Using, Last, Sole, Unlinking, Creating
<1>12. TypeOK'
  BY <1>1, <1>2, <1>4 DEF IInv, TypeOK, CacheEntry
<1>13. AtInv'
  <2>1. AtOK(pc'[p], at'[p])
    BY <1>1, <1>6, <1>7 DEF AtOK, Locked, Put, NoCall
  <2> QED
    BY <1>4, <1>5, <2>1, AtStep
<1>14. LockInv'
  BY <1>2, <1>5, <1>8, <1>9, LockSame
<1>15. RefInv'
  <2>1. ASSUME NEW e \in Entry
        PROVE  icache'[e].ref = icache[e].ref + Own(at'[p], e) - Own(at[p], e)
    <3>1. icache[e].ref \in Nat /\ icache'[e].ref = icache[e].ref
      BY <1>2 DEF IInv, TypeOK
    <3>2. Own(at'[p], e) = Own(at[p], e) /\ Own(at[p], e) \in Nat
      BY <1>6 DEF Own
    <3> QED
      BY <3>1, <3>2
  <2> QED
    BY <1>2, <1>5, <2>1, RefStep DEF IInv
<1>16. Once'
  BY <1>2 DEF IInv, TypeOK, Once
<1>17. Coherent'
  BY <1>2 DEF IInv, Coherent
<1>18. NoDangling'
  BY <1>2 DEF IInv, NoDangling
<1>19. ProcInv'
  <2>1. \A q \in Proc : q # p => Relies(q)'
    BY <1>2, <1>5, <1>6, OthersSame
  <2>2. ASSUME at'[p].ip # 0
        PROVE  dinode'[icache'[at'[p].ip].inum].type = "file"
    <3>1. /\ at'[p].ip = at[p].ip /\ at[p].ip \in Entry /\ icache[at[p].ip].ref > 0
          /\ icache[at[p].ip].inum \in Inum /\ dinode[icache[at[p].ip].inum].type = "file"
      BY <2>2, <1>6, Facts
    <3> QED
      BY <3>1, <1>2
  <2>3. ASSUME Using(pc'[p])
        PROVE  dinode'[icache'[at'[p].put].inum].type = "file"
    BY <2>3, <1>11, <1>6, <1>2, AtFacts
  <2>4. ASSUME Last(pc'[p])
        PROVE  icache'[at'[p].put].valid /\ icache'[at'[p].put].nlink = 0
    BY <2>4, <1>11, <1>6, <1>2, AtFacts
  <2>5. ASSUME Sole(pc'[p])
        PROVE  icache'[at'[p].put].ref = 1
    BY <2>5, <1>11, <1>6, <1>2, AtFacts
  <2>6. Relies(p)'
    BY <2>2, <2>3, <2>4, <2>5, <1>11 DEF Relies
  <2> QED
    BY <2>1, <2>6 DEF ProcInv
<1>20. LinkCounts'
  <2>1. ASSUME NEW i \in Inum
        PROVE  dinode'[i].nlink = dinode[i].nlink + PendN(p, i)' - PendN(p, i)
    <3>1. dinode[i].nlink \in Nat /\ PendN(p, i) \in {0, 1}
      BY DEF IInv, TypeOK, PendN
    <3>2. PendN(p, i)' = PendN(p, i)
      BY <1>1, <1>6, <1>7, <1>2, <1>10 DEF PendN, Pends
    <3> QED
      BY <3>1, <3>2, <1>2
  <2>2. \A q \in Proc : q # p /\ at[q].ip # 0 => icache'[at[q].ip].inum = icache[at[q].ip].inum
    BY <1>2, Facts
  <2> QED
    BY <1>1, <1>2, <1>5, <2>1, <2>2, LinkFrame DEF IInv
<1> QED
  BY <1>12, <1>13, <1>14, <1>15, <1>16, <1>17, <1>18, <1>19, <1>20 DEF IInv

\* iput lets the inode's lock go.
LEMMA iput_unlockInv ==
  ASSUME IInv, NEW p \in Proc, iput_unlock(p)
  PROVE  IInv'
<1>1. /\ Running /\ pc[p] = "iput_unlock" /\ at[p] \in Call
      /\ at[p].put \in Entry /\ icache[at[p].put].ref > 0
      /\ \/ at[p].then = "idle" /\ at[p].ip = 0 /\ at[p].call = ""
         \/ at[p].then = "bad" /\ at[p].ip \in Entry /\ at[p].call = "link" /\ at[p].name \in Name
  BY Facts DEF iput_unlock, AtOK, Locked, Put, NoCall, Call
<1>2. /\ UNCHANGED <<dinode, icache, dir, dirlock, fip, at, panicked>>
      /\ lock' = [lock EXCEPT ![at[p].put] = NoProc] /\ pc' = [pc EXCEPT ![p] = "iput_dec"]
  BY DEF iput_unlock
<1>3. at' \in [Proc -> Call] /\ pc' \in [Proc -> PC]
  BY <1>1, <1>2 DEF IInv, TypeOK, PC, AtInv
<1>4. \A q \in Proc : q # p => at'[q] = at[q] /\ pc'[q] = pc[q]
  BY <1>2 DEF IInv, TypeOK, AtInv
<1>5. at'[p] = at[p] /\ pc'[p] = "iput_dec"
  BY <1>2 DEF IInv, TypeOK
<1>6. /\ \A x \in Entry : Holds(pc[p], at[p], x) <=> x = at[p].put
      /\ \A x \in Entry : ~ Holds(pc'[p], at'[p], x)
  BY <1>1, <1>5 DEF Holds, Locked, Put
<1>7. DirStep(p)
  BY <1>1, <1>5, <1>2 DEF DirStep, HoldsDir
<1>8. Counted(pc'[p], at'[p]) <=> Counted(pc[p], at[p])
  BY <1>1, <1>5 DEF Counted, Put
<1>9. /\ ~ (pc'[p] \in Locked)
      /\ ~ Using(pc'[p])
      /\ ~ Last(pc'[p])
      /\ ~ Sole(pc'[p])
      /\ ~ Unlinking(pc'[p], at'[p])
      /\ ~ Creating(pc'[p], at'[p])
  BY <1>1, <1>5 DEF Locked, Using, Last, Sole, Unlinking, Creating
<1>10. TypeOK'
  BY <1>1, <1>2, <1>3 DEF IInv, TypeOK, CacheEntry
<1>11. AtInv'
  <2>1. AtOK(pc'[p], at'[p])
    BY <1>1, <1>5 DEF AtOK, Locked, Put, NoCall
  <2> QED
    BY <1>3, <1>4, <2>1, AtStep
<1>12. LockInv'
  BY <1>1, <1>2, <1>4, <1>6, <1>7, LockFree
<1>13. RefInv'
  <2>1. ASSUME NEW e \in Entry
        PROVE  icache'[e].ref = icache[e].ref + Own(at'[p], e) - Own(at[p], e)
    <3>1. icache[e].ref \in Nat /\ icache'[e].ref = icache[e].ref
      BY <1>2 DEF IInv, TypeOK
    <3>2. Own(at'[p], e) = Own(at[p], e) /\ Own(at[p], e) \in Nat
      BY <1>5 DEF Own
    <3> QED
      BY <3>1, <3>2
  <2> QED
    BY <1>2, <1>4, <2>1, RefStep DEF IInv
<1>14. Once'
  BY <1>2 DEF IInv, TypeOK, Once
<1>15. Coherent'
  BY <1>2 DEF IInv, Coherent
<1>16. NoDangling'
  BY <1>2 DEF IInv, NoDangling
<1>17. ProcInv'
  <2>1. \A q \in Proc : q # p => Relies(q)'
    BY <1>2, <1>4, <1>5, OthersSame
  <2>2. ASSUME at'[p].ip # 0
        PROVE  dinode'[icache'[at'[p].ip].inum].type = "file"
    <3>1. /\ at'[p].ip = at[p].ip /\ at[p].ip \in Entry /\ icache[at[p].ip].ref > 0
          /\ icache[at[p].ip].inum \in Inum /\ dinode[icache[at[p].ip].inum].type = "file"
      BY <2>2, <1>5, Facts
    <3> QED
      BY <3>1, <1>2
  <2>3. Relies(p)'
    BY <2>2, <1>9 DEF Relies
  <2> QED
    BY <2>1, <2>3 DEF ProcInv
<1>18. LinkCounts'
  <2>1. ASSUME NEW i \in Inum
        PROVE  dinode'[i].nlink = dinode[i].nlink + PendN(p, i)' - PendN(p, i)
    <3>1. dinode[i].nlink \in Nat /\ PendN(p, i) \in {0, 1}
      BY DEF IInv, TypeOK, PendN
    <3>2. PendN(p, i)' = PendN(p, i)
      BY <1>1, <1>5, <1>2, <1>8 DEF PendN, Pends
    <3> QED
      BY <3>1, <3>2, <1>2
  <2>2. \A q \in Proc : q # p /\ at[q].ip # 0 => icache'[at[q].ip].inum = icache[at[q].ip].inum
    BY <1>2, Facts
  <2> QED
    BY <1>1, <1>2, <1>4, <2>1, <2>2, LinkFrame DEF IInv
<1> QED
  BY <1>10, <1>11, <1>12, <1>13, <1>14, <1>15, <1>16, <1>17, <1>18 DEF IInv

\* iput frees an inode nothing refers to.
LEMMA iput_freeInv ==
  ASSUME IInv, NEW p \in Proc, iput_free(p)
  PROVE  IInv'
<1>1. /\ Running /\ pc[p] = "iput_free" /\ at[p] \in Call
      /\ at[p].put \in Entry /\ icache[at[p].put].ref > 0
      /\ \/ at[p].then = "idle" /\ at[p].ip = 0 /\ at[p].call = ""
         \/ at[p].then = "bad" /\ at[p].ip \in Entry /\ at[p].call = "link" /\ at[p].name \in Name
  BY Facts DEF iput_free, AtOK, Locked, Put, NoCall, Call
<1>2. /\ UNCHANGED <<lock, dir, dirlock, fip, at, panicked>>
      /\ pc' = [pc EXCEPT ![p] = "iput_unlock"]
      /\ icache' = [icache EXCEPT ![at[p].put].type = "free", ![at[p].put].valid = FALSE]
      /\ dinode' = [dinode EXCEPT ![icache[at[p].put].inum] = FreeInode]
  BY DEF iput_free
<1>3. /\ icache[at[p].put].valid /\ icache[at[p].put].nlink = 0 /\ icache[at[p].put].ref = 1
      /\ icache[at[p].put].inum \in Inum /\ dinode[icache[at[p].put].inum].nlink = 0
  <2>1. Sole(pc[p])
    BY <1>1 DEF Sole
  <2>2. icache[at[p].put].valid /\ icache[at[p].put].nlink = 0 /\ icache[at[p].put].ref = 1
    BY <2>1, AtFacts
  <2> QED
    BY <1>1, <2>2 DEF IInv, Once, Coherent
<1>4. /\ \A f \in File : fip[f] # at[p].put
      /\ \A q \in Proc : at[q].ip # at[p].put /\ (q # p => at[q].put # at[p].put)
      /\ \A n \in Name : dir[n] # icache[at[p].put].inum
      /\ \A e \in Entry : icache[e].ref > 0 /\ icache[e].inum = icache[at[p].put].inum => e = at[p].put
  BY <1>1, <1>3, Refs, Links DEF IInv, Once
<1>5. icache \in [Entry -> CacheEntry]
  BY DEF IInv, TypeOK, CacheEntry
<1>6. /\ icache' \in [Entry -> CacheEntry]
      /\ \A e \in Entry : icache'[e].ref = icache[e].ref /\ icache'[e].inum = icache[e].inum
      /\ ~ icache'[at[p].put].valid
      /\ \A e \in Entry : e # at[p].put => icache'[e] = icache[e]
  BY <1>1, <1>2, <1>5 DEF CacheEntry
<1>7. /\ dinode' \in [Inum -> [type : {"free", "file"}, nlink : Nat]]
      /\ dinode'[icache[at[p].put].inum].type = "free" /\ dinode'[icache[at[p].put].inum].nlink = 0
      /\ \A i \in Inum : i # icache[at[p].put].inum => dinode'[i] = dinode[i]
  BY <1>2, <1>3 DEF IInv, TypeOK, FreeInode
<1>8. at' \in [Proc -> Call] /\ pc' \in [Proc -> PC]
  BY <1>1, <1>2 DEF IInv, TypeOK, PC, AtInv
<1>9. \A q \in Proc : q # p => at'[q] = at[q] /\ pc'[q] = pc[q]
  BY <1>2 DEF IInv, TypeOK, AtInv
<1>10. at'[p] = at[p] /\ pc'[p] = "iput_unlock"
  BY <1>2 DEF IInv, TypeOK
<1>11. /\ \A x \in Entry : Holds(pc[p], at[p], x) <=> x = at[p].put
       /\ \A x \in Entry : Holds(pc'[p], at'[p], x) <=> x = at[p].put
  BY <1>1, <1>10 DEF Holds, Locked, Put
<1>12. DirStep(p)
  BY <1>1, <1>10, <1>2 DEF DirStep, HoldsDir
<1>13. Counted(pc'[p], at'[p]) <=> Counted(pc[p], at[p])
  BY <1>1, <1>10 DEF Counted, Put
<1>14. /\ ~ (pc'[p] \in Locked)
       /\ ~ Using(pc'[p])
       /\ ~ Last(pc'[p])
       /\ ~ Sole(pc'[p])
       /\ ~ Unlinking(pc'[p], at'[p])
       /\ ~ Creating(pc'[p], at'[p])
  BY <1>1, <1>10 DEF Locked, Using, Last, Sole, Unlinking, Creating
<1>15. TypeOK'
  BY <1>2, <1>8, <1>6, <1>7 DEF IInv, TypeOK, CacheEntry
<1>16. AtInv'
  <2>1. AtOK(pc'[p], at'[p])
    BY <1>1, <1>10 DEF AtOK, Locked, Put, NoCall
  <2> QED
    BY <1>8, <1>9, <2>1, AtStep
<1>17. LockInv'
  BY <1>2, <1>9, <1>11, <1>12, LockSame
<1>18. RefInv'
  <2>1. ASSUME NEW e \in Entry
        PROVE  icache'[e].ref = icache[e].ref + Own(at'[p], e) - Own(at[p], e)
    <3>1. icache[e].ref \in Nat /\ icache'[e].ref = icache[e].ref
      BY <1>6 DEF IInv, TypeOK
    <3>2. Own(at'[p], e) = Own(at[p], e) /\ Own(at[p], e) \in Nat
      BY <1>10 DEF Own
    <3> QED
      BY <3>1, <3>2
  <2> QED
    BY <1>2, <1>9, <2>1, RefStep DEF IInv
<1>19. Once'
  BY <1>6 DEF IInv, TypeOK, Once
<1>20. Coherent'
  <2>1. ASSUME NEW g \in Entry, icache'[g].ref > 0, icache'[g].valid
        PROVE  /\ dinode'[icache'[g].inum].type = "file" /\ icache'[g].type = "file"
               /\ dinode'[icache'[g].inum].nlink = icache'[g].nlink
    BY <2>1, <1>6, <1>7, <1>4 DEF IInv, Coherent, Once, TypeOK
  <2>2. \A i \in Inum : dinode'[i].type = "free" => dinode'[i].nlink = 0
    BY <1>7 DEF IInv, Coherent, TypeOK
  <2> QED
    BY <2>1, <2>2 DEF Coherent
<1>21. NoDangling'
  <2>1. panicked' \notin {"ilock: no type", "unlink: nlink < 1"}
    BY <1>2 DEF IInv, NoDangling
  <2>2. ASSUME NEW y \in Name, dir'[y] # 0
        PROVE  dinode'[dir'[y]].type = "file"
    BY <2>2, Facts, <1>2, <1>7, <1>4
  <2>3. ASSUME NEW g \in File, fip'[g] # 0
        PROVE  dinode'[icache'[fip'[g]].inum].type = "file"
    BY <2>3, Facts, <1>2, <1>6, <1>7, <1>4
  <2> QED
    BY <2>1, <2>2, <2>3 DEF NoDangling
<1>22. ProcInv'
  <2>1. \A q \in Proc : q # p => Relies(q)'
    <3>1. Keeps(at[p].put) /\ 0 \notin Entry
      BY <1>6, <1>7, <1>4, Facts DEF IInv, Once, Keeps
    <3>2. \A q \in Proc : q # p /\ Last(pc[q]) => icache'[at[q].put].nlink = icache[at[q].put].nlink
      BY AtFacts, <1>6, <1>4
    <3>3. \A q \in Proc : q # p /\ Sole(pc[q]) => icache'[at[q].put].ref = icache[at[q].put].ref
      BY AtFacts, <1>6, <1>4
    <3>4. \A q \in Proc : q # p /\ HoldsDir(pc[q], at[q]) => UNCHANGED dir /\ at'[p].ip \in {0, at[p].ip}
      BY <1>2, <1>10
    <3>5. \A g \in Entry : icache[g].ref > 0 /\ g # at[p].ip =>
                            dinode'[icache[g].inum].nlink = dinode[icache[g].inum].nlink
      BY <1>7, <1>3 DEF IInv, Once
    <3> QED
      BY <1>9, <3>1, <3>2, <3>3, <3>4, <3>5, OthersKeep, <1>4
  <2>2. ASSUME at'[p].ip # 0
        PROVE  dinode'[icache'[at'[p].ip].inum].type = "file"
    <3>1. /\ at'[p].ip = at[p].ip /\ at[p].ip \in Entry /\ icache[at[p].ip].ref > 0
          /\ icache[at[p].ip].inum \in Inum /\ dinode[icache[at[p].ip].inum].type = "file"
      BY <2>2, <1>10, Facts
    <3> QED
      BY <3>1, <1>6, <1>7, <1>4
  <2>3. Relies(p)'
    BY <2>2, <1>14 DEF Relies
  <2> QED
    BY <2>1, <2>3 DEF ProcInv
<1>23. LinkCounts'
  <2>1. ASSUME NEW i \in Inum
        PROVE  dinode'[i].nlink = dinode[i].nlink + PendN(p, i)' - PendN(p, i)
    <3>1. dinode[i].nlink \in Nat /\ PendN(p, i) \in {0, 1}
      BY DEF IInv, TypeOK, PendN
    <3>2. PendN(p, i)' = PendN(p, i)
      BY <1>1, <1>10, <1>6, <1>13 DEF PendN, Pends
    <3>3. dinode'[i].nlink = dinode[i].nlink
      BY <1>3, <1>7
    <3> QED
      BY <3>1, <3>2, <3>3
  <2>2. \A q \in Proc : q # p /\ at[q].ip # 0 => icache'[at[q].ip].inum = icache[at[q].ip].inum
    BY <1>6, Facts
  <2> QED
    BY <1>1, <1>2, <1>9, <2>1, <2>2, LinkFrame DEF IInv
<1> QED
  BY <1>15, <1>16, <1>17, <1>18, <1>19, <1>20, <1>21, <1>22, <1>23 DEF IInv

\* iput drops the reference.
LEMMA iput_decInv ==
  ASSUME IInv, NEW p \in Proc, iput_dec(p)
  PROVE  IInv'
<1>1. /\ Running /\ pc[p] = "iput_dec" /\ at[p] \in Call
      /\ at[p].put \in Entry /\ icache[at[p].put].ref > 0
      /\ \/ at[p].then = "idle" /\ at[p].ip = 0 /\ at[p].call = ""
         \/ at[p].then = "bad" /\ at[p].ip \in Entry /\ at[p].call = "link" /\ at[p].name \in Name
  BY Facts DEF iput_dec, AtOK, Locked, Put, NoCall, Call
<1>2. /\ UNCHANGED <<dinode, lock, dir, dirlock, fip, panicked>>
      /\ pc' = [pc EXCEPT ![p] = at[p].then]
      /\ at' = [at EXCEPT ![p] = IF at[p].then = "idle" THEN NoCall ELSE [at[p] EXCEPT !.put = 0]]
  BY DEF iput_dec
<1>3. /\ at[p].put \in Entry /\ icache[at[p].put].ref > 0
      /\ icache' = [icache EXCEPT ![at[p].put].ref = @ - 1]
  BY <1>1 DEF iput_dec
<1>4. NoCall \in Call /\ NoCall.ip = 0 /\ NoCall.put = 0 /\ NoCall.then = "idle" /\ NoCall.call = ""
  BY DEF NoCall, Call
<1>5. /\ [at[p] EXCEPT !.put = 0] \in Call
      /\ [at[p] EXCEPT !.put = 0].ip = at[p].ip /\ [at[p] EXCEPT !.put = 0].put = 0 /\ [at[p] EXCEPT !.put = 0].name = at[p].name
      /\ [at[p] EXCEPT !.put = 0].call = at[p].call /\ [at[p] EXCEPT !.put = 0].then = at[p].then
  BY <1>1 DEF Call
<1>6. icache \in [Entry -> CacheEntry]
  BY DEF IInv, TypeOK, CacheEntry
<1>7. /\ icache' \in [Entry -> CacheEntry]
      /\ \A e \in Entry : e # at[p].put => icache'[e] = icache[e]
      /\ \A e \in Entry : icache'[e].inum = icache[e].inum /\ icache'[e].valid = icache[e].valid
      /\ \A e \in Entry : icache'[e].type = icache[e].type /\ icache'[e].nlink = icache[e].nlink
      /\ icache'[at[p].put].ref = icache[at[p].put].ref - 1
      /\ \A e \in Entry : icache'[e].ref > 0 => icache[e].ref > 0
  BY <1>3, <1>6 DEF CacheEntry
<1>8. \A q \in Proc : q # p /\ Sole(pc[q]) => at[q].put # at[p].put
  BY <1>1, AtFacts, Refs DEF IInv
<1>9. /\ at'[p] = IF at[p].then = "idle" THEN NoCall ELSE [at[p] EXCEPT !.put = 0]
      /\ pc'[p] = at[p].then
  BY <1>2 DEF IInv, TypeOK, AtInv
<1>10. /\ pc'[p] = at[p].then
       /\ at'[p] \in Call /\ at'[p].ip = at[p].ip /\ at'[p].put = 0 /\ at'[p].call = at[p].call /\ at'[p].then = at[p].then
       /\ at[p].then = "idle" => at'[p] = NoCall
       /\ at[p].then = "bad" => at'[p].name = at[p].name
  BY <1>1, <1>9, <1>4, <1>5
<1>11. \A q \in Proc : q # p => at'[q] = at[q] /\ pc'[q] = pc[q]
  BY <1>2 DEF IInv, TypeOK, AtInv
<1>12. at' \in [Proc -> Call] /\ pc' \in [Proc -> PC]
  <2>1. pc \in [Proc -> PC] /\ at \in [Proc -> Call] /\ at[p].then \in PC
    BY <1>1 DEF IInv, TypeOK, PC, AtInv
  <2>2. pc' \in [Proc -> PC]
    BY <1>2, <2>1
  <2>3. at' = [at EXCEPT ![p] = at'[p]]
    BY <1>2, <2>1
  <2>4. at' \in [Proc -> Call]
    BY <1>10, <2>1, <2>3
  <2> QED
    BY <2>2, <2>4
<1>13. /\ \A x \in Entry : ~ Holds(pc[p], at[p], x)
       /\ \A x \in Entry : ~ Holds(pc'[p], at'[p], x)
  BY <1>1, <1>10 DEF Holds, Locked, Put
<1>14. DirStep(p)
  BY <1>1, <1>10, <1>2 DEF DirStep, HoldsDir
<1>15. Counted(pc'[p], at'[p]) <=> Counted(pc[p], at[p])
  BY <1>1, <1>10 DEF Counted, Put
<1>16. /\ ~ (pc'[p] \in Locked)
       /\ ~ Using(pc'[p])
       /\ ~ Last(pc'[p])
       /\ ~ Sole(pc'[p])
       /\ ~ Unlinking(pc'[p], at'[p])
       /\ ~ Creating(pc'[p], at'[p])
  BY <1>1, <1>10 DEF Locked, Using, Last, Sole, Unlinking, Creating
<1>17. TypeOK'
  BY <1>2, <1>12, <1>7 DEF IInv, TypeOK, CacheEntry
<1>18. AtInv'
  <2>1. AtOK(pc'[p], at'[p])
    BY <1>1, <1>10 DEF AtOK, Locked, Put, NoCall
  <2> QED
    BY <1>12, <1>11, <2>1, AtStep
<1>19. LockInv'
  BY <1>2, <1>11, <1>13, <1>14, LockSame
<1>20. RefInv'
  <2>1. ASSUME NEW e \in Entry
        PROVE  icache'[e].ref = icache[e].ref + Own(at'[p], e) - Own(at[p], e)
    <3>1. Own(at'[p], e) = IF at[p].ip = e THEN 1 ELSE 0
      BY <1>10, Facts DEF Own
    <3>2. Own(at[p], e) = (IF at[p].ip = e THEN 1 ELSE 0) + (IF at[p].put = e THEN 1 ELSE 0)
      BY DEF Own
    <3>3. icache[e].ref \in Nat /\ icache'[e].ref = icache[e].ref - (IF at[p].put = e THEN 1 ELSE 0)
      BY <1>7, <1>6 DEF CacheEntry
    <3> QED
      BY <3>1, <3>2, <3>3
  <2> QED
    BY <1>2, <1>11, <2>1, RefStep DEF IInv
<1>21. Once'
  BY <1>7 DEF IInv, TypeOK, Once
<1>22. Coherent'
  <2>1. ASSUME NEW g \in Entry, icache'[g].ref > 0, icache'[g].valid
        PROVE  /\ dinode'[icache'[g].inum].type = "file" /\ icache'[g].type = "file"
               /\ dinode'[icache'[g].inum].nlink = icache'[g].nlink
    BY <2>1, <1>7, <1>2 DEF IInv, Coherent, Once, TypeOK
  <2>2. \A i \in Inum : dinode'[i].type = "free" => dinode'[i].nlink = 0
    BY <1>2 DEF IInv, Coherent, TypeOK
  <2> QED
    BY <2>1, <2>2 DEF Coherent
<1>23. NoDangling'
  <2>1. panicked' \notin {"ilock: no type", "unlink: nlink < 1"}
    BY <1>2 DEF IInv, NoDangling
  <2>2. ASSUME NEW y \in Name, dir'[y] # 0
        PROVE  dinode'[dir'[y]].type = "file"
    BY <2>2, Facts, <1>2, <1>2
  <2>3. ASSUME NEW g \in File, fip'[g] # 0
        PROVE  dinode'[icache'[fip'[g]].inum].type = "file"
    BY <2>3, Facts, <1>2, <1>7, <1>2
  <2> QED
    BY <2>1, <2>2, <2>3 DEF NoDangling
<1>24. ProcInv'
  <2>1. \A q \in Proc : q # p => Relies(q)'
    <3>1. Keeps(0) /\ 0 \notin Entry
      BY <1>7, <1>2, Facts DEF IInv, Once, Keeps
    <3>2. \A q \in Proc : q # p /\ Last(pc[q]) => icache'[at[q].put].nlink = icache[at[q].put].nlink
      BY AtFacts, <1>7
    <3>3. \A q \in Proc : q # p /\ Sole(pc[q]) => icache'[at[q].put].ref = icache[at[q].put].ref
      BY AtFacts, <1>7, <1>8
    <3>4. \A q \in Proc : q # p /\ HoldsDir(pc[q], at[q]) => UNCHANGED dir /\ at'[p].ip \in {0, at[p].ip}
      BY <1>2, <1>10
    <3>5. \A g \in Entry : icache[g].ref > 0 /\ g # at[p].ip =>
                            dinode'[icache[g].inum].nlink = dinode[icache[g].inum].nlink
      BY <1>2 DEF IInv, Once
    <3> QED
      BY <1>11, <3>1, <3>2, <3>3, <3>4, <3>5, OthersKeep
  <2>2. ASSUME at'[p].ip # 0
        PROVE  dinode'[icache'[at'[p].ip].inum].type = "file"
    <3>1. /\ at'[p].ip = at[p].ip /\ at[p].ip \in Entry /\ icache[at[p].ip].ref > 0
          /\ icache[at[p].ip].inum \in Inum /\ dinode[icache[at[p].ip].inum].type = "file"
      BY <2>2, <1>10, Facts
    <3> QED
      BY <3>1, <1>7, <1>2
  <2>3. Relies(p)'
    BY <2>2, <1>16 DEF Relies
  <2> QED
    BY <2>1, <2>3 DEF ProcInv
<1>25. LinkCounts'
  <2>1. ASSUME NEW i \in Inum
        PROVE  dinode'[i].nlink = dinode[i].nlink + PendN(p, i)' - PendN(p, i)
    <3>1. dinode[i].nlink \in Nat /\ PendN(p, i) \in {0, 1}
      BY DEF IInv, TypeOK, PendN
    <3>2. PendN(p, i)' = PendN(p, i)
      BY <1>10, <1>7, Facts, <1>15 DEF PendN, Pends
    <3> QED
      BY <3>1, <3>2, <1>2
  <2>2. \A q \in Proc : q # p /\ at[q].ip # 0 => icache'[at[q].ip].inum = icache[at[q].ip].inum
    BY <1>7, Facts
  <2> QED
    BY <1>1, <1>2, <1>11, <2>1, <2>2, LinkFrame DEF IInv
<1> QED
  BY <1>17, <1>18, <1>19, <1>20, <1>21, <1>22, <1>23, <1>24, <1>25 DEF IInv

\* A link that failed goes back to its inode.
LEMMA link_badInv ==
  ASSUME IInv, NEW p \in Proc, link_bad(p)
  PROVE  IInv'
<1>1. /\ Running /\ pc[p] = "bad" /\ at[p] \in Call
      /\ at[p].ip \in Entry /\ at[p].put = 0 /\ at[p].name \in Name /\ icache[at[p].ip].ref > 0
      /\ at[p].then = "bad" /\ at[p].call = "link"
  BY Facts DEF link_bad, AtOK, Locked, Put, NoCall, Call
<1>2. /\ UNCHANGED <<dinode, icache, lock, dir, fip, panicked>>
      /\ dirlock' = NoProc /\ pc' = [pc EXCEPT ![p] = "ilock"]
      /\ at' = [at EXCEPT ![p].call = "drop", ![p].then = "idle"]
  BY DEF link_bad
<1>3. /\ pc'[p] = "ilock" /\ at'[p] \in Call /\ at'[p].ip = at[p].ip /\ at'[p].put = 0 /\ at'[p].name = at[p].name
      /\ at'[p].then = "idle" /\ at'[p].call = "drop"
  BY <1>1, <1>2 DEF IInv, TypeOK, AtInv, Call
<1>4. at' \in [Proc -> Call] /\ pc' \in [Proc -> PC]
  BY <1>2, <1>3 DEF IInv, TypeOK, PC, AtInv
<1>5. \A q \in Proc : q # p => at'[q] = at[q] /\ pc'[q] = pc[q]
  BY <1>2 DEF IInv, TypeOK, AtInv
<1>6. /\ \A x \in Entry : ~ Holds(pc[p], at[p], x)
      /\ \A x \in Entry : ~ Holds(pc'[p], at'[p], x)
  BY <1>1, <1>3 DEF Holds, Locked, Put
<1>7. DirStep(p)
  BY <1>1, <1>3, <1>2 DEF DirStep, HoldsDir
<1>8. /\ Counted(pc[p], at[p])
      /\ Counted(pc'[p], at'[p])
  BY <1>1, <1>3 DEF Counted, Put
<1>9. /\ ~ (pc'[p] \in Locked)
      /\ ~ Using(pc'[p])
      /\ ~ Last(pc'[p])
      /\ ~ Sole(pc'[p])
      /\ ~ Unlinking(pc'[p], at'[p])
      /\ ~ Creating(pc'[p], at'[p])
  BY <1>1, <1>3 DEF Locked, Using, Last, Sole, Unlinking, Creating
<1>10. TypeOK'
  BY <1>1, <1>2, <1>4 DEF IInv, TypeOK, CacheEntry
<1>11. AtInv'
  <2>1. AtOK(pc'[p], at'[p])
    BY <1>1, <1>3 DEF AtOK, Locked, Put, NoCall
  <2> QED
    BY <1>4, <1>5, <2>1, AtStep
<1>12. LockInv'
  BY <1>2, <1>5, <1>6, <1>7, LockSame
<1>13. RefInv'
  <2>1. ASSUME NEW e \in Entry
        PROVE  icache'[e].ref = icache[e].ref + Own(at'[p], e) - Own(at[p], e)
    <3>1. icache[e].ref \in Nat /\ icache'[e].ref = icache[e].ref
      BY <1>2 DEF IInv, TypeOK
    <3>2. Own(at'[p], e) = Own(at[p], e) /\ Own(at[p], e) \in Nat
      BY <1>1, <1>3 DEF Own
    <3> QED
      BY <3>1, <3>2
  <2> QED
    BY <1>2, <1>5, <2>1, RefStep DEF IInv
<1>14. Once'
  BY <1>2 DEF IInv, TypeOK, Once
<1>15. Coherent'
  BY <1>2 DEF IInv, Coherent
<1>16. NoDangling'
  BY <1>2 DEF IInv, NoDangling
<1>17. ProcInv'
  <2>1. \A q \in Proc : q # p => Relies(q)'
    BY <1>2, <1>5, <1>3, OthersSame
  <2>2. ASSUME at'[p].ip # 0
        PROVE  dinode'[icache'[at'[p].ip].inum].type = "file"
    <3>1. /\ at'[p].ip = at[p].ip /\ at[p].ip \in Entry /\ icache[at[p].ip].ref > 0
          /\ icache[at[p].ip].inum \in Inum /\ dinode[icache[at[p].ip].inum].type = "file"
      BY <2>2, <1>3, Facts
    <3> QED
      BY <3>1, <1>2
  <2>3. Relies(p)'
    BY <2>2, <1>9 DEF Relies
  <2> QED
    BY <2>1, <2>3 DEF ProcInv
<1>18. LinkCounts'
  <2>1. ASSUME NEW i \in Inum
        PROVE  dinode'[i].nlink = dinode[i].nlink + PendN(p, i)' - PendN(p, i)
    <3>1. dinode[i].nlink \in Nat /\ PendN(p, i) \in {0, 1}
      BY DEF IInv, TypeOK, PendN
    <3>2. PendN(p, i)' = PendN(p, i)
      BY <1>3, <1>2, <1>8 DEF PendN, Pends
    <3> QED
      BY <3>1, <3>2, <1>2
  <2>2. \A q \in Proc : q # p /\ at[q].ip # 0 => icache'[at[q].ip].inum = icache[at[q].ip].inum
    BY <1>2, Facts
  <2> QED
    BY <1>1, <1>2, <1>5, <2>1, <2>2, LinkFrame DEF IInv
<1> QED
  BY <1>10, <1>11, <1>12, <1>13, <1>14, <1>15, <1>16, <1>17, <1>18 DEF IInv

\* The last close of a file puts its inode.
LEMMA sys_closeInv ==
  ASSUME IInv, NEW p \in Proc, NEW f \in File, sys_close(p, f)
  PROVE  IInv'
<1>1. Running /\ pc[p] = "idle" /\ at[p] = NoCall
  BY Facts DEF sys_close, AtOK, Locked, Put, NoCall, Call
<1>2. at[p].ip = 0 /\ at[p].put = 0 /\ at[p].then = "idle" /\ at[p].call = ""
  BY <1>1, NoCallIs
<1>3. /\ UNCHANGED <<dinode, icache, lock, dir, dirlock, panicked>>
      /\ fip[f] # 0 /\ fip' = [fip EXCEPT ![f] = 0]
      /\ at' = [at EXCEPT ![p] = [NoCall EXCEPT !.put = fip[f]]] /\ pc' = [pc EXCEPT ![p] = "iput"]
  BY DEF sys_close
<1>4. Running /\ pc[p] = "idle"
  BY <1>1
<1>5. /\ fip[f] \in Entry /\ dinode[icache[fip[f]].inum].type = "file"
      /\ 0 \notin Entry
  BY <1>3, Facts
<1>6. pc'[p] = "iput" /\ at'[p] \in Call /\ at'[p].ip = 0 /\ at'[p].put = fip[f] /\ at'[p].then = "idle" /\ at'[p].call = ""
  BY <1>5, <1>3 DEF IInv, TypeOK, AtInv, Call, NoCall
<1>7. at' \in [Proc -> Call] /\ pc' \in [Proc -> PC]
  BY <1>3, <1>6 DEF IInv, TypeOK, PC, AtInv
<1>8. \A q \in Proc : q # p => at'[q] = at[q] /\ pc'[q] = pc[q]
  BY <1>3 DEF IInv, TypeOK, AtInv
<1>9. /\ fip' \in [File -> Entry \cup {0}] /\ \A g \in File : g # f => fip'[g] = fip[g]
      /\ fip'[f] = 0
  BY <1>3 DEF IInv, TypeOK
<1>10. /\ \A x \in Entry : ~ Holds(pc[p], at[p], x)
       /\ \A x \in Entry : ~ Holds(pc'[p], at'[p], x)
  BY <1>4, <1>2, <1>6 DEF Holds, Locked, Put
<1>11. DirStep(p)
  BY <1>4, <1>2, <1>6, <1>3 DEF DirStep, HoldsDir
<1>12. /\ ~ Counted(pc[p], at[p])
       /\ ~ Counted(pc'[p], at'[p])
  BY <1>4, <1>2, <1>6 DEF Counted, Put
<1>13. /\ ~ (pc'[p] \in Locked)
       /\ ~ Using(pc[p])
       /\ Using(pc'[p])
       /\ ~ Last(pc'[p])
       /\ ~ Sole(pc'[p])
       /\ ~ Unlinking(pc'[p], at'[p])
       /\ ~ Creating(pc'[p], at'[p])
  BY <1>4, <1>2, <1>6 DEF Locked, Using, Last, Sole, Unlinking, Creating
<1>14. TypeOK'
  BY <1>3, <1>7, <1>9 DEF IInv, TypeOK, CacheEntry
<1>15. AtInv'
  <2>1. AtOK(pc'[p], at'[p])
    BY <1>6, <1>5 DEF AtOK, Locked, Put
  <2> QED
    BY <1>7, <1>8, <2>1, AtStep
<1>16. LockInv'
  BY <1>3, <1>8, <1>10, <1>11, LockSame
<1>17. RefInv'
  <2>1. ASSUME NEW e \in Entry
        PROVE  icache'[e].ref = icache[e].ref + Own(at'[p], e) - Own(at[p], e) + Is(fip'[f], e) - Is(fip[f], e)
    <3>0. /\ e # 0 /\ at'[p].ip = 0 /\ at'[p].put = fip[f]
          /\ at[p].ip = 0 /\ at[p].put = 0 /\ fip'[f] = 0
      BY <1>6, <1>5, <1>2, <1>9
    <3>1. Own(at'[p], e) = Is(fip[f], e)
      BY <3>0 DEF Own, Is
    <3>2. Own(at[p], e) = 0 /\ Is(fip'[f], e) = 0
      BY <3>0 DEF Own, Is
    <3>3. icache'[e].ref = icache[e].ref /\ icache[e].ref \in Nat /\ Is(fip[f], e) \in Nat
      BY <1>3 DEF IInv, TypeOK, Is
    <3> QED
      BY <3>1, <3>2, <3>3
  <2> QED
    BY <1>9, <1>8, <2>1, RefStepFile DEF IInv
<1>18. Once'
  BY <1>3 DEF IInv, TypeOK, Once
<1>19. Coherent'
  BY <1>3 DEF IInv, Coherent
<1>20. NoDangling'
  <2>1. panicked' \notin {"ilock: no type", "unlink: nlink < 1"}
    BY <1>3 DEF IInv, NoDangling
  <2>2. ASSUME NEW y \in Name, dir'[y] # 0
        PROVE  dinode'[dir'[y]].type = "file"
    BY <2>2, Facts, <1>3, <1>3
  <2>3. ASSUME NEW g \in File, fip'[g] # 0
        PROVE  dinode'[icache'[fip'[g]].inum].type = "file"
    BY <2>3, Facts, <1>3, <1>3, <1>9
  <2> QED
    BY <2>1, <2>2, <2>3 DEF NoDangling
<1>21. ProcInv'
  <2>1. \A q \in Proc : q # p => Relies(q)'
    BY <1>3, <1>8, <1>6, OthersSame
  <2>2. at'[p].ip = 0
    BY <1>6
  <2>3. ASSUME Using(pc'[p])
        PROVE  dinode'[icache'[at'[p].put].inum].type = "file"
    BY <2>3, <1>6, <1>5, <1>3
  <2>4. Relies(p)'
    BY <2>2, <2>3, <1>13 DEF Relies
  <2> QED
    BY <2>1, <2>4 DEF ProcInv
<1>22. LinkCounts'
  <2>1. ASSUME NEW i \in Inum
        PROVE  dinode'[i].nlink = dinode[i].nlink + PendN(p, i)' - PendN(p, i)
    <3>1. dinode[i].nlink \in Nat /\ PendN(p, i) \in {0, 1}
      BY DEF IInv, TypeOK, PendN
    <3>2. PendN(p, i) = 0 /\ PendN(p, i)' = 0
      BY <1>6, <1>12, Facts DEF PendN, Pends
    <3> QED
      BY <3>1, <3>2, <1>3
  <2>2. \A q \in Proc : q # p /\ at[q].ip # 0 => icache'[at[q].ip].inum = icache[at[q].ip].inum
    BY <1>3, Facts
  <2> QED
    BY <1>1, <1>3, <1>8, <2>1, <2>2, LinkFrame DEF IInv
<1> QED
  BY <1>14, <1>15, <1>16, <1>17, <1>18, <1>19, <1>20, <1>21, <1>22 DEF IInv

\* link makes the entry.
LEMMA link_entryInv ==
  ASSUME IInv, NEW p \in Proc, link_entry(p)
  PROVE  IInv'
<1>1. /\ Running /\ pc[p] = "dirlink" /\ at[p] \in Call
      /\ at[p].ip \in Entry /\ at[p].put = 0 /\ at[p].name \in Name /\ icache[at[p].ip].ref > 0
      /\ at[p].then = "idle" /\ at[p].call = "link"
  BY Facts DEF link_entry, AtOK, Locked, Put, NoCall, Call
<1>2. /\ UNCHANGED <<dinode, icache, lock, dirlock, fip, panicked>>
      /\ dirlock = NoProc /\ dir[at[p].name] = 0 /\ dir' = [dir EXCEPT ![at[p].name] = icache[at[p].ip].inum]
      /\ at' = [at EXCEPT ![p] = [NoCall EXCEPT !.put = at[p].ip]] /\ pc' = [pc EXCEPT ![p] = "iput"]
  BY DEF link_entry
<1>3. icache[at[p].ip].inum \in Inum /\ dinode[icache[at[p].ip].inum].type = "file"
  BY <1>1, Facts
<1>4. pc'[p] = "iput" /\ at'[p] \in Call /\ at'[p].ip = 0 /\ at'[p].put = at[p].ip /\ at'[p].then = "idle" /\ at'[p].call = ""
  BY <1>1, <1>2 DEF IInv, TypeOK, AtInv, Call, NoCall
<1>5. at' \in [Proc -> Call] /\ pc' \in [Proc -> PC]
  BY <1>2, <1>4 DEF IInv, TypeOK, PC, AtInv
<1>6. \A q \in Proc : q # p => at'[q] = at[q] /\ pc'[q] = pc[q]
  BY <1>2 DEF IInv, TypeOK, AtInv
<1>7. /\ dir' \in [Name -> Inum \cup {0}] /\ \A m \in Name : m # at[p].name => dir'[m] = dir[m]
      /\ dir'[at[p].name] = icache[at[p].ip].inum
  BY <1>1, <1>2, <1>3 DEF IInv, TypeOK
<1>8. \A q \in Proc : ~ HoldsDir(pc[q], at[q])
  BY <1>2, SentinelAssumption DEF IInv, LockInv
<1>9. /\ \A x \in Entry : ~ Holds(pc[p], at[p], x)
      /\ \A x \in Entry : ~ Holds(pc'[p], at'[p], x)
  BY <1>1, <1>4 DEF Holds, Locked, Put
<1>10. DirStep(p)
  BY <1>1, <1>4, <1>2 DEF DirStep, HoldsDir
<1>11. /\ Counted(pc[p], at[p])
       /\ ~ Counted(pc'[p], at'[p])
  BY <1>1, <1>4 DEF Counted, Put
<1>12. /\ ~ (pc'[p] \in Locked)
       /\ ~ Using(pc[p])
       /\ Using(pc'[p])
       /\ ~ Last(pc'[p])
       /\ ~ Sole(pc'[p])
       /\ ~ Unlinking(pc'[p], at'[p])
       /\ ~ Creating(pc'[p], at'[p])
  BY <1>1, <1>4 DEF Locked, Using, Last, Sole, Unlinking, Creating
<1>13. TypeOK'
  BY <1>2, <1>5, <1>7 DEF IInv, TypeOK, CacheEntry
<1>14. AtInv'
  <2>1. AtOK(pc'[p], at'[p])
    BY <1>1, <1>4 DEF AtOK, Locked, Put, NoCall
  <2> QED
    BY <1>5, <1>6, <2>1, AtStep
<1>15. LockInv'
  BY <1>2, <1>6, <1>9, <1>10, LockSame
<1>16. RefInv'
  <2>1. ASSUME NEW e \in Entry
        PROVE  icache'[e].ref = icache[e].ref + Own(at'[p], e) - Own(at[p], e)
    <3>1. 0 \notin Entry /\ icache[e].ref \in Nat
      BY Facts DEF IInv, TypeOK
    <3>2. at[p].put = 0 /\ at'[p].ip = 0 /\ at'[p].put = at[p].ip
      BY <1>1, <1>4
    <3>3. Own(at'[p], e) = Own(at[p], e)
      BY <3>1, <3>2 DEF Own
    <3>4. icache'[e].ref = icache[e].ref /\ Own(at[p], e) \in Nat
      BY <1>2 DEF Own
    <3> QED
      BY <3>1, <3>3, <3>4
  <2> QED
    BY <1>2, <1>6, <2>1, RefStep DEF IInv
<1>17. Once'
  BY <1>2 DEF IInv, TypeOK, Once
<1>18. Coherent'
  BY <1>2 DEF IInv, Coherent
<1>19. NoDangling'
  <2>1. panicked' \notin {"ilock: no type", "unlink: nlink < 1"}
    BY <1>2 DEF IInv, NoDangling
  <2>2. ASSUME NEW y \in Name, dir'[y] # 0
        PROVE  dinode'[dir'[y]].type = "file"
    BY <2>2, Facts, <1>2, <1>2, <1>7, <1>3
  <2>3. ASSUME NEW g \in File, fip'[g] # 0
        PROVE  dinode'[icache'[fip'[g]].inum].type = "file"
    BY <2>3, Facts, <1>2, <1>2
  <2> QED
    BY <2>1, <2>2, <2>3 DEF NoDangling
<1>20. ProcInv'
  <2>1. \A q \in Proc : q # p => Relies(q)'
    <3>1. Keeps(0) /\ 0 \notin Entry
      BY <1>2, Facts DEF IInv, Once, Keeps
    <3>2. \A q \in Proc : q # p /\ Last(pc[q]) => icache'[at[q].put].nlink = icache[at[q].put].nlink
      BY AtFacts, <1>2
    <3>3. \A q \in Proc : q # p /\ Sole(pc[q]) => icache'[at[q].put].ref = icache[at[q].put].ref
      BY AtFacts, <1>2
    <3>4. \A q \in Proc : q # p /\ HoldsDir(pc[q], at[q]) => UNCHANGED dir /\ at'[p].ip \in {0, at[p].ip}
      BY <1>8
    <3>5. \A g \in Entry : icache[g].ref > 0 /\ g # at[p].ip =>
                            dinode'[icache[g].inum].nlink = dinode[icache[g].inum].nlink
      BY <1>2 DEF IInv, Once
    <3> QED
      BY <1>6, <3>1, <3>2, <3>3, <3>4, <3>5, OthersKeep
  <2>2. at'[p].ip = 0
    BY <1>4
  <2>3. ASSUME Using(pc'[p])
        PROVE  dinode'[icache'[at'[p].put].inum].type = "file"
    BY <2>3, <1>4, <1>3, <1>2
  <2>4. Relies(p)'
    BY <2>2, <2>3, <1>12 DEF Relies
  <2> QED
    BY <2>1, <2>4 DEF ProcInv
<1>21. LinkCounts'
  <2>1. ASSUME NEW i \in Inum
        PROVE  dinode'[i].nlink = dinode[i].nlink + Is(dir'[at[p].name], i) - Is(dir[at[p].name], i)
                                                  + PendN(p, i)' - PendN(p, i)
    <3>1. dinode[i].nlink \in Nat /\ dinode'[i].nlink = dinode[i].nlink
      BY <1>2 DEF IInv, TypeOK
    <3>2. PendN(p, i) = Is(icache[at[p].ip].inum, i) /\ PendN(p, i)' = 0
      BY <1>1, <1>4, <1>11, Facts DEF PendN, Pends, Is
    <3>3. Is(dir'[at[p].name], i) = Is(icache[at[p].ip].inum, i) /\ Is(dir[at[p].name], i) = 0
      BY <1>2, <1>7, Facts DEF Is
    <3>4. Is(icache[at[p].ip].inum, i) \in Nat
      BY DEF Is
    <3> QED
      BY <3>1, <3>2, <3>3, <3>4
  <2>2. \A q \in Proc : q # p /\ at[q].ip # 0 => icache'[at[q].ip].inum = icache[at[q].ip].inum
    BY <1>2
  <2>3. at[p].name \in Name /\ Running
    BY <1>1
  <2> QED
    BY <1>7, <1>6, <2>1, <2>2, <2>3, LinkFrameDir DEF IInv
<1> QED
  BY <1>13, <1>14, <1>15, <1>16, <1>17, <1>18, <1>19, <1>20, <1>21 DEF IInv

\* unlink clears the directory entry.
LEMMA unlink_entryInv ==
  ASSUME IInv, NEW p \in Proc, unlink_entry(p)
  PROVE  IInv'
<1>1. /\ Running /\ pc[p] = "unlink" /\ at[p] \in Call
      /\ at[p].ip \in Entry /\ at[p].put = 0 /\ at[p].name \in Name /\ icache[at[p].ip].ref > 0
      /\ at[p].then = "idle" /\ at[p].call = "unlink"
  BY Facts DEF unlink_entry, AtOK, Locked, Put, NoCall, Call
<1>2. Unlinking(pc[p], at[p]) /\ pc[p] \in Locked
  BY <1>1 DEF Unlinking, Locked
<1>3. dir[at[p].name] = icache[at[p].ip].inum /\ HoldsDir(pc[p], at[p]) /\ icache[at[p].ip].valid
  BY <1>2, AtFacts
<1>4. icache[at[p].ip].inum \in Inum /\ dinode[icache[at[p].ip].inum].nlink = icache[at[p].ip].nlink
  BY <1>1, <1>3 DEF IInv, Once, Coherent
<1>5. icache[at[p].ip].nlink \in Nat /\ icache[at[p].ip].nlink # 0
  BY <1>1, <1>3, <1>4, Links DEF IInv
<1>6. /\ UNCHANGED <<dinode, icache, lock, fip, at, panicked>>
      /\ dir' = [dir EXCEPT ![at[p].name] = 0] /\ dirlock' = NoProc /\ pc' = [pc EXCEPT ![p] = "drop"]
  <2>1. ~ (icache[at[p].ip].nlink < 1)
    BY <1>5
  <2> QED
    BY <2>1 DEF unlink_entry
<1>7. \A q \in Proc : q # p => ~ HoldsDir(pc[q], at[q])
  BY <1>3 DEF IInv, LockInv
<1>8. at' \in [Proc -> Call] /\ pc' \in [Proc -> PC]
  BY <1>1, <1>6 DEF IInv, TypeOK, PC, AtInv
<1>9. \A q \in Proc : q # p => at'[q] = at[q] /\ pc'[q] = pc[q]
  BY <1>6 DEF IInv, TypeOK, AtInv
<1>10. at'[p] = at[p] /\ pc'[p] = "drop"
  BY <1>6 DEF IInv, TypeOK
<1>11. /\ dir' \in [Name -> Inum \cup {0}] /\ \A m \in Name : m # at[p].name => dir'[m] = dir[m]
       /\ dir'[at[p].name] = 0
  BY <1>1, <1>6 DEF IInv, TypeOK
<1>12. /\ \A x \in Entry : Holds(pc[p], at[p], x) <=> x = at[p].ip
       /\ \A x \in Entry : Holds(pc'[p], at'[p], x) <=> x = at[p].ip
  BY <1>1, <1>10 DEF Holds, Locked, Put
<1>13. DirStep(p)
  BY <1>1, <1>10, <1>6 DEF DirStep, HoldsDir
<1>14. /\ ~ Counted(pc[p], at[p])
       /\ Counted(pc'[p], at'[p])
  BY <1>1, <1>10 DEF Counted, Put
<1>15. /\ (pc[p] \in Locked)
       /\ (pc'[p] \in Locked)
       /\ ~ Using(pc'[p])
       /\ ~ Last(pc'[p])
       /\ ~ Sole(pc'[p])
       /\ ~ Unlinking(pc'[p], at'[p])
       /\ ~ Creating(pc'[p], at'[p])
  BY <1>1, <1>10 DEF Locked, Using, Last, Sole, Unlinking, Creating
<1>16. TypeOK'
  BY <1>6, <1>8, <1>11 DEF IInv, TypeOK, CacheEntry
<1>17. AtInv'
  <2>1. AtOK(pc'[p], at'[p])
    BY <1>1, <1>10 DEF AtOK, Locked, Put, NoCall
  <2> QED
    BY <1>8, <1>9, <2>1, AtStep
<1>18. LockInv'
  BY <1>6, <1>9, <1>12, <1>13, LockSame
<1>19. RefInv'
  <2>1. ASSUME NEW e \in Entry
        PROVE  icache'[e].ref = icache[e].ref + Own(at'[p], e) - Own(at[p], e)
    <3>1. icache[e].ref \in Nat /\ icache'[e].ref = icache[e].ref
      BY <1>6 DEF IInv, TypeOK
    <3>2. Own(at'[p], e) = Own(at[p], e) /\ Own(at[p], e) \in Nat
      BY <1>10 DEF Own
    <3> QED
      BY <3>1, <3>2
  <2> QED
    BY <1>6, <1>9, <2>1, RefStep DEF IInv
<1>20. Once'
  BY <1>6 DEF IInv, TypeOK, Once
<1>21. Coherent'
  BY <1>6 DEF IInv, Coherent
<1>22. NoDangling'
  <2>1. panicked' \notin {"ilock: no type", "unlink: nlink < 1"}
    BY <1>6 DEF IInv, NoDangling
  <2>2. ASSUME NEW y \in Name, dir'[y] # 0
        PROVE  dinode'[dir'[y]].type = "file"
    BY <2>2, Facts, <1>6, <1>6, <1>11
  <2>3. ASSUME NEW g \in File, fip'[g] # 0
        PROVE  dinode'[icache'[fip'[g]].inum].type = "file"
    BY <2>3, Facts, <1>6, <1>6
  <2> QED
    BY <2>1, <2>2, <2>3 DEF NoDangling
<1>23. ProcInv'
  <2>1. \A q \in Proc : q # p => Relies(q)'
    <3>1. Keeps(0) /\ 0 \notin Entry
      BY <1>6, Facts DEF IInv, Once, Keeps
    <3>2. \A q \in Proc : q # p /\ Last(pc[q]) => icache'[at[q].put].nlink = icache[at[q].put].nlink
      BY AtFacts, <1>6
    <3>3. \A q \in Proc : q # p /\ Sole(pc[q]) => icache'[at[q].put].ref = icache[at[q].put].ref
      BY AtFacts, <1>6
    <3>4. \A q \in Proc : q # p /\ HoldsDir(pc[q], at[q]) => UNCHANGED dir /\ at'[p].ip \in {0, at[p].ip}
      BY <1>7
    <3>5. \A g \in Entry : icache[g].ref > 0 /\ g # at[p].ip =>
                            dinode'[icache[g].inum].nlink = dinode[icache[g].inum].nlink
      BY <1>6 DEF IInv, Once
    <3> QED
      BY <1>9, <3>1, <3>2, <3>3, <3>4, <3>5, OthersKeep
  <2>2. ASSUME at'[p].ip # 0
        PROVE  dinode'[icache'[at'[p].ip].inum].type = "file"
    <3>1. /\ at'[p].ip = at[p].ip /\ at[p].ip \in Entry /\ icache[at[p].ip].ref > 0
          /\ icache[at[p].ip].inum \in Inum /\ dinode[icache[at[p].ip].inum].type = "file"
      BY <2>2, <1>10, Facts
    <3> QED
      BY <3>1, <1>6
  <2>3. ASSUME pc'[p] \in Locked
        PROVE  icache'[at'[p].ip].valid
    BY <2>3, <1>15, <1>10, <1>6, AtFacts
  <2>4. Relies(p)'
    BY <2>2, <2>3, <1>15 DEF Relies
  <2> QED
    BY <2>1, <2>4 DEF ProcInv
<1>24. LinkCounts'
  <2>1. ASSUME NEW i \in Inum
        PROVE  dinode'[i].nlink = dinode[i].nlink + Is(dir'[at[p].name], i) - Is(dir[at[p].name], i)
                                                  + PendN(p, i)' - PendN(p, i)
    <3>1. dinode[i].nlink \in Nat /\ dinode'[i].nlink = dinode[i].nlink
      BY <1>6 DEF IInv, TypeOK
    <3>2. PendN(p, i)' = Is(icache[at[p].ip].inum, i) /\ PendN(p, i) = 0
      BY <1>1, <1>10, <1>6, <1>14, Facts DEF PendN, Pends, Is
    <3>3. Is(dir[at[p].name], i) = Is(icache[at[p].ip].inum, i) /\ Is(dir'[at[p].name], i) = 0
      BY <1>3, <1>11, Facts DEF Is
    <3>4. Is(icache[at[p].ip].inum, i) \in Nat
      BY DEF Is
    <3> QED
      BY <3>1, <3>2, <3>3, <3>4
  <2>2. \A q \in Proc : q # p /\ at[q].ip # 0 => icache'[at[q].ip].inum = icache[at[q].ip].inum
    BY <1>6
  <2>3. at[p].name \in Name /\ Running
    BY <1>1
  <2> QED
    BY <1>11, <1>9, <2>1, <2>2, <2>3, LinkFrameDir DEF IInv
<1> QED
  BY <1>16, <1>17, <1>18, <1>19, <1>20, <1>21, <1>22, <1>23, <1>24 DEF IInv

\* ilock: the first holder after iget reads the inode.
LEMMA ilockInv ==
  ASSUME IInv, NEW p \in Proc, ilock(p)
  PROVE  IInv'
<1>1. /\ Running /\ pc[p] = "ilock" /\ at[p] \in Call
      /\ at[p].ip \in Entry /\ at[p].put = 0 /\ at[p].name \in Name /\ icache[at[p].ip].ref > 0
      /\ at[p].then = "idle" /\ at[p].call \in {"open", "unlink", "link", "create", "drop"}
  BY Facts DEF ilock, AtOK, Locked, Put, NoCall, Call
<1>2. /\ icache[at[p].ip].inum \in Inum /\ dinode[icache[at[p].ip].inum].type = "file"
      /\ icache[at[p].ip].valid => icache[at[p].ip].type = "file" /\ icache[at[p].ip].nlink = dinode[icache[at[p].ip].inum].nlink
  BY <1>1, Facts DEF IInv, Coherent
<1>3. \/ icache[at[p].ip].valid /\ UNCHANGED <<icache, panicked>>
      \/ /\ ~ icache[at[p].ip].valid /\ UNCHANGED panicked
         /\ icache' = [icache EXCEPT ![at[p].ip].valid = TRUE, ![at[p].ip].type = dinode[icache[at[p].ip].inum].type,
                                    ![at[p].ip].nlink = dinode[icache[at[p].ip].inum].nlink]
  BY <1>1, <1>2 DEF ilock, Running
<1>4. /\ UNCHANGED <<dinode, dir, dirlock, fip, at>>
      /\ panicked' = panicked
      /\ lock[at[p].ip] = NoProc /\ lock' = [lock EXCEPT ![at[p].ip] = p]
      /\ pc' = [pc EXCEPT ![p] = at[p].call]
  BY <1>3 DEF ilock
<1>5. icache \in [Entry -> CacheEntry]
  BY DEF IInv, TypeOK, CacheEntry
<1>6. dinode[icache[at[p].ip].inum].type = "file" /\ dinode[icache[at[p].ip].inum].nlink \in Nat
  BY <1>2 DEF IInv, TypeOK
<1>7. /\ icache' \in [Entry -> CacheEntry]
      /\ \A e \in Entry : e # at[p].ip => icache'[e] = icache[e]
      /\ \A e \in Entry : icache'[e].ref = icache[e].ref /\ icache'[e].inum = icache[e].inum
      /\ icache[at[p].ip].valid => icache'[at[p].ip] = icache[at[p].ip]
      /\ icache'[at[p].ip].valid /\ icache'[at[p].ip].type = "file" /\ icache'[at[p].ip].nlink = dinode[icache[at[p].ip].inum].nlink
  <2>1. CASE icache[at[p].ip].valid /\ UNCHANGED icache
    BY <2>1, <1>1, <1>2, <1>5
  <2>2. CASE /\ ~ icache[at[p].ip].valid
             /\ icache' = [icache EXCEPT ![at[p].ip].valid = TRUE, ![at[p].ip].type = dinode[icache[at[p].ip].inum].type,
                                        ![at[p].ip].nlink = dinode[icache[at[p].ip].inum].nlink]
    <3>1. \A e \in Entry : e # at[p].ip => icache'[e] = icache[e]
      BY <2>2, <1>5
    <3>2. icache'[at[p].ip] = [icache[at[p].ip] EXCEPT !.valid = TRUE, !.type = dinode[icache[at[p].ip].inum].type,
                                                       !.nlink = dinode[icache[at[p].ip].inum].nlink]
      BY <2>2, <1>1, <1>5
    <3>3. /\ icache'[at[p].ip] \in CacheEntry /\ icache'[at[p].ip].ref = icache[at[p].ip].ref
          /\ icache'[at[p].ip].inum = icache[at[p].ip].inum /\ icache'[at[p].ip].valid
          /\ icache'[at[p].ip].type = "file" /\ icache'[at[p].ip].nlink = dinode[icache[at[p].ip].inum].nlink
      BY <3>2, <1>1, <1>5, <1>6 DEF CacheEntry
    <3>4. icache' \in [Entry -> CacheEntry]
      BY <2>2, <3>1, <3>3, <1>5
    <3> QED
      BY <2>2, <3>1, <3>3, <3>4
  <2> QED
    BY <1>3, <2>1, <2>2
<1>8. at' \in [Proc -> Call] /\ pc' \in [Proc -> PC]
  BY <1>1, <1>4 DEF IInv, TypeOK, PC, AtInv
<1>9. \A q \in Proc : q # p => at'[q] = at[q] /\ pc'[q] = pc[q]
  BY <1>4 DEF IInv, TypeOK, AtInv
<1>10. at'[p] = at[p] /\ pc'[p] = at[p].call
  BY <1>4 DEF IInv, TypeOK
<1>11. /\ \A x \in Entry : ~ Holds(pc[p], at[p], x)
       /\ \A x \in Entry : Holds(pc'[p], at'[p], x) <=> x = at[p].ip
  BY <1>1, <1>10 DEF Holds, Locked, Put
<1>12. DirStep(p)
  BY <1>1, <1>10, <1>4 DEF DirStep, HoldsDir
<1>13. Counted(pc'[p], at'[p]) <=> Counted(pc[p], at[p])
  BY <1>1, <1>10 DEF Counted, Put
<1>14. /\ ~ (pc[p] \in Locked)
       /\ (pc'[p] \in Locked)
       /\ ~ Using(pc'[p])
       /\ ~ Last(pc'[p])
       /\ ~ Sole(pc'[p])
       /\ Unlinking(pc'[p], at'[p]) <=> Unlinking(pc[p], at[p])
       /\ Creating(pc'[p], at'[p]) <=> Creating(pc[p], at[p])
  BY <1>1, <1>10 DEF Locked, Using, Last, Sole, Unlinking, Creating
<1>15. TypeOK'
  BY <1>1, <1>4, <1>8, <1>7 DEF IInv, TypeOK, CacheEntry
<1>16. AtInv'
  <2>1. AtOK(pc'[p], at'[p])
    BY <1>1, <1>10 DEF AtOK, Locked, Put, NoCall
  <2> QED
    BY <1>8, <1>9, <2>1, AtStep
<1>17. LockInv'
  BY <1>1, <1>4, <1>9, <1>11, <1>12, LockTake
<1>18. RefInv'
  <2>1. ASSUME NEW e \in Entry
        PROVE  icache'[e].ref = icache[e].ref + Own(at'[p], e) - Own(at[p], e)
    <3>1. icache[e].ref \in Nat /\ icache'[e].ref = icache[e].ref
      BY <1>7 DEF IInv, TypeOK
    <3>2. Own(at'[p], e) = Own(at[p], e) /\ Own(at[p], e) \in Nat
      BY <1>10 DEF Own
    <3> QED
      BY <3>1, <3>2
  <2> QED
    BY <1>4, <1>9, <2>1, RefStep DEF IInv
<1>19. Once'
  BY <1>7 DEF IInv, TypeOK, Once
<1>20. Coherent'
  <2>1. ASSUME NEW g \in Entry, icache'[g].ref > 0, icache'[g].valid
        PROVE  /\ dinode'[icache'[g].inum].type = "file" /\ icache'[g].type = "file"
               /\ dinode'[icache'[g].inum].nlink = icache'[g].nlink
    BY <2>1, <1>7, <1>4, <1>2 DEF IInv, Coherent, Once, TypeOK
  <2>2. \A i \in Inum : dinode'[i].type = "free" => dinode'[i].nlink = 0
    BY <1>4 DEF IInv, Coherent, TypeOK
  <2> QED
    BY <2>1, <2>2 DEF Coherent
<1>21. NoDangling'
  <2>1. panicked' \notin {"ilock: no type", "unlink: nlink < 1"}
    BY <1>4 DEF IInv, NoDangling
  <2>2. ASSUME NEW y \in Name, dir'[y] # 0
        PROVE  dinode'[dir'[y]].type = "file"
    BY <2>2, Facts, <1>4, <1>4
  <2>3. ASSUME NEW g \in File, fip'[g] # 0
        PROVE  dinode'[icache'[fip'[g]].inum].type = "file"
    BY <2>3, Facts, <1>4, <1>7, <1>4
  <2> QED
    BY <2>1, <2>2, <2>3 DEF NoDangling
<1>22. ProcInv'
  <2>1. \A q \in Proc : q # p => Relies(q)'
    <3>1. Keeps(0) /\ 0 \notin Entry
      BY <1>7, <1>4, Facts DEF IInv, Once, Keeps
    <3>2. \A q \in Proc : q # p /\ Last(pc[q]) => icache'[at[q].put].nlink = icache[at[q].put].nlink
      BY AtFacts, <1>7
    <3>3. \A q \in Proc : q # p /\ Sole(pc[q]) => icache'[at[q].put].ref = icache[at[q].put].ref
      BY AtFacts, <1>7
    <3>4. \A q \in Proc : q # p /\ HoldsDir(pc[q], at[q]) => UNCHANGED dir /\ at'[p].ip \in {0, at[p].ip}
      BY <1>4, <1>10
    <3>5. \A g \in Entry : icache[g].ref > 0 /\ g # at[p].ip =>
                            dinode'[icache[g].inum].nlink = dinode[icache[g].inum].nlink
      BY <1>4 DEF IInv, Once
    <3> QED
      BY <1>9, <3>1, <3>2, <3>3, <3>4, <3>5, OthersKeep
  <2>2. ASSUME at'[p].ip # 0
        PROVE  dinode'[icache'[at'[p].ip].inum].type = "file"
    <3>1. /\ at'[p].ip = at[p].ip /\ at[p].ip \in Entry /\ icache[at[p].ip].ref > 0
          /\ icache[at[p].ip].inum \in Inum /\ dinode[icache[at[p].ip].inum].type = "file"
      BY <2>2, <1>10, Facts
    <3> QED
      BY <3>1, <1>7, <1>4
  <2>3. ASSUME pc'[p] \in Locked
        PROVE  icache'[at'[p].ip].valid
    BY <2>3, <1>10, <1>7
  <2>4. ASSUME Unlinking(pc'[p], at'[p])
        PROVE  dir'[at'[p].name] = icache'[at'[p].ip].inum
    BY <2>4, <1>14, <1>10, <1>7, <1>4, AtFacts
  <2>5. ASSUME Creating(pc'[p], at'[p])
        PROVE  /\ dir'[at'[p].name] = 0 /\ dinode'[icache'[at'[p].ip].inum].nlink = 0
               /\ \A q \in Proc : q # p => at'[q].ip # at'[p].ip
    <3>1. /\ at[p].ip \in Entry /\ dir[at[p].name] = 0 /\ dinode[icache[at[p].ip].inum].nlink = 0
          /\ \A r \in Proc : r # p => at[r].ip # at[p].ip
      BY <2>5, <1>14, AtFacts
    <3> QED
      BY <3>1, <1>10, <1>4, <1>7, <1>9
  <2>6. Relies(p)'
    BY <2>2, <2>3, <2>4, <2>5, <1>14 DEF Relies
  <2> QED
    BY <2>1, <2>6 DEF ProcInv
<1>23. LinkCounts'
  <2>1. ASSUME NEW i \in Inum
        PROVE  dinode'[i].nlink = dinode[i].nlink + PendN(p, i)' - PendN(p, i)
    <3>1. dinode[i].nlink \in Nat /\ PendN(p, i) \in {0, 1}
      BY DEF IInv, TypeOK, PendN
    <3>2. PendN(p, i)' = PendN(p, i)
      BY <1>1, <1>10, <1>7, <1>13 DEF PendN, Pends
    <3> QED
      BY <3>1, <3>2, <1>4
  <2>2. \A q \in Proc : q # p /\ at[q].ip # 0 => icache'[at[q].ip].inum = icache[at[q].ip].inum
    BY <1>7, Facts
  <2> QED
    BY <1>1, <1>4, <1>9, <2>1, <2>2, LinkFrame DEF IInv
<1> QED
  BY <1>15, <1>16, <1>17, <1>18, <1>19, <1>20, <1>21, <1>22, <1>23 DEF IInv

\* link counts the new link before it exists.
LEMMA link_countInv ==
  ASSUME IInv, NEW p \in Proc, link_count(p)
  PROVE  IInv'
<1>1. /\ Running /\ pc[p] = "link" /\ at[p] \in Call
      /\ at[p].ip \in Entry /\ at[p].put = 0 /\ at[p].name \in Name /\ icache[at[p].ip].ref > 0
      /\ at[p].then = "idle" /\ at[p].call = "link"
  BY Facts DEF link_count, AtOK, Locked, Put, NoCall, Call
<1>2. pc[p] \in Locked
  BY <1>1 DEF Locked
<1>3. /\ icache[at[p].ip].inum \in Inum /\ dinode[icache[at[p].ip].inum].type = "file"
      /\ icache[at[p].ip].valid /\ icache[at[p].ip].type = "file" /\ icache[at[p].ip].nlink \in Nat
      /\ dinode[icache[at[p].ip].inum].nlink = icache[at[p].ip].nlink
  <2>1. icache[at[p].ip].valid /\ Holds(pc[p], at[p], at[p].ip)
    BY <1>2, AtFacts
  <2>2. icache[at[p].ip].inum \in Inum /\ dinode[icache[at[p].ip].inum].type = "file" /\ icache[at[p].ip].nlink \in Nat
    BY <1>1, Facts DEF IInv, TypeOK
  <2> QED
    BY <1>1, <2>1, <2>2 DEF IInv, Coherent
<1>4. \A q \in Proc : q # p => ~ Holds(pc[q], at[q], at[p].ip)
  BY <1>1, <1>2, AtFacts DEF IInv, LockInv
<1>5. \A e \in Entry : icache[e].ref > 0 /\ icache[e].inum = icache[at[p].ip].inum => e = at[p].ip
  BY <1>1 DEF IInv, Once
<1>6. /\ UNCHANGED <<dir, dirlock, fip, at, panicked>>
      /\ lock' = [lock EXCEPT ![at[p].ip] = NoProc] /\ pc' = [pc EXCEPT ![p] = "dirlink"]
      /\ Store(at[p].ip, icache[at[p].ip].type, icache[at[p].ip].nlink + 1)
  BY DEF link_count
<1>7. /\ icache' \in [Entry -> CacheEntry]
      /\ \A e \in Entry : icache'[e].ref = icache[e].ref /\ icache'[e].inum = icache[e].inum
      /\ \A e \in Entry : e # at[p].ip => icache'[e] = icache[e]
      /\ \A e \in Entry : icache'[e].valid = icache[e].valid
      /\ icache'[at[p].ip].type = "file" /\ icache'[at[p].ip].nlink = icache[at[p].ip].nlink + 1
  BY <1>1, <1>6, <1>3, StoreDoes DEF IInv
<1>8. /\ dinode' \in [Inum -> [type : {"free", "file"}, nlink : Nat]]
      /\ dinode'[icache[at[p].ip].inum].type = "file" /\ dinode'[icache[at[p].ip].inum].nlink = icache[at[p].ip].nlink + 1
      /\ \A i \in Inum : i # icache[at[p].ip].inum => dinode'[i] = dinode[i]
  BY <1>1, <1>6, <1>3, StoreDoes DEF IInv
<1>9. at' \in [Proc -> Call] /\ pc' \in [Proc -> PC]
  BY <1>1, <1>6 DEF IInv, TypeOK, PC, AtInv
<1>10. \A q \in Proc : q # p => at'[q] = at[q] /\ pc'[q] = pc[q]
  BY <1>6 DEF IInv, TypeOK, AtInv
<1>11. at'[p] = at[p] /\ pc'[p] = "dirlink"
  BY <1>6 DEF IInv, TypeOK
<1>12. /\ \A x \in Entry : Holds(pc[p], at[p], x) <=> x = at[p].ip
       /\ \A x \in Entry : ~ Holds(pc'[p], at'[p], x)
  BY <1>1, <1>11 DEF Holds, Locked, Put
<1>13. DirStep(p)
  BY <1>1, <1>11, <1>6 DEF DirStep, HoldsDir
<1>14. /\ ~ Counted(pc[p], at[p])
       /\ Counted(pc'[p], at'[p])
  BY <1>1, <1>11 DEF Counted, Put
<1>15. /\ ~ (pc'[p] \in Locked)
       /\ ~ Using(pc'[p])
       /\ ~ Last(pc'[p])
       /\ ~ Sole(pc'[p])
       /\ ~ Unlinking(pc'[p], at'[p])
       /\ ~ Creating(pc'[p], at'[p])
  BY <1>1, <1>11 DEF Locked, Using, Last, Sole, Unlinking, Creating
<1>16. TypeOK'
  BY <1>1, <1>6, <1>9, <1>7, <1>8 DEF IInv, TypeOK, CacheEntry
<1>17. AtInv'
  <2>1. AtOK(pc'[p], at'[p])
    BY <1>1, <1>11 DEF AtOK, Locked, Put, NoCall
  <2> QED
    BY <1>9, <1>10, <2>1, AtStep
<1>18. LockInv'
  BY <1>1, <1>6, <1>10, <1>12, <1>13, LockFree
<1>19. RefInv'
  <2>1. ASSUME NEW e \in Entry
        PROVE  icache'[e].ref = icache[e].ref + Own(at'[p], e) - Own(at[p], e)
    <3>1. icache[e].ref \in Nat /\ icache'[e].ref = icache[e].ref
      BY <1>7 DEF IInv, TypeOK
    <3>2. Own(at'[p], e) = Own(at[p], e) /\ Own(at[p], e) \in Nat
      BY <1>11 DEF Own
    <3> QED
      BY <3>1, <3>2
  <2> QED
    BY <1>6, <1>10, <2>1, RefStep DEF IInv
<1>20. Once'
  BY <1>7 DEF IInv, TypeOK, Once
<1>21. Coherent'
  <2>1. ASSUME NEW g \in Entry, icache'[g].ref > 0, icache'[g].valid
        PROVE  /\ dinode'[icache'[g].inum].type = "file" /\ icache'[g].type = "file"
               /\ dinode'[icache'[g].inum].nlink = icache'[g].nlink
    <3>1. CASE g = at[p].ip
      BY <3>1, <1>7, <1>8, <1>1
    <3>2. CASE g # at[p].ip
      <4>1. icache'[g] = icache[g]
        BY <3>2, <1>7
      <4>2. icache[g].inum \in Inum /\ icache[g].inum # icache[at[p].ip].inum
        BY <2>1, <3>2, <4>1, <1>5 DEF IInv, Once
      <4>3. dinode'[icache[g].inum] = dinode[icache[g].inum]
        BY <4>2, <1>8
      <4> QED
        BY <2>1, <4>1, <4>3 DEF IInv, Coherent
    <3> QED
      BY <3>1, <3>2
  <2>2. \A i \in Inum : dinode'[i].type = "free" => dinode'[i].nlink = 0
    BY <1>8 DEF IInv, Coherent, TypeOK
  <2> QED
    BY <2>1, <2>2 DEF Coherent
<1>22. NoDangling'
  <2>1. panicked' \notin {"ilock: no type", "unlink: nlink < 1"}
    BY <1>6 DEF IInv, NoDangling
  <2>2. ASSUME NEW y \in Name, dir'[y] # 0
        PROVE  dinode'[dir'[y]].type = "file"
    BY <2>2, Facts, <1>6, <1>8
  <2>3. ASSUME NEW g \in File, fip'[g] # 0
        PROVE  dinode'[icache'[fip'[g]].inum].type = "file"
    BY <2>3, Facts, <1>6, <1>7, <1>8
  <2> QED
    BY <2>1, <2>2, <2>3 DEF NoDangling
<1>23. ProcInv'
  <2>1. \A q \in Proc : q # p => Relies(q)'
    <3>1. Keeps(0) /\ 0 \notin Entry
      BY <1>7, <1>8, Facts DEF IInv, Once, Keeps
    <3>2. \A q \in Proc : q # p /\ Last(pc[q]) => icache'[at[q].put].nlink = icache[at[q].put].nlink
      BY AtFacts, <1>7, <1>4
    <3>3. \A q \in Proc : q # p /\ Sole(pc[q]) => icache'[at[q].put].ref = icache[at[q].put].ref
      BY AtFacts, <1>7
    <3>4. \A q \in Proc : q # p /\ HoldsDir(pc[q], at[q]) => UNCHANGED dir /\ at'[p].ip \in {0, at[p].ip}
      BY <1>6, <1>11
    <3>5. \A g \in Entry : icache[g].ref > 0 /\ g # at[p].ip =>
                            dinode'[icache[g].inum].nlink = dinode[icache[g].inum].nlink
      BY <1>8, <1>5 DEF IInv, Once
    <3> QED
      BY <1>10, <3>1, <3>2, <3>3, <3>4, <3>5, OthersKeep
  <2>2. ASSUME at'[p].ip # 0
        PROVE  dinode'[icache'[at'[p].ip].inum].type = "file"
    <3>1. /\ at'[p].ip = at[p].ip /\ at[p].ip \in Entry /\ icache[at[p].ip].ref > 0
          /\ icache[at[p].ip].inum \in Inum /\ dinode[icache[at[p].ip].inum].type = "file"
      BY <2>2, <1>11, Facts
    <3> QED
      BY <3>1, <1>7, <1>8
  <2>3. Relies(p)'
    BY <2>2, <1>15 DEF Relies
  <2> QED
    BY <2>1, <2>3 DEF ProcInv
<1>24. LinkCounts'
  <2>1. ASSUME NEW i \in Inum
        PROVE  dinode'[i].nlink = dinode[i].nlink + PendN(p, i)' - PendN(p, i)
    <3>1. dinode[i].nlink \in Nat /\ PendN(p, i) \in {0, 1}
      BY DEF IInv, TypeOK, PendN
    <3>2. PendN(p, i) = 0 /\ PendN(p, i)' = Is(icache[at[p].ip].inum, i)
      BY <1>1, <1>11, <1>7, <1>14, Facts DEF PendN, Pends, Is
    <3>3. dinode'[i].nlink = dinode[i].nlink + Is(icache[at[p].ip].inum, i)
      BY <1>3, <1>8, <3>1 DEF Is
    <3>4. Is(icache[at[p].ip].inum, i) \in Nat
      BY DEF Is
    <3> QED
      BY <3>1, <3>2, <3>3, <3>4
  <2>2. \A q \in Proc : q # p /\ at[q].ip # 0 => icache'[at[q].ip].inum = icache[at[q].ip].inum
    BY <1>7, Facts
  <2> QED
    BY <1>1, <1>6, <1>10, <2>1, <2>2, LinkFrame DEF IInv
<1> QED
  BY <1>16, <1>17, <1>18, <1>19, <1>20, <1>21, <1>22, <1>23, <1>24 DEF IInv

\* The link goes from the count.
LEMMA drop_linkInv ==
  ASSUME IInv, NEW p \in Proc, drop_link(p)
  PROVE  IInv'
<1>1. /\ Running /\ pc[p] = "drop" /\ at[p] \in Call
      /\ at[p].ip \in Entry /\ at[p].put = 0 /\ at[p].name \in Name /\ icache[at[p].ip].ref > 0
      /\ at[p].then = "idle" /\ at[p].call \in {"unlink", "drop"}
  BY Facts DEF drop_link, AtOK, Locked, Put, NoCall, Call
<1>2. pc[p] \in Locked
  BY <1>1 DEF Locked
<1>3. /\ icache[at[p].ip].inum \in Inum /\ dinode[icache[at[p].ip].inum].type = "file"
      /\ icache[at[p].ip].valid /\ icache[at[p].ip].type = "file" /\ icache[at[p].ip].nlink \in Nat
      /\ dinode[icache[at[p].ip].inum].nlink = icache[at[p].ip].nlink
  <2>1. icache[at[p].ip].valid /\ Holds(pc[p], at[p], at[p].ip)
    BY <1>2, AtFacts
  <2>2. icache[at[p].ip].inum \in Inum /\ dinode[icache[at[p].ip].inum].type = "file" /\ icache[at[p].ip].nlink \in Nat
    BY <1>1, Facts DEF IInv, TypeOK
  <2> QED
    BY <1>1, <2>1, <2>2 DEF IInv, Coherent
<1>4. \A q \in Proc : q # p => ~ Holds(pc[q], at[q], at[p].ip)
  BY <1>1, <1>2, AtFacts DEF IInv, LockInv
<1>5. \A e \in Entry : icache[e].ref > 0 /\ icache[e].inum = icache[at[p].ip].inum => e = at[p].ip
  BY <1>1 DEF IInv, Once
<1>6. Pends(p, icache[at[p].ip].inum)
  BY <1>1, Facts DEF Pends, Counted
<1>7. icache[at[p].ip].nlink # 0 /\ icache[at[p].ip].nlink - 1 \in Nat
  BY <1>1, <1>3, <1>6, Links DEF IInv
<1>8. /\ UNCHANGED <<dir, dirlock, fip, panicked>>
      /\ lock' = [lock EXCEPT ![at[p].ip] = NoProc]
      /\ at' = [at EXCEPT ![p] = [NoCall EXCEPT !.put = at[p].ip]] /\ pc' = [pc EXCEPT ![p] = "iput"]
      /\ Store(at[p].ip, icache[at[p].ip].type, icache[at[p].ip].nlink - 1)
  BY DEF drop_link, Unlockput
<1>9. /\ icache' \in [Entry -> CacheEntry]
      /\ \A e \in Entry : icache'[e].ref = icache[e].ref /\ icache'[e].inum = icache[e].inum
      /\ \A e \in Entry : e # at[p].ip => icache'[e] = icache[e]
      /\ \A e \in Entry : icache'[e].valid = icache[e].valid
      /\ icache'[at[p].ip].type = "file" /\ icache'[at[p].ip].nlink = icache[at[p].ip].nlink - 1
  BY <1>1, <1>8, <1>3, <1>7, StoreDoes DEF IInv
<1>10. /\ dinode' \in [Inum -> [type : {"free", "file"}, nlink : Nat]]
       /\ dinode'[icache[at[p].ip].inum].type = "file" /\ dinode'[icache[at[p].ip].inum].nlink = icache[at[p].ip].nlink - 1
       /\ \A i \in Inum : i # icache[at[p].ip].inum => dinode'[i] = dinode[i]
  BY <1>1, <1>8, <1>3, <1>7, StoreDoes DEF IInv
<1>11. pc'[p] = "iput" /\ at'[p] \in Call /\ at'[p].ip = 0 /\ at'[p].put = at[p].ip /\ at'[p].then = "idle" /\ at'[p].call = ""
  BY <1>1, <1>8, NoCallIs DEF IInv, TypeOK, AtInv
<1>12. at' \in [Proc -> Call] /\ pc' \in [Proc -> PC]
  BY <1>8, <1>11 DEF IInv, TypeOK, PC, AtInv
<1>13. \A q \in Proc : q # p => at'[q] = at[q] /\ pc'[q] = pc[q]
  BY <1>8 DEF IInv, TypeOK, AtInv
<1>14. /\ \A x \in Entry : Holds(pc[p], at[p], x) <=> x = at[p].ip
       /\ \A x \in Entry : ~ Holds(pc'[p], at'[p], x)
  BY <1>1, <1>11 DEF Holds, Locked, Put
<1>15. DirStep(p)
  BY <1>1, <1>11, <1>8 DEF DirStep, HoldsDir
<1>16. /\ Counted(pc[p], at[p])
       /\ ~ Counted(pc'[p], at'[p])
  BY <1>1, <1>11 DEF Counted, Put
<1>17. /\ ~ (pc'[p] \in Locked)
       /\ ~ Using(pc[p])
       /\ Using(pc'[p])
       /\ ~ Last(pc'[p])
       /\ ~ Sole(pc'[p])
       /\ ~ Unlinking(pc'[p], at'[p])
       /\ ~ Creating(pc'[p], at'[p])
  BY <1>1, <1>11 DEF Locked, Using, Last, Sole, Unlinking, Creating
<1>18. TypeOK'
  BY <1>1, <1>8, <1>12, <1>9, <1>10 DEF IInv, TypeOK, CacheEntry
<1>19. AtInv'
  <2>1. AtOK(pc'[p], at'[p])
    BY <1>1, <1>11 DEF AtOK, Locked, Put, NoCall
  <2> QED
    BY <1>12, <1>13, <2>1, AtStep
<1>20. LockInv'
  BY <1>1, <1>8, <1>13, <1>14, <1>15, LockFree
<1>21. RefInv'
  <2>1. ASSUME NEW e \in Entry
        PROVE  icache'[e].ref = icache[e].ref + Own(at'[p], e) - Own(at[p], e)
    <3>1. 0 \notin Entry /\ icache[e].ref \in Nat
      BY Facts DEF IInv, TypeOK
    <3>2. at[p].put = 0 /\ at'[p].ip = 0 /\ at'[p].put = at[p].ip
      BY <1>1, <1>11
    <3>3. Own(at'[p], e) = Own(at[p], e)
      BY <3>1, <3>2 DEF Own
    <3>4. icache'[e].ref = icache[e].ref /\ Own(at[p], e) \in Nat
      BY <1>9 DEF Own
    <3> QED
      BY <3>1, <3>3, <3>4
  <2> QED
    BY <1>8, <1>13, <2>1, RefStep DEF IInv
<1>22. Once'
  BY <1>9 DEF IInv, TypeOK, Once
<1>23. Coherent'
  <2>1. ASSUME NEW g \in Entry, icache'[g].ref > 0, icache'[g].valid
        PROVE  /\ dinode'[icache'[g].inum].type = "file" /\ icache'[g].type = "file"
               /\ dinode'[icache'[g].inum].nlink = icache'[g].nlink
    <3>1. CASE g = at[p].ip
      BY <3>1, <1>9, <1>10, <1>1
    <3>2. CASE g # at[p].ip
      <4>1. icache'[g] = icache[g]
        BY <3>2, <1>9
      <4>2. icache[g].inum \in Inum /\ icache[g].inum # icache[at[p].ip].inum
        BY <2>1, <3>2, <4>1, <1>5 DEF IInv, Once
      <4>3. dinode'[icache[g].inum] = dinode[icache[g].inum]
        BY <4>2, <1>10
      <4> QED
        BY <2>1, <4>1, <4>3 DEF IInv, Coherent
    <3> QED
      BY <3>1, <3>2
  <2>2. \A i \in Inum : dinode'[i].type = "free" => dinode'[i].nlink = 0
    BY <1>10 DEF IInv, Coherent, TypeOK
  <2> QED
    BY <2>1, <2>2 DEF Coherent
<1>24. NoDangling'
  <2>1. panicked' \notin {"ilock: no type", "unlink: nlink < 1"}
    BY <1>8 DEF IInv, NoDangling
  <2>2. ASSUME NEW y \in Name, dir'[y] # 0
        PROVE  dinode'[dir'[y]].type = "file"
    BY <2>2, Facts, <1>8, <1>10
  <2>3. ASSUME NEW g \in File, fip'[g] # 0
        PROVE  dinode'[icache'[fip'[g]].inum].type = "file"
    BY <2>3, Facts, <1>8, <1>9, <1>10
  <2> QED
    BY <2>1, <2>2, <2>3 DEF NoDangling
<1>25. ProcInv'
  <2>1. \A q \in Proc : q # p => Relies(q)'
    <3>1. Keeps(0) /\ 0 \notin Entry
      BY <1>9, <1>10, Facts DEF IInv, Once, Keeps
    <3>2. \A q \in Proc : q # p /\ Last(pc[q]) => icache'[at[q].put].nlink = icache[at[q].put].nlink
      BY AtFacts, <1>9, <1>4
    <3>3. \A q \in Proc : q # p /\ Sole(pc[q]) => icache'[at[q].put].ref = icache[at[q].put].ref
      BY AtFacts, <1>9
    <3>4. \A q \in Proc : q # p /\ HoldsDir(pc[q], at[q]) => UNCHANGED dir /\ at'[p].ip \in {0, at[p].ip}
      BY <1>8, <1>11
    <3>5. \A g \in Entry : icache[g].ref > 0 /\ g # at[p].ip =>
                            dinode'[icache[g].inum].nlink = dinode[icache[g].inum].nlink
      BY <1>10, <1>5 DEF IInv, Once
    <3> QED
      BY <1>13, <3>1, <3>2, <3>3, <3>4, <3>5, OthersKeep
  <2>2. at'[p].ip = 0
    BY <1>11
  <2>3. ASSUME Using(pc'[p])
        PROVE  dinode'[icache'[at'[p].put].inum].type = "file"
    BY <2>3, <1>11, <1>1, <1>3, <1>9, <1>10
  <2>4. Relies(p)'
    BY <2>2, <2>3, <1>17 DEF Relies
  <2> QED
    BY <2>1, <2>4 DEF ProcInv
<1>26. LinkCounts'
  <2>1. ASSUME NEW i \in Inum
        PROVE  dinode'[i].nlink = dinode[i].nlink + PendN(p, i)' - PendN(p, i)
    <3>1. dinode[i].nlink \in Nat /\ PendN(p, i) \in {0, 1}
      BY DEF IInv, TypeOK, PendN
    <3>2. PendN(p, i) = Is(icache[at[p].ip].inum, i) /\ PendN(p, i)' = 0
      BY <1>1, <1>11, <1>9, <1>16, Facts DEF PendN, Pends, Is
    <3>3. dinode'[i].nlink = dinode[i].nlink - Is(icache[at[p].ip].inum, i)
      BY <1>3, <1>10, <3>1 DEF Is
    <3>4. Is(icache[at[p].ip].inum, i) \in Nat
      BY DEF Is
    <3> QED
      BY <3>1, <3>2, <3>3, <3>4
  <2>2. \A q \in Proc : q # p /\ at[q].ip # 0 => icache'[at[q].ip].inum = icache[at[q].ip].inum
    BY <1>9, Facts
  <2> QED
    BY <1>1, <1>8, <1>13, <2>1, <2>2, LinkFrame DEF IInv
<1> QED
  BY <1>18, <1>19, <1>20, <1>21, <1>22, <1>23, <1>24, <1>25, <1>26 DEF IInv

\* create gives the new inode its name.
LEMMA create_linkInv ==
  ASSUME IInv, NEW p \in Proc, create_link(p)
  PROVE  IInv'
<1>1. /\ Running /\ pc[p] = "create" /\ at[p] \in Call
      /\ at[p].ip \in Entry /\ at[p].put = 0 /\ at[p].name \in Name /\ icache[at[p].ip].ref > 0
      /\ at[p].then = "idle" /\ at[p].call = "create"
  BY Facts DEF create_link, AtOK, Locked, Put, NoCall, Call
<1>2. pc[p] \in Locked
  BY <1>1 DEF Locked
<1>3. /\ icache[at[p].ip].inum \in Inum /\ dinode[icache[at[p].ip].inum].type = "file"
      /\ icache[at[p].ip].valid /\ icache[at[p].ip].type = "file" /\ icache[at[p].ip].nlink \in Nat
      /\ dinode[icache[at[p].ip].inum].nlink = icache[at[p].ip].nlink
  <2>1. icache[at[p].ip].valid /\ Holds(pc[p], at[p], at[p].ip)
    BY <1>2, AtFacts
  <2>2. icache[at[p].ip].inum \in Inum /\ dinode[icache[at[p].ip].inum].type = "file" /\ icache[at[p].ip].nlink \in Nat
    BY <1>1, Facts DEF IInv, TypeOK
  <2> QED
    BY <1>1, <2>1, <2>2 DEF IInv, Coherent
<1>4. \A q \in Proc : q # p => ~ Holds(pc[q], at[q], at[p].ip)
  BY <1>1, <1>2, AtFacts DEF IInv, LockInv
<1>5. \A e \in Entry : icache[e].ref > 0 /\ icache[e].inum = icache[at[p].ip].inum => e = at[p].ip
  BY <1>1 DEF IInv, Once
<1>6. Creating(pc[p], at[p])
  BY <1>1 DEF Creating
<1>7. dir[at[p].name] = 0 /\ icache[at[p].ip].nlink = 0 /\ HoldsDir(pc[p], at[p])
  BY <1>6, <1>3, AtFacts
<1>8. \A q \in Proc : q # p => ~ HoldsDir(pc[q], at[q])
  BY <1>7 DEF IInv, LockInv
<1>9. /\ UNCHANGED <<lock, fip, at, panicked>>
      /\ dir' = [dir EXCEPT ![at[p].name] = icache[at[p].ip].inum] /\ dirlock' = NoProc
      /\ pc' = [pc EXCEPT ![p] = "open"]
      /\ Store(at[p].ip, icache[at[p].ip].type, 1)
  BY DEF create_link
<1>10. /\ icache' \in [Entry -> CacheEntry]
       /\ \A e \in Entry : icache'[e].ref = icache[e].ref /\ icache'[e].inum = icache[e].inum
       /\ \A e \in Entry : e # at[p].ip => icache'[e] = icache[e]
       /\ \A e \in Entry : icache'[e].valid = icache[e].valid
       /\ icache'[at[p].ip].type = "file" /\ icache'[at[p].ip].nlink = 1
  BY <1>1, <1>9, <1>3, StoreDoes DEF IInv
<1>11. /\ dinode' \in [Inum -> [type : {"free", "file"}, nlink : Nat]]
       /\ dinode'[icache[at[p].ip].inum].type = "file" /\ dinode'[icache[at[p].ip].inum].nlink = 1
       /\ \A i \in Inum : i # icache[at[p].ip].inum => dinode'[i] = dinode[i]
  BY <1>1, <1>9, <1>3, StoreDoes DEF IInv
<1>12. /\ dir' \in [Name -> Inum \cup {0}] /\ \A m \in Name : m # at[p].name => dir'[m] = dir[m]
       /\ dir'[at[p].name] = icache[at[p].ip].inum
  BY <1>1, <1>9, <1>3 DEF IInv, TypeOK
<1>13. at' \in [Proc -> Call] /\ pc' \in [Proc -> PC]
  BY <1>1, <1>9 DEF IInv, TypeOK, PC, AtInv
<1>14. \A q \in Proc : q # p => at'[q] = at[q] /\ pc'[q] = pc[q]
  BY <1>9 DEF IInv, TypeOK, AtInv
<1>15. at'[p] = at[p] /\ pc'[p] = "open"
  BY <1>9 DEF IInv, TypeOK
<1>16. /\ \A x \in Entry : Holds(pc[p], at[p], x) <=> x = at[p].ip
       /\ \A x \in Entry : Holds(pc'[p], at'[p], x) <=> x = at[p].ip
  BY <1>1, <1>15 DEF Holds, Locked, Put
<1>17. DirStep(p)
  BY <1>1, <1>15, <1>9 DEF DirStep, HoldsDir
<1>18. /\ ~ Counted(pc[p], at[p])
       /\ ~ Counted(pc'[p], at'[p])
  BY <1>1, <1>15 DEF Counted, Put
<1>19. /\ (pc[p] \in Locked)
       /\ (pc'[p] \in Locked)
       /\ ~ Using(pc'[p])
       /\ ~ Last(pc'[p])
       /\ ~ Sole(pc'[p])
       /\ ~ Unlinking(pc'[p], at'[p])
       /\ ~ Creating(pc'[p], at'[p])
  BY <1>1, <1>15 DEF Locked, Using, Last, Sole, Unlinking, Creating
<1>20. TypeOK'
  BY <1>9, <1>13, <1>10, <1>11, <1>12 DEF IInv, TypeOK, CacheEntry
<1>21. AtInv'
  <2>1. AtOK(pc'[p], at'[p])
    BY <1>1, <1>15 DEF AtOK, Locked, Put, NoCall
  <2> QED
    BY <1>13, <1>14, <2>1, AtStep
<1>22. LockInv'
  BY <1>9, <1>14, <1>16, <1>17, LockSame
<1>23. RefInv'
  <2>1. ASSUME NEW e \in Entry
        PROVE  icache'[e].ref = icache[e].ref + Own(at'[p], e) - Own(at[p], e)
    <3>1. icache[e].ref \in Nat /\ icache'[e].ref = icache[e].ref
      BY <1>10 DEF IInv, TypeOK
    <3>2. Own(at'[p], e) = Own(at[p], e) /\ Own(at[p], e) \in Nat
      BY <1>15 DEF Own
    <3> QED
      BY <3>1, <3>2
  <2> QED
    BY <1>9, <1>14, <2>1, RefStep DEF IInv
<1>24. Once'
  BY <1>10 DEF IInv, TypeOK, Once
<1>25. Coherent'
  <2>1. ASSUME NEW g \in Entry, icache'[g].ref > 0, icache'[g].valid
        PROVE  /\ dinode'[icache'[g].inum].type = "file" /\ icache'[g].type = "file"
               /\ dinode'[icache'[g].inum].nlink = icache'[g].nlink
    <3>1. CASE g = at[p].ip
      BY <3>1, <1>10, <1>11, <1>1
    <3>2. CASE g # at[p].ip
      <4>1. icache'[g] = icache[g]
        BY <3>2, <1>10
      <4>2. icache[g].inum \in Inum /\ icache[g].inum # icache[at[p].ip].inum
        BY <2>1, <3>2, <4>1, <1>5 DEF IInv, Once
      <4>3. dinode'[icache[g].inum] = dinode[icache[g].inum]
        BY <4>2, <1>11
      <4> QED
        BY <2>1, <4>1, <4>3 DEF IInv, Coherent
    <3> QED
      BY <3>1, <3>2
  <2>2. \A i \in Inum : dinode'[i].type = "free" => dinode'[i].nlink = 0
    BY <1>11 DEF IInv, Coherent, TypeOK
  <2> QED
    BY <2>1, <2>2 DEF Coherent
<1>26. NoDangling'
  <2>1. panicked' \notin {"ilock: no type", "unlink: nlink < 1"}
    BY <1>9 DEF IInv, NoDangling
  <2>2. ASSUME NEW y \in Name, dir'[y] # 0
        PROVE  dinode'[dir'[y]].type = "file"
    BY <2>2, Facts, <1>9, <1>11, <1>12, <1>3
  <2>3. ASSUME NEW g \in File, fip'[g] # 0
        PROVE  dinode'[icache'[fip'[g]].inum].type = "file"
    BY <2>3, Facts, <1>9, <1>10, <1>11
  <2> QED
    BY <2>1, <2>2, <2>3 DEF NoDangling
<1>27. ProcInv'
  <2>1. \A q \in Proc : q # p => Relies(q)'
    <3>1. Keeps(0) /\ 0 \notin Entry
      BY <1>10, <1>11, Facts DEF IInv, Once, Keeps
    <3>2. \A q \in Proc : q # p /\ Last(pc[q]) => icache'[at[q].put].nlink = icache[at[q].put].nlink
      BY AtFacts, <1>10, <1>4
    <3>3. \A q \in Proc : q # p /\ Sole(pc[q]) => icache'[at[q].put].ref = icache[at[q].put].ref
      BY AtFacts, <1>10
    <3>4. \A q \in Proc : q # p /\ HoldsDir(pc[q], at[q]) => UNCHANGED dir /\ at'[p].ip \in {0, at[p].ip}
      BY <1>8
    <3>5. \A g \in Entry : icache[g].ref > 0 /\ g # at[p].ip =>
                            dinode'[icache[g].inum].nlink = dinode[icache[g].inum].nlink
      BY <1>11, <1>5 DEF IInv, Once
    <3> QED
      BY <1>14, <3>1, <3>2, <3>3, <3>4, <3>5, OthersKeep
  <2>2. ASSUME at'[p].ip # 0
        PROVE  dinode'[icache'[at'[p].ip].inum].type = "file"
    <3>1. /\ at'[p].ip = at[p].ip /\ at[p].ip \in Entry /\ icache[at[p].ip].ref > 0
          /\ icache[at[p].ip].inum \in Inum /\ dinode[icache[at[p].ip].inum].type = "file"
      BY <2>2, <1>15, Facts
    <3> QED
      BY <3>1, <1>10, <1>11
  <2>3. ASSUME pc'[p] \in Locked
        PROVE  icache'[at'[p].ip].valid
    BY <2>3, <1>19, <1>15, <1>10, <1>11, AtFacts
  <2>4. Relies(p)'
    BY <2>2, <2>3, <1>19 DEF Relies
  <2> QED
    BY <2>1, <2>4 DEF ProcInv
<1>28. LinkCounts'
  <2>1. ASSUME NEW i \in Inum
        PROVE  dinode'[i].nlink = dinode[i].nlink + Is(dir'[at[p].name], i) - Is(dir[at[p].name], i)
                                                  + PendN(p, i)' - PendN(p, i)
    <3>1. dinode[i].nlink \in Nat /\ i # 0
      BY Facts DEF IInv, TypeOK
    <3>2. PendN(p, i)' = 0 /\ PendN(p, i) = 0
      BY <1>18 DEF PendN, Pends
    <3>3. Is(dir'[at[p].name], i) = Is(icache[at[p].ip].inum, i) /\ Is(dir[at[p].name], i) = 0
      BY <1>7, <1>12, <3>1 DEF Is
    <3>4. dinode'[i].nlink = dinode[i].nlink + Is(icache[at[p].ip].inum, i)
      BY <1>3, <1>7, <1>11, <3>1 DEF Is
    <3>5. Is(icache[at[p].ip].inum, i) \in Nat
      BY DEF Is
    <3> QED
      BY <3>1, <3>2, <3>3, <3>4, <3>5
  <2>2. \A q \in Proc : q # p /\ at[q].ip # 0 => icache'[at[q].ip].inum = icache[at[q].ip].inum
    BY <1>10, Facts
  <2>3. at[p].name \in Name /\ Running
    BY <1>1
  <2> QED
    BY <1>12, <1>14, <2>1, <2>2, <2>3, LinkFrameDir DEF IInv
<1> QED
  BY <1>20, <1>21, <1>22, <1>23, <1>24, <1>25, <1>26, <1>27, <1>28 DEF IInv

\* open finds no file structure: the inode is put.
LEMMA OpenFullInv ==
  ASSUME IInv, NEW p \in Proc, open_file(p), \A f \in File : fip[f] # 0
  PROVE  IInv'
<1>1. /\ Running /\ pc[p] = "open" /\ at[p] \in Call
      /\ at[p].ip \in Entry /\ at[p].put = 0 /\ at[p].name \in Name /\ icache[at[p].ip].ref > 0
      /\ at[p].then = "idle" /\ at[p].call \in {"open", "create"}
  BY Facts DEF open_file, AtOK, Locked, Put, NoCall, Call
<1>2. icache[at[p].ip].inum \in Inum /\ dinode[icache[at[p].ip].inum].type = "file"
  BY <1>1, Facts
<1>3. /\ UNCHANGED <<dinode, icache, dir, dirlock, fip, panicked>>
      /\ lock' = [lock EXCEPT ![at[p].ip] = NoProc]
      /\ at' = [at EXCEPT ![p] = [NoCall EXCEPT !.put = at[p].ip]] /\ pc' = [pc EXCEPT ![p] = "iput"]
  BY DEF open_file, Unlockput
<1>4. pc'[p] = "iput" /\ at'[p] \in Call /\ at'[p].ip = 0 /\ at'[p].put = at[p].ip /\ at'[p].then = "idle" /\ at'[p].call = ""
  BY <1>1, <1>3, NoCallIs DEF IInv, TypeOK, AtInv
<1>5. at' \in [Proc -> Call] /\ pc' \in [Proc -> PC]
  BY <1>3, <1>4 DEF IInv, TypeOK, PC, AtInv
<1>6. \A q \in Proc : q # p => at'[q] = at[q] /\ pc'[q] = pc[q]
  BY <1>3 DEF IInv, TypeOK, AtInv
<1>7. /\ \A x \in Entry : Holds(pc[p], at[p], x) <=> x = at[p].ip
      /\ \A x \in Entry : ~ Holds(pc'[p], at'[p], x)
  BY <1>1, <1>4 DEF Holds, Locked, Put
<1>8. DirStep(p)
  BY <1>1, <1>4, <1>3 DEF DirStep, HoldsDir
<1>9. /\ ~ Counted(pc[p], at[p])
      /\ ~ Counted(pc'[p], at'[p])
  BY <1>1, <1>4 DEF Counted, Put
<1>10. /\ ~ (pc'[p] \in Locked)
       /\ ~ Using(pc[p])
       /\ Using(pc'[p])
       /\ ~ Last(pc'[p])
       /\ ~ Sole(pc'[p])
       /\ ~ Unlinking(pc'[p], at'[p])
       /\ ~ Creating(pc'[p], at'[p])
  BY <1>1, <1>4 DEF Locked, Using, Last, Sole, Unlinking, Creating
<1>11. TypeOK'
  BY <1>1, <1>3, <1>5 DEF IInv, TypeOK, CacheEntry
<1>12. AtInv'
  <2>1. AtOK(pc'[p], at'[p])
    BY <1>1, <1>4 DEF AtOK, Locked, Put, NoCall
  <2> QED
    BY <1>5, <1>6, <2>1, AtStep
<1>13. LockInv'
  BY <1>1, <1>3, <1>6, <1>7, <1>8, LockFree
<1>14. RefInv'
  <2>1. ASSUME NEW e \in Entry
        PROVE  icache'[e].ref = icache[e].ref + Own(at'[p], e) - Own(at[p], e)
    <3>1. 0 \notin Entry /\ icache[e].ref \in Nat
      BY Facts DEF IInv, TypeOK
    <3>2. at[p].put = 0 /\ at'[p].ip = 0 /\ at'[p].put = at[p].ip
      BY <1>1, <1>4
    <3>3. Own(at'[p], e) = Own(at[p], e)
      BY <3>1, <3>2 DEF Own
    <3>4. icache'[e].ref = icache[e].ref /\ Own(at[p], e) \in Nat
      BY <1>3 DEF Own
    <3> QED
      BY <3>1, <3>3, <3>4
  <2> QED
    BY <1>3, <1>6, <2>1, RefStep DEF IInv
<1>15. Once'
  BY <1>3 DEF IInv, TypeOK, Once
<1>16. Coherent'
  BY <1>3 DEF IInv, Coherent
<1>17. NoDangling'
  BY <1>3 DEF IInv, NoDangling
<1>18. ProcInv'
  <2>1. \A q \in Proc : q # p => Relies(q)'
    BY <1>3, <1>6, <1>4, OthersSame
  <2>2. at'[p].ip = 0
    BY <1>4
  <2>3. ASSUME Using(pc'[p])
        PROVE  dinode'[icache'[at'[p].put].inum].type = "file"
    BY <2>3, <1>4, <1>1, <1>2, <1>3
  <2>4. Relies(p)'
    BY <2>2, <2>3, <1>10 DEF Relies
  <2> QED
    BY <2>1, <2>4 DEF ProcInv
<1>19. LinkCounts'
  <2>1. ASSUME NEW i \in Inum
        PROVE  dinode'[i].nlink = dinode[i].nlink + PendN(p, i)' - PendN(p, i)
    <3>1. dinode[i].nlink \in Nat /\ PendN(p, i) \in {0, 1}
      BY DEF IInv, TypeOK, PendN
    <3>2. PendN(p, i) = 0 /\ PendN(p, i)' = 0
      BY <1>4, <1>9, Facts DEF PendN, Pends
    <3> QED
      BY <3>1, <3>2, <1>3
  <2>2. \A q \in Proc : q # p /\ at[q].ip # 0 => icache'[at[q].ip].inum = icache[at[q].ip].inum
    BY <1>3, Facts
  <2> QED
    BY <1>1, <1>3, <1>6, <2>1, <2>2, LinkFrame DEF IInv
<1> QED
  BY <1>11, <1>12, <1>13, <1>14, <1>15, <1>16, <1>17, <1>18, <1>19 DEF IInv

\* open gives its reference to the open file.
LEMMA OpenGotInv ==
  ASSUME IInv, NEW p \in Proc, NEW f \in File, Running, pc[p] = "open", fip[f] = 0,
         fip' = [fip EXCEPT ![f] = at[p].ip], lock' = [lock EXCEPT ![at[p].ip] = NoProc],
         pc' = [pc EXCEPT ![p] = "idle"], at' = [at EXCEPT ![p] = NoCall],
         UNCHANGED <<dinode, icache, dir, dirlock, panicked>>
  PROVE  IInv'
<1>1. /\ Running /\ pc[p] = "open" /\ at[p] \in Call
      /\ at[p].ip \in Entry /\ at[p].put = 0 /\ at[p].name \in Name /\ icache[at[p].ip].ref > 0
      /\ at[p].then = "idle" /\ at[p].call \in {"open", "create"}
  BY Facts DEF AtOK, Locked, Put, NoCall, Call
<1>2. /\ icache[at[p].ip].inum \in Inum /\ dinode[icache[at[p].ip].inum].type = "file"
      /\ 0 \notin Entry
  BY <1>1, Facts
<1>3. /\ UNCHANGED <<dinode, icache, dir, dirlock, panicked>>
      /\ lock' = [lock EXCEPT ![at[p].ip] = NoProc]
  OBVIOUS
<1>4. /\ pc'[p] = "idle" /\ at'[p] = NoCall /\ NoCall \in Call
      /\ NoCall.ip = 0 /\ NoCall.put = 0 /\ NoCall.then = "idle" /\ NoCall.call = ""
  BY NoCallIs DEF IInv, TypeOK, AtInv
<1>5. at'[p].ip = 0
  BY <1>4
<1>6. at' \in [Proc -> Call] /\ pc' \in [Proc -> PC]
  BY <1>4 DEF IInv, TypeOK, PC, AtInv
<1>7. \A q \in Proc : q # p => at'[q] = at[q] /\ pc'[q] = pc[q]
  BY DEF IInv, TypeOK, AtInv
<1>8. /\ fip' \in [File -> Entry \cup {0}] /\ \A g \in File : g # f => fip'[g] = fip[g]
      /\ fip'[f] = at[p].ip
  BY <1>1 DEF IInv, TypeOK
<1>9. /\ \A x \in Entry : Holds(pc[p], at[p], x) <=> x = at[p].ip
      /\ \A x \in Entry : ~ Holds(pc'[p], at'[p], x)
  BY <1>1, <1>4 DEF Holds, Locked, Put
<1>10. DirStep(p)
  BY <1>1, <1>4, <1>3 DEF DirStep, HoldsDir
<1>11. /\ ~ Counted(pc[p], at[p])
       /\ ~ Counted(pc'[p], at'[p])
  BY <1>1, <1>4 DEF Counted, Put
<1>12. /\ ~ (pc'[p] \in Locked)
       /\ ~ Using(pc'[p])
       /\ ~ Last(pc'[p])
       /\ ~ Sole(pc'[p])
       /\ ~ Unlinking(pc'[p], at'[p])
       /\ ~ Creating(pc'[p], at'[p])
  BY <1>1, <1>4 DEF Locked, Using, Last, Sole, Unlinking, Creating
<1>13. TypeOK'
  BY <1>1, <1>3, <1>6, <1>8 DEF IInv, TypeOK, CacheEntry
<1>14. AtInv'
  <2>1. AtOK(pc'[p], at'[p])
    BY <1>4 DEF AtOK, Locked, Put
  <2> QED
    BY <1>6, <1>7, <2>1, AtStep
<1>15. LockInv'
  BY <1>1, <1>3, <1>7, <1>9, <1>10, LockFree
<1>16. RefInv'
  <2>1. ASSUME NEW e \in Entry
        PROVE  icache'[e].ref = icache[e].ref + Own(at'[p], e) - Own(at[p], e) + Is(fip'[f], e) - Is(fip[f], e)
    <3>0. /\ e # 0 /\ at'[p].ip = 0 /\ at'[p].put = 0
          /\ at[p].put = 0 /\ fip'[f] = at[p].ip /\ fip[f] = 0
      BY <1>4, <1>2, <1>1, <1>8
    <3>1. Own(at'[p], e) = 0 /\ Own(at[p], e) = Is(at[p].ip, e)
      BY <3>0 DEF Own, Is
    <3>2. Is(fip'[f], e) = Is(at[p].ip, e) /\ Is(fip[f], e) = 0
      BY <3>0 DEF Is
    <3>3. icache'[e].ref = icache[e].ref /\ icache[e].ref \in Nat /\ Is(at[p].ip, e) \in Nat
      BY <1>3 DEF IInv, TypeOK, Is
    <3> QED
      BY <3>1, <3>2, <3>3
  <2> QED
    BY <1>8, <1>7, <2>1, RefStepFile DEF IInv
<1>17. Once'
  BY <1>3 DEF IInv, TypeOK, Once
<1>18. Coherent'
  BY <1>3 DEF IInv, Coherent
<1>19. NoDangling'
  <2>1. panicked' \notin {"ilock: no type", "unlink: nlink < 1"}
    BY <1>3 DEF IInv, NoDangling
  <2>2. ASSUME NEW y \in Name, dir'[y] # 0
        PROVE  dinode'[dir'[y]].type = "file"
    BY <2>2, Facts, <1>3, <1>3
  <2>3. ASSUME NEW g \in File, fip'[g] # 0
        PROVE  dinode'[icache'[fip'[g]].inum].type = "file"
    BY <2>3, Facts, <1>3, <1>3, <1>8, <1>2
  <2> QED
    BY <2>1, <2>2, <2>3 DEF NoDangling
<1>20. ProcInv'
  <2>1. \A q \in Proc : q # p => Relies(q)'
    BY <1>3, <1>7, <1>4, OthersSame
  <2>2. at'[p].ip = 0
    BY <1>5
  <2>3. Relies(p)'
    BY <2>2, <1>12 DEF Relies
  <2> QED
    BY <2>1, <2>3 DEF ProcInv
<1>21. LinkCounts'
  <2>1. ASSUME NEW i \in Inum
        PROVE  dinode'[i].nlink = dinode[i].nlink + PendN(p, i)' - PendN(p, i)
    <3>1. dinode[i].nlink \in Nat /\ PendN(p, i) \in {0, 1}
      BY DEF IInv, TypeOK, PendN
    <3>2. PendN(p, i) = 0 /\ PendN(p, i)' = 0
      BY <1>4, <1>11, Facts DEF PendN, Pends
    <3> QED
      BY <3>1, <3>2, <1>3
  <2>2. \A q \in Proc : q # p /\ at[q].ip # 0 => icache'[at[q].ip].inum = icache[at[q].ip].inum
    BY <1>3, Facts
  <2> QED
    BY <1>1, <1>3, <1>7, <2>1, <2>2, LinkFrame DEF IInv
<1> QED
  BY <1>13, <1>14, <1>15, <1>16, <1>17, <1>18, <1>19, <1>20, <1>21 DEF IInv

\* A lookup that found the name has one more reference, and keeps the directory for unlink.
LEMMA FoundInv ==
  ASSUME IInv, NEW p \in Proc, NEW c \in {"open", "unlink", "link"}, NEW n \in Name, NEW m \in Name,
         NEW e \in Entry, Running, pc[p] = "idle", dirlock = NoProc, dir[n] # 0,
         IgetStep(dir[n], e), pc'[p] = "ilock", Found(at'[p], c, m, e), c = "unlink" => m = n,
         pc' \in [Proc -> PC], at' \in [Proc -> Call],
         \A q \in Proc : q # p => at'[q] = at[q] /\ pc'[q] = pc[q],
         (c = "unlink" /\ dirlock' = p) \/ (c # "unlink" /\ dirlock' = NoProc),
         UNCHANGED <<dinode, lock, dir, fip, panicked>>
  PROVE  IInv'
<1>1. Running /\ pc[p] = "idle" /\ at[p].ip = 0 /\ at[p].put = 0 /\ at[p].then = "idle" /\ at[p].call = ""
  BY Facts, NoCallIs DEF AtOK
<1>2. Running
  OBVIOUS
<1>3. dir[n] \in Inum /\ dinode[dir[n]].type = "file" /\ 0 \notin Entry
  BY Facts
<1>4. /\ \A g \in Entry : icache[g].ref > 0 =>
           /\ icache'[g].ref > 0 /\ icache'[g].inum = icache[g].inum /\ icache'[g].valid = icache[g].valid
           /\ icache'[g].type = icache[g].type /\ icache'[g].nlink = icache[g].nlink
      /\ \A g \in Entry : icache'[g].ref > 0 /\ icache'[g].valid => icache[g].ref > 0
      /\ \A g \in Entry : icache[g].ref \in Nat /\ icache'[g].ref = icache[g].ref + Is(e, g)
      /\ icache'[e].inum = dir[n] /\ icache' \in [Entry -> CacheEntry]
      /\ icache[e].ref > 0 => icache[e].inum = dir[n]
      /\ Once'
  BY <1>3, IgetKeeps
<1>5. /\ pc'[p] = "ilock" /\ at'[p] \in Call /\ at'[p].call = c /\ at'[p].name = m /\ at'[p].ip = e
      /\ at'[p].put = 0 /\ at'[p].then = "idle"
  BY DEF Found
<1>6. /\ UNCHANGED <<dinode, lock, dir, fip, panicked>>
      /\ dirlock = NoProc /\ ((c = "unlink" /\ dirlock' = p) \/ (c # "unlink" /\ dirlock' = NoProc))
  OBVIOUS
<1>7. at' \in [Proc -> Call] /\ pc' \in [Proc -> PC]
  OBVIOUS
<1>8. \A q \in Proc : q # p => at'[q] = at[q] /\ pc'[q] = pc[q]
  OBVIOUS
<1>9. \A q \in Proc : ~ HoldsDir(pc[q], at[q])
  BY <1>6, SentinelAssumption DEF IInv, LockInv
<1>10. c = "unlink" => m = n
  OBVIOUS
<1>11. \A q \in Proc : Sole(pc[q]) => at[q].put # e
  <2> SUFFICES ASSUME NEW q \in Proc, Sole(pc[q]), at[q].put = e
               PROVE  FALSE
    OBVIOUS
  <2>1. icache[e].ref > 0 /\ icache[e].valid /\ icache[e].nlink = 0
    BY AtFacts
  <2>2. icache[e].inum = dir[n]
    BY <2>1, <1>4
  <2>3. dinode[dir[n]].nlink = 0
    BY <2>1, <2>2 DEF IInv, Coherent
  <2> QED
    BY <2>3, <1>3, <1>2, Links DEF IInv
<1>12. \A g \in Entry : g # e => icache'[g].ref = icache[g].ref
  BY <1>4 DEF Is
<1>13. /\ \A x \in Entry : ~ Holds(pc[p], at[p], x)
       /\ \A x \in Entry : ~ Holds(pc'[p], at'[p], x)
  BY <1>1, <1>5 DEF Holds, Locked, Put
<1>14. DirStep(p)
  BY <1>1, <1>5, <1>6 DEF DirStep, HoldsDir
<1>15. /\ ~ Counted(pc[p], at[p])
       /\ ~ Counted(pc'[p], at'[p])
  BY <1>1, <1>5 DEF Counted, Put
<1>16. /\ ~ (pc'[p] \in Locked)
       /\ ~ Using(pc'[p])
       /\ ~ Last(pc'[p])
       /\ ~ Sole(pc'[p])
       /\ ~ Unlinking(pc[p], at[p])
       /\ Unlinking(pc'[p], at'[p]) => c = "unlink"
       /\ ~ Creating(pc'[p], at'[p])
  BY <1>1, <1>5 DEF Locked, Using, Last, Sole, Unlinking, Creating
<1>17. TypeOK'
  BY <1>6, <1>7, <1>4 DEF IInv, TypeOK, CacheEntry
<1>18. AtInv'
  <2>1. AtOK(pc'[p], at'[p])
    BY <1>5 DEF AtOK, Locked, Put
  <2> QED
    BY <1>7, <1>8, <2>1, AtStep
<1>19. LockInv'
  BY <1>6, <1>8, <1>13, <1>14, LockSame
<1>20. RefInv'
  <2>1. ASSUME NEW g \in Entry
        PROVE  icache'[g].ref = icache[g].ref + Own(at'[p], g) - Own(at[p], g)
    <3>1. g # 0 /\ icache[g].ref \in Nat /\ icache'[g].ref = icache[g].ref + Is(e, g)
      BY <1>4, <1>3
    <3>2. at[p].ip = 0 /\ at[p].put = 0 /\ at'[p].ip = e /\ at'[p].put = 0
      BY <1>1, <1>5
    <3>3. Own(at'[p], g) = Own(at[p], g) + Is(e, g) /\ Own(at[p], g) \in Nat /\ Is(e, g) \in Nat
      BY <3>1, <3>2 DEF Own, Is
    <3> QED
      BY <3>1, <3>3
  <2> QED
    BY <1>6, <1>8, <2>1, RefStep DEF IInv
<1>21. Once'
  BY <1>4
<1>22. Coherent'
  <2>1. ASSUME NEW g \in Entry, icache'[g].ref > 0, icache'[g].valid
        PROVE  /\ dinode'[icache'[g].inum].type = "file" /\ icache'[g].type = "file"
               /\ dinode'[icache'[g].inum].nlink = icache'[g].nlink
    BY <2>1, <1>4, <1>6 DEF IInv, Coherent, Once, TypeOK
  <2>2. \A i \in Inum : dinode'[i].type = "free" => dinode'[i].nlink = 0
    BY <1>6 DEF IInv, Coherent, TypeOK
  <2> QED
    BY <2>1, <2>2 DEF Coherent
<1>23. NoDangling'
  <2>1. panicked' \notin {"ilock: no type", "unlink: nlink < 1"}
    BY <1>6 DEF IInv, NoDangling
  <2>2. ASSUME NEW y \in Name, dir'[y] # 0
        PROVE  dinode'[dir'[y]].type = "file"
    BY <2>2, Facts, <1>6, <1>6
  <2>3. ASSUME NEW g \in File, fip'[g] # 0
        PROVE  dinode'[icache'[fip'[g]].inum].type = "file"
    BY <2>3, Facts, <1>6, <1>4, <1>6
  <2> QED
    BY <2>1, <2>2, <2>3 DEF NoDangling
<1>24. ProcInv'
  <2>1. \A q \in Proc : q # p => Relies(q)'
    <3>1. Keeps(0) /\ 0 \notin Entry
      BY <1>4, <1>6, Facts DEF IInv, Once, Keeps
    <3>2. \A q \in Proc : q # p /\ Last(pc[q]) => icache'[at[q].put].nlink = icache[at[q].put].nlink
      BY AtFacts, <1>4
    <3>3. \A q \in Proc : q # p /\ Sole(pc[q]) => icache'[at[q].put].ref = icache[at[q].put].ref
      BY AtFacts, <1>4, <1>11, <1>12
    <3>4. \A q \in Proc : q # p /\ HoldsDir(pc[q], at[q]) => UNCHANGED dir /\ at'[p].ip \in {0, at[p].ip}
      BY <1>9
    <3>5. \A g \in Entry : icache[g].ref > 0 /\ g # at[p].ip =>
                            dinode'[icache[g].inum].nlink = dinode[icache[g].inum].nlink
      BY <1>6 DEF IInv, Once
    <3> QED
      BY <1>8, <3>1, <3>2, <3>3, <3>4, <3>5, OthersKeep
  <2>2. ASSUME at'[p].ip # 0
        PROVE  dinode'[icache'[at'[p].ip].inum].type = "file"
    BY <1>5, <1>4, <1>3, <1>6
  <2>3. ASSUME Unlinking(pc'[p], at'[p])
        PROVE  dir'[at'[p].name] = icache'[at'[p].ip].inum
    BY <2>3, <1>16, <1>5, <1>4, <1>6, <1>10
  <2>4. Relies(p)'
    BY <2>2, <2>3, <1>16 DEF Relies
  <2> QED
    BY <2>1, <2>4 DEF ProcInv
<1>25. LinkCounts'
  <2>1. ASSUME NEW i \in Inum
        PROVE  dinode'[i].nlink = dinode[i].nlink + PendN(p, i)' - PendN(p, i)
    <3>1. dinode[i].nlink \in Nat /\ PendN(p, i) \in {0, 1}
      BY DEF IInv, TypeOK, PendN
    <3>2. PendN(p, i) = 0 /\ PendN(p, i)' = 0
      BY <1>5, <1>15, Facts DEF PendN, Pends
    <3> QED
      BY <3>1, <3>2, <1>6
  <2>2. \A q \in Proc : q # p /\ at[q].ip # 0 => icache'[at[q].ip].inum = icache[at[q].ip].inum
    BY <1>4, Facts
  <2> QED
    BY <1>1, <1>6, <1>8, <2>1, <2>2, LinkFrame DEF IInv
<1> QED
  BY <1>17, <1>18, <1>19, <1>20, <1>21, <1>22, <1>23, <1>24, <1>25 DEF IInv

\* create has marked inode k and has the only reference to it.
LEMMA CreatedInv ==
  ASSUME IInv, NEW p \in Proc, NEW n \in Name, NEW k \in Inum, NEW e \in Entry, Running, pc[p] = "idle",
         dirlock = NoProc, dir[n] = 0, dinode[k].type = "free", dinode' = [dinode EXCEPT ![k] = [type |-> "file", nlink |-> 0]],
         IgetStep(k, e), pc'[p] = "ilock", Found(at'[p], "create", n, e),
         pc' \in [Proc -> PC], at' \in [Proc -> Call],
         \A q \in Proc : q # p => at'[q] = at[q] /\ pc'[q] = pc[q],
         dirlock' = p, UNCHANGED <<lock, dir, fip, panicked>>
  PROVE  IInv'
<1>1. Running /\ pc[p] = "idle" /\ at[p].ip = 0 /\ at[p].put = 0 /\ at[p].then = "idle" /\ at[p].call = ""
  BY Facts, NoCallIs DEF AtOK
<1>2. Running
  OBVIOUS
<1>3. 0 \notin Entry /\ k \in Inum /\ dinode[k].type = "free" /\ dinode[k].nlink = 0 /\ dir[n] = 0
  BY Facts DEF IInv, Coherent
<1>4. /\ \A g \in Entry : icache[g].ref > 0 =>
           /\ icache'[g].ref > 0 /\ icache'[g].inum = icache[g].inum /\ icache'[g].valid = icache[g].valid
           /\ icache'[g].type = icache[g].type /\ icache'[g].nlink = icache[g].nlink
      /\ \A g \in Entry : icache'[g].ref > 0 /\ icache'[g].valid => icache[g].ref > 0
      /\ \A g \in Entry : icache[g].ref \in Nat /\ icache'[g].ref = icache[g].ref + Is(e, g)
      /\ icache'[e].inum = k /\ icache' \in [Entry -> CacheEntry]
      /\ icache[e].ref > 0 => icache[e].inum = k
      /\ Once'
  BY <1>3, IgetKeeps
<1>5. /\ dinode' \in [Inum -> [type : {"free", "file"}, nlink : Nat]]
      /\ \A j \in Inum : /\ dinode'[j].nlink = dinode[j].nlink
                         /\ dinode[j].type = "file" => dinode'[j].type = "file"
      /\ dinode'[k].type = "file" /\ dinode'[k].nlink = 0
  BY <1>3 DEF IInv, TypeOK
<1>6. /\ pc'[p] = "ilock" /\ at'[p] \in Call /\ at'[p].call = "create" /\ at'[p].name = n /\ at'[p].ip = e
      /\ at'[p].put = 0 /\ at'[p].then = "idle"
  BY DEF Found
<1>7. /\ UNCHANGED <<lock, dir, fip, panicked>>
      /\ dirlock = NoProc /\ dirlock' = p
  OBVIOUS
<1>8. at' \in [Proc -> Call] /\ pc' \in [Proc -> PC]
  OBVIOUS
<1>9. \A q \in Proc : q # p => at'[q] = at[q] /\ pc'[q] = pc[q]
  OBVIOUS
<1>10. \A q \in Proc : ~ HoldsDir(pc[q], at[q])
  BY <1>7, SentinelAssumption DEF IInv, LockInv
<1>11. \A q \in Proc : Sole(pc[q]) => at[q].put # e
  <2> SUFFICES ASSUME NEW q \in Proc, Sole(pc[q]), at[q].put = e
               PROVE  FALSE
    OBVIOUS
  <2>1. icache[e].ref > 0 /\ icache[e].valid /\ icache[e].nlink = 0
    BY AtFacts
  <2>2. icache[e].inum = k
    BY <2>1, <1>4
  <2>3. dinode[k].type = "file"
    BY <2>1, <2>2 DEF IInv, Coherent
  <2> QED
    BY <2>3, <1>3
<1>12. \A q \in Proc : at[q].ip # e
  <2> SUFFICES ASSUME NEW q \in Proc, at[q].ip = e
               PROVE  FALSE
    OBVIOUS
  <2>1. icache[e].ref > 0 /\ dinode[icache[e].inum].type = "file"
    BY Facts, <1>3
  <2> QED
    BY <2>1, <1>4, <1>3
<1>13. \A g \in Entry : g # e => icache'[g].ref = icache[g].ref
  BY <1>4 DEF Is
<1>14. /\ \A x \in Entry : ~ Holds(pc[p], at[p], x)
       /\ \A x \in Entry : ~ Holds(pc'[p], at'[p], x)
  BY <1>1, <1>6 DEF Holds, Locked, Put
<1>15. DirStep(p)
  BY <1>1, <1>6, <1>7 DEF DirStep, HoldsDir
<1>16. /\ ~ Counted(pc[p], at[p])
       /\ ~ Counted(pc'[p], at'[p])
  BY <1>1, <1>6 DEF Counted, Put
<1>17. /\ ~ (pc'[p] \in Locked)
       /\ ~ Using(pc'[p])
       /\ ~ Last(pc'[p])
       /\ ~ Sole(pc'[p])
       /\ ~ Unlinking(pc'[p], at'[p])
       /\ ~ Creating(pc[p], at[p])
       /\ Creating(pc'[p], at'[p])
  BY <1>1, <1>6 DEF Locked, Using, Last, Sole, Unlinking, Creating
<1>18. TypeOK'
  BY <1>7, <1>8, <1>4, <1>5 DEF IInv, TypeOK, CacheEntry
<1>19. AtInv'
  <2>1. AtOK(pc'[p], at'[p])
    BY <1>6 DEF AtOK, Locked, Put
  <2> QED
    BY <1>8, <1>9, <2>1, AtStep
<1>20. LockInv'
  BY <1>7, <1>9, <1>14, <1>15, LockSame
<1>21. RefInv'
  <2>1. ASSUME NEW g \in Entry
        PROVE  icache'[g].ref = icache[g].ref + Own(at'[p], g) - Own(at[p], g)
    <3>1. g # 0 /\ icache[g].ref \in Nat /\ icache'[g].ref = icache[g].ref + Is(e, g)
      BY <1>4, <1>3
    <3>2. at[p].ip = 0 /\ at[p].put = 0 /\ at'[p].ip = e /\ at'[p].put = 0
      BY <1>1, <1>6
    <3>3. Own(at'[p], g) = Own(at[p], g) + Is(e, g) /\ Own(at[p], g) \in Nat /\ Is(e, g) \in Nat
      BY <3>1, <3>2 DEF Own, Is
    <3> QED
      BY <3>1, <3>3
  <2> QED
    BY <1>7, <1>9, <2>1, RefStep DEF IInv
<1>22. Once'
  BY <1>4
<1>23. Coherent'
  <2>1. ASSUME NEW g \in Entry, icache'[g].ref > 0, icache'[g].valid
        PROVE  /\ dinode'[icache'[g].inum].type = "file" /\ icache'[g].type = "file"
               /\ dinode'[icache'[g].inum].nlink = icache'[g].nlink
    BY <2>1, <1>4, <1>5 DEF IInv, Coherent, Once, TypeOK
  <2>2. \A i \in Inum : dinode'[i].type = "free" => dinode'[i].nlink = 0
    BY <1>5 DEF IInv, Coherent, TypeOK
  <2> QED
    BY <2>1, <2>2 DEF Coherent
<1>24. NoDangling'
  <2>1. panicked' \notin {"ilock: no type", "unlink: nlink < 1"}
    BY <1>7 DEF IInv, NoDangling
  <2>2. ASSUME NEW y \in Name, dir'[y] # 0
        PROVE  dinode'[dir'[y]].type = "file"
    BY <2>2, Facts, <1>7, <1>5
  <2>3. ASSUME NEW g \in File, fip'[g] # 0
        PROVE  dinode'[icache'[fip'[g]].inum].type = "file"
    BY <2>3, Facts, <1>7, <1>4, <1>5
  <2> QED
    BY <2>1, <2>2, <2>3 DEF NoDangling
<1>25. ProcInv'
  <2>1. \A q \in Proc : q # p => Relies(q)'
    <3>1. Keeps(0) /\ 0 \notin Entry
      BY <1>4, <1>5, Facts DEF IInv, Once, Keeps
    <3>2. \A q \in Proc : q # p /\ Last(pc[q]) => icache'[at[q].put].nlink = icache[at[q].put].nlink
      BY AtFacts, <1>4
    <3>3. \A q \in Proc : q # p /\ Sole(pc[q]) => icache'[at[q].put].ref = icache[at[q].put].ref
      BY AtFacts, <1>4, <1>11, <1>13
    <3>4. \A q \in Proc : q # p /\ HoldsDir(pc[q], at[q]) => UNCHANGED dir /\ at'[p].ip \in {0, at[p].ip}
      BY <1>10
    <3>5. \A g \in Entry : icache[g].ref > 0 /\ g # at[p].ip =>
                            dinode'[icache[g].inum].nlink = dinode[icache[g].inum].nlink
      BY <1>5 DEF IInv, Once
    <3> QED
      BY <1>9, <3>1, <3>2, <3>3, <3>4, <3>5, OthersKeep
  <2>2. ASSUME at'[p].ip # 0
        PROVE  dinode'[icache'[at'[p].ip].inum].type = "file"
    BY <1>6, <1>4, <1>5
  <2>3. ASSUME Creating(pc'[p], at'[p])
        PROVE  /\ dir'[at'[p].name] = 0 /\ dinode'[icache'[at'[p].ip].inum].nlink = 0
               /\ \A q \in Proc : q # p => at'[q].ip # at'[p].ip
    BY <2>3, <1>6, <1>4, <1>7, <1>3, <1>5, <1>9, <1>12
  <2>4. Relies(p)'
    BY <2>2, <2>3, <1>17 DEF Relies
  <2> QED
    BY <2>1, <2>4 DEF ProcInv
<1>26. LinkCounts'
  <2>1. ASSUME NEW i \in Inum
        PROVE  dinode'[i].nlink = dinode[i].nlink + PendN(p, i)' - PendN(p, i)
    <3>1. dinode[i].nlink \in Nat /\ PendN(p, i) \in {0, 1}
      BY DEF IInv, TypeOK, PendN
    <3>2. PendN(p, i) = 0 /\ PendN(p, i)' = 0
      BY <1>6, <1>16, Facts DEF PendN, Pends
    <3> QED
      BY <3>1, <3>2, <1>5
  <2>2. \A q \in Proc : q # p /\ at[q].ip # 0 => icache'[at[q].ip].inum = icache[at[q].ip].inum
    BY <1>4, Facts
  <2> QED
    BY <1>1, <1>7, <1>9, <2>1, <2>2, LinkFrame DEF IInv
<1> QED
  BY <1>18, <1>19, <1>20, <1>21, <1>22, <1>23, <1>24, <1>25, <1>26 DEF IInv

\* link found its new name taken: it puts the inode it found, with the directory locked.
LEMMA ExistsInv ==
  ASSUME IInv, NEW p \in Proc, NEW e \in Entry, Running, pc[p] = "dirlink", dirlock = NoProc, dir[at[p].name] # 0, IgetStep(dir[at[p].name], e),
         at' = [at EXCEPT ![p].put = e, ![p].then = "bad"], pc' = [pc EXCEPT ![p] = "iput"],
         dirlock' = p, UNCHANGED <<dinode, lock, dir, fip, panicked>>
  PROVE  IInv'
<1>1. /\ Running /\ pc[p] = "dirlink" /\ at[p] \in Call
      /\ at[p].ip \in Entry /\ at[p].put = 0 /\ at[p].name \in Name /\ icache[at[p].ip].ref > 0
      /\ at[p].then = "idle" /\ at[p].call = "link"
  BY Facts DEF AtOK, Locked, Put, NoCall, Call
<1>2. Running /\ at[p].name \in Name
  BY <1>1
<1>3. dir[at[p].name] \in Inum /\ dinode[dir[at[p].name]].type = "file" /\ 0 \notin Entry
  BY <1>2, Facts
<1>4. /\ \A g \in Entry : icache[g].ref > 0 =>
           /\ icache'[g].ref > 0 /\ icache'[g].inum = icache[g].inum /\ icache'[g].valid = icache[g].valid
           /\ icache'[g].type = icache[g].type /\ icache'[g].nlink = icache[g].nlink
      /\ \A g \in Entry : icache'[g].ref > 0 /\ icache'[g].valid => icache[g].ref > 0
      /\ \A g \in Entry : icache[g].ref \in Nat /\ icache'[g].ref = icache[g].ref + Is(e, g)
      /\ icache'[e].inum = dir[at[p].name] /\ icache' \in [Entry -> CacheEntry]
      /\ icache[e].ref > 0 => icache[e].inum = dir[at[p].name]
      /\ Once'
  BY <1>3, IgetKeeps
<1>5. /\ pc'[p] = "iput" /\ at'[p] \in Call /\ at'[p].ip = at[p].ip /\ at'[p].put = e /\ at'[p].name = at[p].name
      /\ at'[p].then = "bad" /\ at'[p].call = "link"
  BY <1>1 DEF IInv, TypeOK, AtInv, Call
<1>6. /\ UNCHANGED <<dinode, lock, dir, fip, panicked>>
      /\ dirlock = NoProc /\ dirlock' = p
  OBVIOUS
<1>7. at' \in [Proc -> Call] /\ pc' \in [Proc -> PC]
  BY <1>5 DEF IInv, TypeOK, PC, AtInv
<1>8. \A q \in Proc : q # p => at'[q] = at[q] /\ pc'[q] = pc[q]
  BY DEF IInv, TypeOK, AtInv
<1>9. \A q \in Proc : ~ HoldsDir(pc[q], at[q])
  BY <1>6, SentinelAssumption DEF IInv, LockInv
<1>10. \A q \in Proc : Sole(pc[q]) => at[q].put # e
  <2> SUFFICES ASSUME NEW q \in Proc, Sole(pc[q]), at[q].put = e
               PROVE  FALSE
    OBVIOUS
  <2>1. icache[e].ref > 0 /\ icache[e].valid /\ icache[e].nlink = 0
    BY AtFacts
  <2>2. icache[e].inum = dir[at[p].name]
    BY <2>1, <1>4
  <2>3. dinode[dir[at[p].name]].nlink = 0
    BY <2>1, <2>2 DEF IInv, Coherent
  <2> QED
    BY <2>3, <1>3, <1>2, Links DEF IInv
<1>11. \A g \in Entry : g # e => icache'[g].ref = icache[g].ref
  BY <1>4 DEF Is
<1>12. /\ \A x \in Entry : ~ Holds(pc[p], at[p], x)
       /\ \A x \in Entry : ~ Holds(pc'[p], at'[p], x)
  BY <1>1, <1>5 DEF Holds, Locked, Put
<1>13. DirStep(p)
  BY <1>1, <1>5, <1>6 DEF DirStep, HoldsDir
<1>14. /\ Counted(pc[p], at[p])
       /\ Counted(pc'[p], at'[p])
  BY <1>1, <1>5 DEF Counted, Put
<1>15. /\ ~ (pc'[p] \in Locked)
       /\ ~ Using(pc[p])
       /\ Using(pc'[p])
       /\ ~ Last(pc'[p])
       /\ ~ Sole(pc'[p])
       /\ ~ Unlinking(pc'[p], at'[p])
       /\ ~ Creating(pc'[p], at'[p])
  BY <1>1, <1>5 DEF Locked, Using, Last, Sole, Unlinking, Creating
<1>16. TypeOK'
  BY <1>6, <1>7, <1>4 DEF IInv, TypeOK, CacheEntry
<1>17. AtInv'
  <2>1. AtOK(pc'[p], at'[p])
    BY <1>1, <1>5 DEF AtOK, Locked, Put, NoCall
  <2> QED
    BY <1>7, <1>8, <2>1, AtStep
<1>18. LockInv'
  BY <1>6, <1>8, <1>12, <1>13, LockSame
<1>19. RefInv'
  <2>1. ASSUME NEW g \in Entry
        PROVE  icache'[g].ref = icache[g].ref + Own(at'[p], g) - Own(at[p], g)
    <3>1. g # 0 /\ icache[g].ref \in Nat /\ icache'[g].ref = icache[g].ref + Is(e, g)
      BY <1>4, <1>3
    <3>2. at[p].put = 0 /\ at'[p].ip = at[p].ip /\ at'[p].put = e
      BY <1>1, <1>5
    <3>3. Own(at'[p], g) = Own(at[p], g) + Is(e, g) /\ Own(at[p], g) \in Nat /\ Is(e, g) \in Nat
      BY <3>1, <3>2 DEF Own, Is
    <3> QED
      BY <3>1, <3>3
  <2> QED
    BY <1>6, <1>8, <2>1, RefStep DEF IInv
<1>20. Once'
  BY <1>4
<1>21. Coherent'
  <2>1. ASSUME NEW g \in Entry, icache'[g].ref > 0, icache'[g].valid
        PROVE  /\ dinode'[icache'[g].inum].type = "file" /\ icache'[g].type = "file"
               /\ dinode'[icache'[g].inum].nlink = icache'[g].nlink
    BY <2>1, <1>4, <1>6 DEF IInv, Coherent, Once, TypeOK
  <2>2. \A i \in Inum : dinode'[i].type = "free" => dinode'[i].nlink = 0
    BY <1>6 DEF IInv, Coherent, TypeOK
  <2> QED
    BY <2>1, <2>2 DEF Coherent
<1>22. NoDangling'
  <2>1. panicked' \notin {"ilock: no type", "unlink: nlink < 1"}
    BY <1>6 DEF IInv, NoDangling
  <2>2. ASSUME NEW y \in Name, dir'[y] # 0
        PROVE  dinode'[dir'[y]].type = "file"
    BY <2>2, Facts, <1>6, <1>6
  <2>3. ASSUME NEW g \in File, fip'[g] # 0
        PROVE  dinode'[icache'[fip'[g]].inum].type = "file"
    BY <2>3, Facts, <1>6, <1>4, <1>6
  <2> QED
    BY <2>1, <2>2, <2>3 DEF NoDangling
<1>23. ProcInv'
  <2>1. \A q \in Proc : q # p => Relies(q)'
    <3>1. Keeps(0) /\ 0 \notin Entry
      BY <1>4, <1>6, Facts DEF IInv, Once, Keeps
    <3>2. \A q \in Proc : q # p /\ Last(pc[q]) => icache'[at[q].put].nlink = icache[at[q].put].nlink
      BY AtFacts, <1>4
    <3>3. \A q \in Proc : q # p /\ Sole(pc[q]) => icache'[at[q].put].ref = icache[at[q].put].ref
      BY AtFacts, <1>4, <1>10, <1>11
    <3>4. \A q \in Proc : q # p /\ HoldsDir(pc[q], at[q]) => UNCHANGED dir /\ at'[p].ip \in {0, at[p].ip}
      BY <1>9
    <3>5. \A g \in Entry : icache[g].ref > 0 /\ g # at[p].ip =>
                            dinode'[icache[g].inum].nlink = dinode[icache[g].inum].nlink
      BY <1>6 DEF IInv, Once
    <3> QED
      BY <1>8, <3>1, <3>2, <3>3, <3>4, <3>5, OthersKeep
  <2>2. ASSUME at'[p].ip # 0
        PROVE  dinode'[icache'[at'[p].ip].inum].type = "file"
    <3>1. /\ at'[p].ip = at[p].ip /\ at[p].ip \in Entry /\ icache[at[p].ip].ref > 0
          /\ icache[at[p].ip].inum \in Inum /\ dinode[icache[at[p].ip].inum].type = "file"
      BY <2>2, <1>5, Facts
    <3> QED
      BY <3>1, <1>4, <1>6
  <2>3. ASSUME Using(pc'[p])
        PROVE  dinode'[icache'[at'[p].put].inum].type = "file"
    BY <2>3, <1>5, <1>3, <1>4, <1>6
  <2>4. Relies(p)'
    BY <2>2, <2>3, <1>15 DEF Relies
  <2> QED
    BY <2>1, <2>4 DEF ProcInv
<1>24. LinkCounts'
  <2>1. ASSUME NEW i \in Inum
        PROVE  dinode'[i].nlink = dinode[i].nlink + PendN(p, i)' - PendN(p, i)
    <3>1. dinode[i].nlink \in Nat /\ PendN(p, i) \in {0, 1}
      BY DEF IInv, TypeOK, PendN
    <3>2. PendN(p, i)' = PendN(p, i)
      BY <1>1, <1>5, <1>4, <1>14 DEF PendN, Pends
    <3> QED
      BY <3>1, <3>2, <1>6
  <2>2. \A q \in Proc : q # p /\ at[q].ip # 0 => icache'[at[q].ip].inum = icache[at[q].ip].inum
    BY <1>4, Facts
  <2> QED
    BY <1>1, <1>6, <1>8, <2>1, <2>2, LinkFrame DEF IInv
<1> QED
  BY <1>16, <1>17, <1>18, <1>19, <1>20, <1>21, <1>22, <1>23, <1>24 DEF IInv

\* open, whether or not it finds a file structure.
LEMMA open_fileInv ==
  ASSUME IInv, NEW p \in Proc, open_file(p)
  PROVE  IInv'
<1>1. CASE \A f \in File : fip[f] # 0
  BY <1>1, OpenFullInv
<1>2. CASE \E f \in File : /\ fip[f] = 0
                           /\ fip' = [fip EXCEPT ![f] = at[p].ip]
                           /\ lock' = [lock EXCEPT ![at[p].ip] = NoProc]
                           /\ pc' = [pc EXCEPT ![p] = "idle"]
                           /\ at' = [at EXCEPT ![p] = NoCall]
  <2>1. Running /\ pc[p] = "open" /\ UNCHANGED <<dinode, icache, dir, dirlock, panicked>>
    BY DEF open_file
  <2> QED
    BY <1>2, <2>1, OpenGotInv
<1> QED
  BY <1>1, <1>2 DEF open_file

\* A lookup, whether or not the cache has an entry left.
LEMMA LookupInv ==
  ASSUME IInv, NEW p \in Proc, NEW c \in {"open", "unlink", "link"}, NEW n \in Name, NEW m \in Name,
         c = "unlink" => m = n, Lookup(p, c, n, m, c = "unlink")
  PROVE  IInv'
<1>1. /\ Running /\ pc[p] = "idle" /\ dirlock = NoProc /\ dir[n] # 0
      /\ UNCHANGED <<dinode, lock, dir, fip>>
  BY DEF Lookup
<1>2. dir[n] \in Inum /\ TypeOK /\ at \in [Proc -> Call]
  BY <1>1, Facts DEF IInv, AtInv
<1>3. CASE iget_panic(dir[n]) /\ UNCHANGED <<icache, at, pc, dirlock>>
  BY <1>1, <1>2, <1>3, PanicInv DEF iget_panic, TypeOK
<1>4. CASE /\ iget(dir[n]) /\ Enter(p, c, m, dir[n]) /\ UNCHANGED panicked
           /\ dirlock' = IF c = "unlink" THEN p ELSE NoProc
  <2>1. IgetEntry(dir[n]) \in Entry /\ IgetStep(dir[n], IgetEntry(dir[n]))
    BY <1>2, <1>4, IgetDoes
  <2>2. /\ pc'[p] = "ilock" /\ Found(at'[p], c, m, IgetEntry(dir[n]))
        /\ pc' \in [Proc -> PC] /\ at' \in [Proc -> Call]
        /\ \A q \in Proc : q # p => at'[q] = at[q] /\ pc'[q] = pc[q]
    BY <1>2, <1>4, <2>1, EnterDoes
  <2>3. (c = "unlink" /\ dirlock' = p) \/ (c # "unlink" /\ dirlock' = NoProc)
    BY <1>4
  <2>4. UNCHANGED <<dinode, lock, dir, fip, panicked>>
    BY <1>1, <1>4
  <2> QED
    BY <1>1, <2>1, <2>2, <2>3, <2>4, FoundInv
<1> QED
  BY <1>3, <1>4 DEF Lookup

\* create, with the two panics on its way.
LEMMA createInv ==
  ASSUME IInv, NEW p \in Proc, NEW n \in Name, create(p, n)
  PROVE  IInv'
<1>1. Running /\ pc[p] = "idle" /\ dirlock = NoProc /\ dir[n] = 0 /\ UNCHANGED <<lock, dir, fip>>
  BY DEF create
<1>2. TypeOK /\ at \in [Proc -> Call] /\ (\A i \in Inum : dinode[i].type = "free" => dinode[i].nlink = 0)
  BY DEF IInv, AtInv, Coherent
<1>3. CASE Allocatable = {}
  <2>1. panicked' = "ialloc: no inodes" /\ UNCHANGED <<dinode, icache, at, pc, dirlock>>
    BY <1>3 DEF create
  <2> QED
    BY <1>1, <1>2, <2>1, PanicInv DEF TypeOK
<1>4. CASE Allocatable # {}
  <2> DEFINE i == Min(Allocatable)
  <2>1. /\ dinode' = [dinode EXCEPT ![i] = [type |-> "file", nlink |-> 0]]
        /\ \/ iget(i) /\ Enter(p, "create", n, i) /\ dirlock' = p /\ UNCHANGED panicked
           \/ iget_panic(i) /\ UNCHANGED <<icache, at, pc, dirlock>>
    BY <1>4 DEF create
  <2>2. i \in Inum /\ dinode[i].type = "free"
    <3>1. Allocatable \in SUBSET Nat
      BY SizesAssumption DEF Allocatable, Inum
    <3>2. i \in Allocatable
      BY <3>1, <1>4, MinIn
    <3> QED
      BY <3>2 DEF Allocatable
  <2> HIDE DEF i
  <2>3. /\ dinode' \in [Inum -> [type : {"free", "file"}, nlink : Nat]]
        /\ \A j \in Inum : /\ dinode'[j].nlink = dinode[j].nlink
                           /\ dinode[j].type = "file" => dinode'[j].type = "file"
    BY <1>2, <2>1, <2>2 DEF TypeOK
  <2>4. CASE iget_panic(i) /\ UNCHANGED <<icache, at, pc, dirlock>>
    <3>1. panicked' \in {"iget: no inodes", "ialloc: no inodes"}
      BY <2>4 DEF iget_panic
    <3> QED
      BY <1>1, <2>3, <2>4, <3>1, PanicInv
  <2>5. CASE iget(i) /\ Enter(p, "create", n, i) /\ dirlock' = p /\ UNCHANGED panicked
    <3>1. IgetEntry(i) \in Entry /\ IgetStep(i, IgetEntry(i))
      BY <1>2, <2>2, <2>5, IgetDoes
    <3>2. /\ pc'[p] = "ilock" /\ Found(at'[p], "create", n, IgetEntry(i))
          /\ pc' \in [Proc -> PC] /\ at' \in [Proc -> Call]
          /\ \A q \in Proc : q # p => at'[q] = at[q] /\ pc'[q] = pc[q]
      BY <1>2, <2>5, <3>1, EnterDoes
    <3>3. dinode' = [dinode EXCEPT ![i] = [type |-> "file", nlink |-> 0]] /\ UNCHANGED <<lock, dir, fip, panicked>> /\ dirlock' = p
      BY <1>1, <2>1, <2>5
    <3> QED
      BY <1>1, <2>2, <3>1, <3>2, <3>3, CreatedInv
  <2> QED
    BY <2>1, <2>4, <2>5
<1> QED
  BY <1>3, <1>4

\* link, when its new name exists.
LEMMA link_existsInv ==
  ASSUME IInv, NEW p \in Proc, link_exists(p)
  PROVE  IInv'
<1> DEFINE i == dir[at[p].name]
<1>1. /\ Running /\ pc[p] = "dirlink" /\ dirlock = NoProc /\ i # 0
      /\ UNCHANGED <<dinode, lock, dir, fip>>
  BY DEF link_exists
<1>2. TypeOK /\ i \in Inum
  BY <1>1, Facts DEF IInv, AtOK
<1>3. CASE iget_panic(i) /\ UNCHANGED <<icache, at, pc, dirlock>>
  BY <1>1, <1>2, <1>3, PanicInv DEF iget_panic, TypeOK
<1>4. CASE /\ iget(i) /\ at' = [at EXCEPT ![p].put = IgetEntry(i), ![p].then = "bad"]
           /\ pc' = [pc EXCEPT ![p] = "iput"] /\ dirlock' = p /\ UNCHANGED panicked
  <2>1. IgetEntry(i) \in Entry /\ IgetStep(i, IgetEntry(i))
    BY <1>2, <1>4, IgetDoes
  <2>2. UNCHANGED <<dinode, lock, dir, fip, panicked>>
    BY <1>1, <1>4
  <2> QED
    BY <1>1, <1>4, <2>1, <2>2, ExistsInv
<1> QED
  BY <1>3, <1>4 DEF link_exists

-----------------------------------------------------------------------------
(* The invariant                                                           *)

\* Every step of a process inside a call keeps the invariant.
LEMMA StepInv ==
  ASSUME IInv, NEW p \in Proc, Step(p)
  PROVE  IInv'
<1>1. CASE ilock(p)
  BY <1>1, ilockInv
<1>2. CASE iput_lock(p)
  BY <1>2, iput_lockInv
<1>3. CASE iput_ref(p)
  BY <1>3, iput_refInv
<1>4. CASE iput_free(p)
  BY <1>4, iput_freeInv
<1>5. CASE iput_unlock(p)
  BY <1>5, iput_unlockInv
<1>6. CASE iput_dec(p)
  BY <1>6, iput_decInv
<1>7. CASE create_link(p)
  BY <1>7, create_linkInv
<1>8. CASE open_file(p)
  BY <1>8, open_fileInv
<1>9. CASE unlink_entry(p)
  BY <1>9, unlink_entryInv
<1>10. CASE drop_link(p)
  BY <1>10, drop_linkInv
<1>11. CASE link_count(p)
  BY <1>11, link_countInv
<1>12. CASE link_entry(p)
  BY <1>12, link_entryInv
<1>13. CASE link_exists(p)
  BY <1>13, link_existsInv
<1>14. CASE link_bad(p)
  BY <1>14, link_badInv
<1> QED
  BY <1>1, <1>2, <1>3, <1>4, <1>5, <1>6, <1>7, <1>8, <1>9, <1>10, <1>11, <1>12, <1>13, <1>14 DEF Step

\* So does every call.
LEMMA NextInv ==
  ASSUME IInv, Next
  PROVE  IInv'
<1>1. CASE \E p \in Proc : Step(p)
  BY <1>1, StepInv
<1>2. CASE \E p \in Proc, n \in Name : sys_open(p, n)
  <2>1. PICK p \in Proc, n \in Name : sys_open(p, n)
    BY <1>2
  <2>2. Lookup(p, "open", n, n, "open" = "unlink")
    BY <2>1 DEF sys_open, Lookup
  <2> QED
    BY <2>2, LookupInv
<1>3. CASE \E p \in Proc, n \in Name : create(p, n)
  BY <1>3, createInv
<1>4. CASE \E p \in Proc, n \in Name : sys_unlink(p, n)
  <2>1. PICK p \in Proc, n \in Name : sys_unlink(p, n)
    BY <1>4
  <2>2. Lookup(p, "unlink", n, n, "unlink" = "unlink")
    BY <2>1 DEF sys_unlink, Lookup
  <2> QED
    BY <2>2, LookupInv
<1>5. CASE \E p \in Proc, old, new \in Name : sys_link(p, old, new)
  <2>1. PICK p \in Proc, old \in Name, new \in Name : sys_link(p, old, new)
    BY <1>5
  <2>2. Lookup(p, "link", old, new, "link" = "unlink")
    BY <2>1 DEF sys_link, Lookup
  <2> QED
    BY <2>2, LookupInv
<1>6. CASE \E p \in Proc, f \in File : sys_close(p, f)
  BY <1>6, sys_closeInv
<1> QED
  BY <1>1, <1>2, <1>3, <1>4, <1>5, <1>6 DEF Next

\* A file system without files, and no call in progress.
LEMMA InitInv ==
  ASSUME Init
  PROVE  IInv
<1>1. 0 \notin Entry /\ 0 \notin Inum
  BY SizesAssumption DEF Entry, Inum
<1>2. \A q \in Proc : at[q] = NoCall /\ pc[q] = "idle"
  BY DEF Init
<1>3. \A q \in Proc : at[q].ip = 0 /\ at[q].put = 0 /\ at[q].then = "idle" /\ at[q].call = ""
  BY <1>2, NoCallIs
<1>4. TypeOK
  BY DEF Init, TypeOK, FreeInode, PC
<1>5. AtInv
  <2>1. at \in [Proc -> Call]
    BY NoCallIs DEF Init
  <2>2. \A q \in Proc : AtOK(pc[q], at[q])
    BY <1>2 DEF AtOK, Locked, Put
  <2> QED
    BY <2>1, <2>2 DEF AtInv
<1>6. LockInv
  <2>1. ASSUME NEW q \in Proc
        PROVE  ~ HoldsDir(pc[q], at[q]) /\ \A e \in Entry : ~ Holds(pc[q], at[q], e)
    BY <1>2, <1>3 DEF HoldsDir, Holds, Locked
  <2>2. dirlock = NoProc /\ \A e \in Entry : lock[e] = NoProc
    BY DEF Init
  <2> QED
    BY <2>1, <2>2, SentinelAssumption DEF LockInv
<1>7. RefInv
  <2> SUFFICES ASSUME NEW e \in Entry
               PROVE  icache[e].ref = Holders(e)
    BY DEF RefInv
  <2>1. e # 0 /\ \A f \in File : fip[f] = 0
    BY <1>1 DEF Init
  <2>2. Files(e) = {} /\ Ips(e) = {} /\ Puts(e) = {}
    BY <1>3, <2>1 DEF Files, Ips, Puts
  <2>3. Holders(e) = 0
    BY <2>2, HoldersIs, FS_EmptySet
  <2> QED
    BY <2>3 DEF Init
<1>8. Once /\ Coherent
  <2>1. \A e \in Entry : icache[e].ref = 0
    BY DEF Init
  <2>2. \A i \in Inum : dinode[i].nlink = 0
    BY DEF Init, FreeInode
  <2> QED
    BY <2>1, <2>2 DEF Once, Coherent
<1>9. NoDangling
  BY DEF Init, NoDangling
<1>10. ProcInv
  BY <1>2, <1>3 DEF ProcInv, Relies, Locked, Using, Last, Sole, Unlinking, Creating
<1>11. LinkCounts
  <2> SUFFICES ASSUME NEW i \in Inum
               PROVE  dinode[i].nlink = Cardinality(Names(i)) + Cardinality(Pending(i))
    BY DEF LinkCounts, Names
  <2>1. i # 0 /\ \A n \in Name : dir[n] = 0
    BY <1>1 DEF Init
  <2>2. Names(i) = {} /\ Pending(i) = {}
    BY <1>3, <2>1 DEF Names, Pending
  <2>3. dinode[i].nlink = 0
    BY DEF Init, FreeInode
  <2> QED
    BY <2>2, <2>3, FS_EmptySet
<1> QED
  BY <1>4, <1>5, <1>6, <1>7, <1>8, <1>9, <1>10, <1>11 DEF IInv

\* A stuttering step changes nothing the invariant is about.
LEMMA StutterInv ==
  ASSUME IInv, UNCHANGED vars
  PROVE  IInv'
<1>1. UNCHANGED <<dinode, icache, lock, dir, dirlock, fip, pc, at, panicked>>
  BY DEF vars
<1>2. TypeOK' /\ AtInv' /\ LockInv' /\ Once'
  BY <1>1 DEF IInv, TypeOK, AtInv, LockInv, Once
<1>3. Coherent' /\ NoDangling' /\ ProcInv'
  BY <1>1 DEF IInv, Coherent, NoDangling, ProcInv, Relies
<1>4. RefInv'
  <2>1. ASSUME NEW e \in Entry
        PROVE  Holders(e)' = Holders(e)
    BY <1>1 DEF Holders
  <2> QED
    BY <1>1, <2>1 DEF IInv, RefInv
<1>5. LinkCounts'
  BY <1>1 DEF IInv, LinkCounts, Running, Pending
<1> QED
  BY <1>2, <1>3, <1>4, <1>5 DEF IInv

\* Whatever open, create, link, unlink and close do to the same names and inodes at the
\* same time, the invariant of the inode cache holds.
THEOREM InodeInvariant == Spec => []IInv
<1>1. IInv /\ [Next]_vars => IInv'
  BY NextInv, StutterInv
<1> QED
  BY InitInv, <1>1, PTL DEF Spec

\* Reference and link counts stay natural numbers, and every variable in its type.
THEOREM InodeTypeOK == Spec => []TypeOK
<1>1. IInv => TypeOK
  BY DEF IInv
<1> QED
  BY InodeInvariant, <1>1, PTL

\* ip->ref is exactly the number of open files and calls that refer to the entry, and no
\* inode is in two entries of the cache.
THEOREM InodeRefCounts == Spec => []RefCounts
<1>1. ASSUME IInv
      PROVE  RefCounts
  <2>1. \A e \in Entry : icache[e].ref = Holders(e)
    BY <1>1 DEF IInv, RefInv
  <2>2. ASSUME NEW i \in Inum
        PROVE  Cardinality(Hits(i)) <= 1
    <3>1. \A e, g \in Hits(i) : e = g
      BY <1>1 DEF IInv, Once, Hits
    <3>2. CASE Hits(i) = {}
      BY <3>2, FS_EmptySet
    <3>3. CASE Hits(i) # {}
      <4>1. PICK e : e \in Hits(i)
        BY <3>3
      <4>2. Hits(i) = {e}
        BY <3>1, <4>1
      <4> QED
        BY <4>2, FS_Singleton
    <3> QED
      BY <3>2, <3>3
  <2> QED
    BY <2>1, <2>2 DEF RefCounts
<1> QED
  BY InodeInvariant, <1>1, PTL

\* A valid entry of the cache says what the disk says.
THEOREM InodeCacheCoherent == Spec => []CacheCoherent
<1>1. ASSUME IInv
      PROVE  CacheCoherent
  <2>1. ASSUME NEW e \in Entry, icache[e].ref > 0, icache[e].valid
        PROVE  dinode[icache[e].inum] = [type |-> icache[e].type, nlink |-> icache[e].nlink]
    <3>1. icache[e].inum \in Inum
      BY <1>1, <2>1 DEF IInv, Once
    <3>2. dinode[icache[e].inum] \in [type : {"free", "file"}, nlink : Nat]
      BY <1>1, <3>1 DEF IInv, TypeOK
    <3>3. dinode[icache[e].inum].type = icache[e].type /\ dinode[icache[e].inum].nlink = icache[e].nlink
      BY <1>1, <2>1 DEF IInv, Coherent
    <3> QED
      BY <3>2, <3>3
  <2> QED
    BY <2>1 DEF CacheCoherent
<1> QED
  BY InodeInvariant, <1>1, PTL

\* nlink counts the names of the inode and the links that calls are making or removing.
THEOREM InodeLinkCounts == Spec => []LinkCounts
<1>1. IInv => LinkCounts
  BY DEF IInv
<1> QED
  BY InodeInvariant, <1>1, PTL

\* No name and no open file refers to a free inode, and neither "ilock: no type" nor
\* "unlink: nlink < 1" ever happens.
THEOREM InodeNoDangling == Spec => []NoDangling
<1>1. IInv => NoDangling
  BY DEF IInv
<1> QED
  BY InodeInvariant, <1>1, PTL
=============================================================================
