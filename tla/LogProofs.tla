----------------------------- MODULE LogProofs -----------------------------
(***************************************************************************)
(* Proofs about the write-ahead log, for any number of blocks, values and  *)
(* processes and any log sizes that satisfy Budget.  One lemma per action  *)
(* shows that it preserves TypeOK and Inv; the theorems that follow draw   *)
(* the properties of Log from that invariant.                              *)
(***************************************************************************)
EXTENDS Log, FiniteSetTheorems, TLAPS

\* What the log needs of param.h: a call adds fewer entries than begin_op
\* reserves for it, one call fits the log, and the header takes one block of
\* the log area.
Budget ==
    /\ OpBlocks < MAXOPBLOCKS /\ MAXOPBLOCKS <= LOGSIZE
    /\ LogBlocks = LOGSIZE - 1 /\ OpBlocks < LogBlocks

\* The calls in progress can be counted.
LEMMA ActiveFinite ==
  ASSUME NEW A \in SUBSET Proc
  PROVE  IsFiniteSet(A) /\ Cardinality(A) \in Nat
  BY ProcAssumption, FS_Subset, FS_CardinalityType

\* log.outstanding is zero exactly when no call is in progress.
LEMMA NoneActive ==
  ASSUME NEW A \in SUBSET Proc
  PROVE  Cardinality(A) = 0 <=> A = {}
  BY ActiveFinite, FS_EmptySet

\* k calls in progress may add at most k * OpBlocks entries.
LEMMA PendingBound ==
  ASSUME NEW A \in SUBSET Proc, NEW P \in SUBSET (A \X (1..OpBlocks))
  PROVE  /\ IsFiniteSet(P)
         /\ Cardinality(P) \in Nat
         /\ Cardinality(P) <= Cardinality(A) * OpBlocks
<1>1. IsFiniteSet(1..OpBlocks) /\ Cardinality(1..OpBlocks) = OpBlocks
  BY FS_Interval, SizesAssumption
<1>2. /\ IsFiniteSet(A \X (1..OpBlocks))
      /\ Cardinality(A \X (1..OpBlocks)) = Cardinality(A) * OpBlocks
  BY <1>1, ActiveFinite, FS_Product
<1> QED
  BY <1>2, FS_Subset, FS_CardinalityType

\* Budget keeps the longest log inside the log area.
LEMMA LimitFits ==
  ASSUME Budget
  PROVE  Limit \in Int /\ Limit < LogBlocks /\ OpBlocks <= Limit
  BY SizesAssumption DEF Budget, Limit

\* begin_op's test leaves room for all entries of two or more calls.
LEMMA AdmissionFits ==
  ASSUME Budget, NEW n \in Nat, NEW k \in Nat, k >= 2, n + k * MAXOPBLOCKS <= LOGSIZE
  PROVE  n + k * OpBlocks <= Limit
<1>1. PICK d \in Nat : MAXOPBLOCKS = OpBlocks + d
  <2>1. MAXOPBLOCKS - OpBlocks \in Nat
    BY SizesAssumption
  <2> QED
    BY <2>1, SizesAssumption
<1>2. k * MAXOPBLOCKS = k * OpBlocks + k * d
  BY <1>1, SizesAssumption
<1>3. k * d >= 2 * d
  BY <1>1
<1>4. k * OpBlocks \in Nat /\ k * d \in Nat
  BY <1>1, SizesAssumption
<1> HIDE DEF Budget
<1>5. n + k * OpBlocks <= LOGSIZE - 2 * (MAXOPBLOCKS - OpBlocks)
  BY <1>1, <1>2, <1>3, <1>4, SizesAssumption
<1> QED
  BY <1>4, <1>5, SizesAssumption DEF Limit

\* What log_write's append does to the header.
LEMMA LoggedAppend ==
  ASSUME NEW s \in Seq(Block), NEW b \in Block
  PROVE  /\ Append(s, b) \in Seq(Block)
         /\ Len(Append(s, b)) = Len(s) + 1
         /\ Logged(Append(s, b)) = Logged(s) \cup {b}
         /\ NoDup(s) /\ b \notin Logged(s) => NoDup(Append(s, b))
<1> DEFINE t == Append(s, b)
<1>1. /\ t \in Seq(Block) /\ Len(t) = Len(s) + 1 /\ Len(s) \in Nat
      /\ t[Len(s) + 1] = b
      /\ \A i \in 1..Len(s) : t[i] = s[i]
  OBVIOUS
<1> HIDE DEF t
<1>2. \A i \in 1..Len(t) : i \in 1..Len(s) \/ i = Len(s) + 1
  BY <1>1
<1>3. 1..Len(s) \in SUBSET (1..Len(t)) /\ Len(s) + 1 \in 1..Len(t)
  BY <1>1
<1>4. Logged(t) = Logged(s) \cup {b}
  <2>1. ASSUME NEW x \in Logged(t) PROVE x \in Logged(s) \cup {b}
    BY <1>1, <1>2 DEF Logged
  <2>2. ASSUME NEW x \in Logged(s) \cup {b} PROVE x \in Logged(t)
    BY <1>1, <1>3 DEF Logged
  <2> QED
    BY <2>1, <2>2
<1>5. NoDup(s) /\ b \notin Logged(s) => NoDup(t)
  BY <1>1, <1>2 DEF NoDup, Logged
<1> QED
  BY <1>1, <1>4, <1>5 DEF t

\* While the system is up the log never fills the log area.
LEMMA LogLength ==
  ASSUME Budget, TypeOK, Inv, boot = "up"
  PROVE  /\ IsFiniteSet(Pending) /\ Cardinality(Pending) \in Nat
         /\ Len(lh) \in Nat /\ Len(lh) < LogBlocks
         /\ Limit \in Int /\ Len(lh) + Cardinality(Pending) <= Limit
<1>1. IsFiniteSet(Pending) /\ Cardinality(Pending) \in Nat
  BY PendingBound DEF Active, Pending
<1>2. Len(lh) \in Nat /\ Len(lh) + Cardinality(Pending) <= Limit
  BY DEF TypeOK, Inv, SpaceInv
<1> QED
  BY <1>1, <1>2, LimitFits, SizesAssumption

\* The process that runs commit() is alone with the log.
LEMMA SoleCommitter ==
  ASSUME Inv, NEW p \in Proc, Commits(p)
  PROVE  /\ committing /\ Active = {} /\ Pending = {} /\ boot = "up"
         /\ \A q \in Proc : q # p => ~Commits(q)
<1>1. Active = {} /\ committing /\ \A q \in Proc : q # p => ~Commits(q)
  BY DEF Inv, CountInv
<1>2. boot = "up"
  BY DEF Inv, CountInv, Commits
<1> QED
  BY <1>1, <1>2 DEF Pending

\* While a process is inside a call nobody commits.
LEMMA InCall ==
  ASSUME TypeOK, Inv, NEW p \in Proc, InOp(p)
  PROVE  /\ p \in Active /\ ~committing /\ boot = "up"
         /\ \A q \in Proc : ~Commits(q)
         /\ outstanding >= 1
<1>1. p \in Active
  BY DEF Active
<1>2. ~committing /\ boot = "up" /\ \A q \in Proc : ~Commits(q)
  BY <1>1 DEF Inv, CountInv, InOp
<1>3. outstanding \in Nat /\ outstanding # 0
  BY <1>1, NoneActive DEF TypeOK, Inv, CountInv, Active
<1> QED
  BY <1>1, <1>2, <1>3

\* call preserves the invariant.
LEMMA callInv ==
  ASSUME Budget, TypeOK, Inv, NEW p \in Proc, call(p)
  PROVE  TypeOK' /\ Inv'
<1>1. /\ pc[p] = "idle" /\ pc' = [pc EXCEPT ![p] = "begin"] /\ boot = "up"
      /\ UNCHANGED <<disk, logdisk, head, cache, dirty, owner, lh, outstanding, committing,
                     held, used, tail, boot, panicked>>
  BY DEF call, Running, diskVars, bufVars, logVars
<1>2. TypeOK'
  BY <1>1 DEF TypeOK
<1>3. Active' = Active /\ Pending' = Pending
  <2>1. Active' = Active
    BY <1>1 DEF TypeOK, Active, InOp
  <2> QED
    BY <1>1, <2>1 DEF Pending
<1>4. CountInv'
  BY <1>1, <1>3 DEF TypeOK, Inv, CountInv, Commits
<1>5. SpaceInv'
  BY <1>1, <1>3 DEF TypeOK, Inv, SpaceInv, Limit, Logged
<1>6. BufInv'
  BY <1>1 DEF TypeOK, Inv, BufInv
<1>7. CommitInv'
  BY <1>1 DEF TypeOK, Inv, CommitInv, CommitStep, NoDup, Installed, Contents, Logged
<1>8. RecoverInv' /\ NoPanic'
  BY <1>1 DEF Inv, RecoverInv, NoPanic
<1> QED
  BY <1>2, <1>4, <1>5, <1>6, <1>7, <1>8 DEF Inv


\* begin_op preserves the invariant.
LEMMA begin_opInv ==
  ASSUME Budget, TypeOK, Inv, NEW p \in Proc, begin_op(p)
  PROVE  TypeOK' /\ Inv'
<1> USE SizesAssumption, SentinelAssumption DEF Budget
<1>1. pc[p] = "begin" /\ boot = "up" /\ boot' = boot
  BY DEF begin_op, Running
<1>2. pc' = [pc EXCEPT ![p] = "sleep"] \/ pc' = [pc EXCEPT ![p] = "op"]
  BY DEF begin_op
<1>3. NoPanic' /\ RecoverInv'
  BY <1>1 DEF begin_op, diskVars, bufVars, Inv, NoPanic, RecoverInv
<1>4. TypeOK'
  <2>1. pc' \in [Proc -> {"idle", "begin", "sleep", "op", "have", "logging",
                          "write_log", "write_head", "install", "clear", "finish"}]
    BY <1>2 DEF TypeOK
  <2>2. used' \in [Proc -> 0..OpBlocks] /\ outstanding' \in Nat
    <3>1. used \in [Proc -> 0..OpBlocks] /\ outstanding \in Nat /\ 0 \in 0..OpBlocks
      BY DEF TypeOK
    <3>2. \/ UNCHANGED <<outstanding, used>>
          \/ outstanding' = outstanding + 1 /\ used' = [used EXCEPT ![p] = 0]
      BY DEF begin_op
    <3> QED
      BY <3>1, <3>2
  <2> QED
    BY <2>1, <2>2 DEF begin_op, diskVars, bufVars, TypeOK
<1>5. BufInv'
  BY <1>1, <1>2 DEF begin_op, diskVars, bufVars, TypeOK, Inv, BufInv
<1>6. CommitInv'
  <2>1. \A q \in Proc : CommitStep(q)'
    BY <1>1, <1>2 DEF begin_op, diskVars, bufVars, TypeOK, Inv, CommitInv, CommitStep, Contents, Installed
  <2>2. (\A q \in Proc : pc'[q] \notin {"install", "clear"}) =>
           \A q \in Proc : pc[q] \notin {"install", "clear"}
    BY <1>1, <1>2 DEF TypeOK
  <2> QED
    BY <2>1, <2>2, <1>1 DEF begin_op, diskVars, bufVars, Inv, CommitInv, NoDup, Logged
<1>7. CASE MustWait
  <2>1. pc' = [pc EXCEPT ![p] = "sleep"] /\ UNCHANGED <<outstanding, used, lh, head, held, committing>>
    BY <1>7 DEF begin_op, diskVars
  <2>2. Active' = Active
    BY <1>1, <2>1 DEF TypeOK, Active, InOp
  <2>3. CountInv'
    BY <1>1, <2>1, <2>2 DEF TypeOK, Inv, CountInv, Commits
  <2>4. SpaceInv'
    BY <1>1, <2>1, <2>2 DEF TypeOK, Inv, SpaceInv, Pending, Limit, Logged
  <2> QED
    BY <1>3, <1>4, <1>5, <1>6, <2>3, <2>4 DEF Inv
<1>8. CASE ~MustWait
  <2>1. /\ pc' = [pc EXCEPT ![p] = "op"] /\ used' = [used EXCEPT ![p] = 0]
        /\ outstanding' = outstanding + 1
        /\ UNCHANGED <<lh, head, held, committing>>
    BY <1>8 DEF begin_op, diskVars
  <2>2. Active' = Active \cup {p} /\ p \notin Active
    BY <1>1, <2>1 DEF TypeOK, Active, InOp
  <2>3. Cardinality(Active') = outstanding + 1
    BY <2>2, ActiveFinite, FS_AddElement DEF Inv, CountInv, Active
  <2>4. CountInv'
    <3>1. ~committing /\ \A q \in Proc : ~Commits(q)
      BY <1>8 DEF MustWait, Inv, CountInv
    <3>2. \A q \in Proc : ~Commits(q)'
      BY <2>1, <3>1 DEF TypeOK, Commits
    <3>3. boot' = "up" /\ Active' # {}
      BY <1>1, <2>2 DEF begin_op
    <3> QED
      BY <2>1, <2>3, <3>1, <3>2, <3>3 DEF CountInv
  <2>5. Cardinality(Pending') \in Nat /\ Cardinality(Pending') <= (outstanding + 1) * OpBlocks
    <3>1. Active' \in SUBSET Proc /\ Pending' \in SUBSET (Active' \X (1..OpBlocks))
      BY DEF Active, Pending
    <3> QED
      BY <2>3, <3>1, PendingBound
  <2>6. Len(lh) + Cardinality(Pending') <= Limit
    <3>1. CASE outstanding = 0
      <4>1. Active = {}
        BY <3>1, ActiveFinite, FS_EmptySet DEF Inv, CountInv, Active
      <4>2. lh = <<>>
        BY <4>1, <1>1, <1>8 DEF Inv, CountInv, MustWait
      <4> QED
        BY <3>1, <4>2, <2>5, LimitFits
    <3>2. CASE outstanding # 0
      <4>1. outstanding + 1 \in Nat /\ outstanding + 1 >= 2 /\ Len(lh) \in Nat
        BY <3>2 DEF TypeOK
      <4>2. (outstanding + 1) * MAXOPBLOCKS \in Nat /\ (outstanding + 1) * OpBlocks \in Nat
        BY <4>1
      <4>3. Len(lh) + (outstanding + 1) * MAXOPBLOCKS <= LOGSIZE
        BY <4>1, <4>2, <1>8 DEF MustWait
      <4>4. Len(lh) + (outstanding + 1) * OpBlocks <= Limit
        BY <4>1, <4>3, AdmissionFits
      <4> QED
        BY <4>1, <4>2, <4>4, <2>5, LimitFits
    <3> QED
      BY <3>1, <3>2
  <2>7. SpaceInv'
    BY <1>1, <2>1, <2>6 DEF TypeOK, Inv, SpaceInv, Limit, Logged
  <2> QED
    BY <1>3, <1>4, <1>5, <1>6, <2>4, <2>7 DEF Inv
<1> QED
  BY <1>7, <1>8


\* end_op preserves the invariant.
LEMMA end_opInv ==
  ASSUME Budget, TypeOK, Inv, NEW p \in Proc, end_op(p)
  PROVE  TypeOK' /\ Inv'
<1> USE SizesAssumption, SentinelAssumption DEF Budget
<1>1. pc[p] = "op" /\ boot = "up" /\ outstanding' = outstanding - 1
  BY DEF end_op, Running
<1>2. UNCHANGED <<disk, logdisk, head, cache, dirty, owner, lh, held, used, boot>>
  BY DEF end_op, diskVars, bufVars
<1>3. p \in Active /\ ~committing /\ \A q \in Proc : ~Commits(q)
  BY <1>1, InCall DEF InOp
<1>4. outstanding \in Nat /\ outstanding >= 1
  BY <1>1, InCall DEF InOp, TypeOK
<1>5. NoPanic' /\ RecoverInv'
  BY <1>1, <1>2, <1>3 DEF end_op, Inv, NoPanic, RecoverInv
<1>6. \A q \in Proc : ~Commits(q)
  BY <1>3
<1>7. pc' \in [Proc -> {"idle", "begin", "sleep", "op", "have", "logging",
                        "write_log", "write_head", "install", "clear", "finish"}]
  BY DEF end_op, Woken, TypeOK
<1>8. \A q \in Proc : q # p => pc'[q] = pc[q] \/ (pc[q] = "sleep" /\ pc'[q] = "begin")
  BY DEF end_op, Woken, TypeOK
<1>9. \/ /\ outstanding = 1 /\ committing' = TRUE /\ tail' = 0
         /\ \/ lh = <<>> /\ pc'[p] = "finish"
            \/ lh # <<>> /\ pc'[p] = "write_log"
         /\ \A q \in Proc : q # p => pc'[q] = pc[q]
      \/ outstanding # 1 /\ committing' = committing /\ tail' = tail /\ pc'[p] = "idle"
  BY <1>1 DEF end_op, Woken, TypeOK
<1>10. TypeOK'
  <2>1. outstanding' \in Nat
    BY <1>1, <1>4
  <2>2. tail' \in Nat
    BY <1>9 DEF TypeOK
  <2>3. committing' \in BOOLEAN
    BY <1>9, Zenon DEF TypeOK
  <2>4. panicked' \in BOOLEAN
    BY Zenon DEF end_op, TypeOK
  <2> QED
    BY <1>2, <1>7, <2>1, <2>2, <2>3, <2>4 DEF TypeOK
<1>11. Active' = Active \ {p}
  BY <1>1, <1>8, <1>9 DEF Active, InOp
<1>12. Cardinality(Active') = outstanding'
  BY <1>1, <1>3, <1>11, ActiveFinite, FS_RemoveElement DEF Inv, CountInv, Active
<1>13. outstanding = 1 => Active' = {}
  BY <1>1, <1>12, NoneActive DEF Active
<1>14. outstanding # 1 => Active' # {}
  BY <1>1, <1>4, <1>12, FS_EmptySet
<1>15. CountInv'
  <2>1. \A q \in Proc : Commits(q)' => q = p /\ outstanding = 1
    BY <1>6, <1>8, <1>9 DEF Commits
  <2>2. outstanding = 1 => Commits(p)'
    BY <1>9 DEF Commits
  <2> QED
    BY <2>1, <2>2, <1>1, <1>2, <1>3, <1>9, <1>12, <1>13, <1>14 DEF Inv, CountInv
<1>16. SpaceInv'
  <2>1. Pending' \in SUBSET Pending
    BY <1>2, <1>11 DEF Pending
  <2>2. IsFiniteSet(Pending) /\ Cardinality(Pending) \in Nat
    BY PendingBound DEF Active, Pending
  <2>3. Cardinality(Pending') \in Nat /\ Cardinality(Pending') <= Cardinality(Pending)
    BY <2>1, <2>2, FS_Subset, FS_CardinalityType
  <2>4. Len(lh) \in Nat /\ Limit \in Int /\ Len(lh) + Cardinality(Pending) <= Limit
    BY <1>1, LimitFits DEF TypeOK, Inv, SpaceInv
  <2>5. Len(lh) + Cardinality(Pending') <= Limit
    BY <2>2, <2>3, <2>4
  <2>6. \A q \in Proc : pc'[q] = "logging" => held[q] \in Logged(lh) \/ used[q] < OpBlocks
    BY <1>8, <1>9 DEF Inv, SpaceInv
  <2> QED
    BY <1>2, <2>5, <2>6 DEF Inv, SpaceInv, Limit, Logged
<1>17. BufInv'
  <2>1. \A q \in Proc : pc'[q] \in {"have", "logging"} <=> pc[q] \in {"have", "logging"}
    BY <1>1, <1>8, <1>9
  <2>2. \A q \in Proc : pc'[q] = "logging" <=> pc[q] = "logging"
    BY <1>1, <1>8, <1>9
  <2> QED
    BY <1>2, <2>1, <2>2 DEF Inv, BufInv
<1>18. CommitInv'
  <2>1. \A q \in Proc : CommitStep(q)'
    <3> SUFFICES ASSUME NEW q \in Proc PROVE CommitStep(q)'
      OBVIOUS
    <3>1. CASE q # p
      BY <3>1, <1>6, <1>8 DEF CommitStep, Commits
    <3>2. CASE q = p
      BY <3>2, <1>2, <1>9 DEF CommitStep, TypeOK
    <3> QED
      BY <3>1, <3>2
  <2>2. \A q \in Proc : pc[q] \notin {"install", "clear"}
    BY <1>6 DEF Commits
  <2> QED
    BY <1>1, <1>2, <2>1, <2>2 DEF Inv, CommitInv, NoDup, Logged
<1> QED
  BY <1>5, <1>10, <1>15, <1>16, <1>17, <1>18 DEF Inv


\* bread preserves the invariant.
LEMMA breadInv ==
  ASSUME Budget, TypeOK, Inv, NEW p \in Proc, NEW b \in Block, bread(p, b)
  PROVE  TypeOK' /\ Inv'
<1> USE SizesAssumption, SentinelAssumption
<1>1. /\ pc[p] = "op" /\ pc' = [pc EXCEPT ![p] = "have"]
      /\ owner[b] = NoProc /\ owner' = [owner EXCEPT ![b] = p]
      /\ held' = [held EXCEPT ![p] = b]
      /\ cache' = [cache EXCEPT ![b] = Contents(b)]
      /\ UNCHANGED <<disk, logdisk, head, dirty, lh, outstanding, committing,
                     used, tail, boot, panicked>>
  BY DEF bread, diskVars, logVars
<1>2. boot = "up" /\ \A q \in Proc : ~Commits(q)
  BY <1>1, InCall DEF InOp
<1>3. Contents(b) \in Value /\ \A c \in Block : c # b => cache'[c] = cache[c]
  BY <1>1 DEF TypeOK, Contents
<1>4. TypeOK'
  BY <1>1, <1>3 DEF TypeOK
<1>5. Active' = Active /\ Pending' = Pending
  <2>1. Active' = Active
    BY <1>1 DEF TypeOK, Active, InOp
  <2> QED
    BY <1>1, <2>1 DEF Pending
<1>6. \A q \in Proc : ~Commits(q)' /\ CommitStep(q)'
  BY <1>1, <1>2 DEF TypeOK, CommitStep, Commits
<1>7. CountInv'
  BY <1>1, <1>2, <1>5, <1>6 DEF Inv, CountInv
<1>8. SpaceInv'
  BY <1>1, <1>5 DEF TypeOK, Inv, SpaceInv, Limit, Logged
<1>9. BufInv'
  <2>1. held[p] = NoBlock /\ \A q \in Proc : held[q] # b
    <3>1. held[p] = NoBlock
      BY <1>1 DEF Inv, BufInv
    <3>2. \A q \in Proc : held[q] # b
      BY <1>1 DEF Inv, BufInv
    <3> QED
      BY <3>1, <3>2
  <2>2. cache'[b] # NotCached /\ (cache'[b] = cache[b] \/ cache'[b] = disk[b])
    BY <1>1, <1>3 DEF TypeOK, Contents
  <2>3. \A q \in Proc : held'[q] # NoBlock <=> pc'[q] \in {"have", "logging"}
    BY <1>1 DEF TypeOK, Inv, BufInv
  <2>4. \A q \in Proc, c \in Block : owner'[c] = q <=> held'[q] = c
    BY <1>1, <2>1 DEF TypeOK, Inv, BufInv
  <2>5. \A q \in Proc : held'[q] # NoBlock => cache'[held'[q]] # NotCached
    BY <1>1, <1>3, <2>1, <2>2 DEF TypeOK, Inv, BufInv
  <2>6. \A c \in dirty' : cache'[c] # NotCached
    BY <1>1, <1>3, <2>2 DEF TypeOK, Inv, BufInv
  <2>7. \A q \in Proc : pc[q] = "logging" => pc'[q] = "logging" /\ held'[q] = held[q]
    BY <1>1 DEF TypeOK
  <2>8. \A c \in Block : cache'[c] = NotCached \/ cache'[c] = disk[c] \/ c \in dirty
                         \/ \E q \in Proc : pc'[q] = "logging" /\ held'[q] = c
    BY <1>3, <2>1, <2>2, <2>7 DEF Inv, BufInv
  <2> QED
    BY <1>1, <2>3, <2>4, <2>5, <2>6, <2>8 DEF BufInv
<1>10. CommitInv'
  <2>1. \A q \in Proc : pc[q] \notin {"install", "clear"}
    BY <1>2 DEF Commits
  <2> QED
    BY <1>1, <1>2, <1>6, <2>1 DEF Inv, CommitInv, NoDup, Logged
<1>11. RecoverInv' /\ NoPanic'
  BY <1>1, <1>2 DEF Inv, RecoverInv, NoPanic
<1> QED
  BY <1>4, <1>7, <1>8, <1>9, <1>10, <1>11 DEF Inv


\* brelse preserves the invariant.
LEMMA brelseInv ==
  ASSUME Budget, TypeOK, Inv, NEW p \in Proc, brelse(p)
  PROVE  TypeOK' /\ Inv'
<1> USE SentinelAssumption
<1>1. /\ pc[p] = "have" /\ pc' = [pc EXCEPT ![p] = "op"] /\ boot = "up"
      /\ owner' = [owner EXCEPT ![held[p]] = NoProc]
      /\ held' = [held EXCEPT ![p] = NoBlock]
      /\ UNCHANGED <<disk, logdisk, head, cache, dirty, lh, outstanding, committing,
                     used, tail, boot, panicked>>
  BY DEF brelse, Running, diskVars, logVars
<1>2. TypeOK'
  BY <1>1 DEF TypeOK
<1>3. Active' = Active /\ Pending' = Pending
  <2>1. Active' = Active
    BY <1>1 DEF TypeOK, Active, InOp
  <2> QED
    BY <1>1, <2>1 DEF Pending
<1>4. CountInv'
  BY <1>1, <1>3 DEF TypeOK, Inv, CountInv, Commits
<1>5. SpaceInv'
  BY <1>1, <1>3 DEF TypeOK, Inv, SpaceInv, Limit, Logged
<1>6. BufInv'
  BY <1>1 DEF TypeOK, Inv, BufInv
<1>7. CommitInv'
  BY <1>1 DEF TypeOK, Inv, CommitInv, CommitStep, NoDup, Installed, Contents, Logged
<1>8. RecoverInv' /\ NoPanic'
  BY <1>1 DEF Inv, RecoverInv, NoPanic
<1> QED
  BY <1>2, <1>4, <1>5, <1>6, <1>7, <1>8 DEF Inv


\* log_write_tests preserves the invariant.
LEMMA log_write_testsInv ==
  ASSUME Budget, TypeOK, Inv, NEW p \in Proc, NEW v \in Value, log_write_tests(p, v)
  PROVE  TypeOK' /\ Inv'
<1> USE SizesAssumption, SentinelAssumption
<1>1. /\ pc[p] = "have" /\ pc' = [pc EXCEPT ![p] = "logging"]
      /\ cache' = [cache EXCEPT ![held[p]] = v]
      /\ UNCHANGED <<disk, logdisk, head, dirty, owner, lh, outstanding, committing,
                     held, used, tail, boot>>
  BY DEF log_write_tests, diskVars, logVars
<1>2. held[p] \in Block
  BY <1>1 DEF TypeOK, Inv, BufInv
<1>3. boot = "up" /\ outstanding >= 1 /\ \A q \in Proc : ~Commits(q)
  BY <1>1, InCall DEF InOp
<1>4. panicked' = FALSE
  <2>1. ~LogFull /\ ~(outstanding < 1)
    BY <1>3, LogLength DEF LogFull, TypeOK
  <2>2. panicked' = (LogFull \/ outstanding < 1)
    BY DEF log_write_tests
  <2> QED
    BY <2>1, <2>2, Zenon
<1>5. TypeOK'
  <2>1. pc' \in [Proc -> {"idle", "begin", "sleep", "op", "have", "logging",
                          "write_log", "write_head", "install", "clear", "finish"}]
    BY <1>1 DEF TypeOK
  <2>2. cache' \in [Block -> Value \cup {NotCached}]
    BY <1>1, <1>2 DEF TypeOK
  <2> QED
    BY <1>1, <1>4, <2>1, <2>2 DEF TypeOK
<1>6. Active' = Active /\ Pending' = Pending
  <2>1. Active' = Active
    BY <1>1 DEF TypeOK, Active, InOp
  <2> QED
    BY <1>1, <2>1 DEF Pending
<1>7. CountInv'
  BY <1>1, <1>6 DEF TypeOK, Inv, CountInv, Commits
<1>8. SpaceInv'
  BY <1>1, <1>6 DEF log_write_tests, TypeOK, Inv, SpaceInv, Limit, Logged
<1>9. BufInv'
  BY <1>1, <1>2 DEF TypeOK, Inv, BufInv
<1>10. CommitInv'
  <2>1. \A q \in Proc : CommitStep(q)'
    BY <1>1, <1>3 DEF TypeOK, CommitStep, Commits
  <2>2. \A q \in Proc : pc[q] \notin {"install", "clear"}
    BY <1>3 DEF Commits
  <2> QED
    BY <1>1, <2>1, <2>2, <1>3 DEF Inv, CommitInv, NoDup, Logged
<1>11. RecoverInv'
  BY <1>1, <1>3 DEF RecoverInv
<1> QED
  BY <1>4, <1>5, <1>7, <1>8, <1>9, <1>10, <1>11 DEF Inv, NoPanic


\* log_write preserves the invariant.
LEMMA log_writeInv ==
  ASSUME Budget, TypeOK, Inv, NEW p \in Proc, log_write(p)
  PROVE  TypeOK' /\ Inv'
<1> USE SizesAssumption, SentinelAssumption
<1> DEFINE b == held[p]
<1>1. /\ pc[p] = "logging" /\ pc' = [pc EXCEPT ![p] = "op"]
      /\ dirty' = dirty \cup {b}
      /\ owner' = [owner EXCEPT ![b] = NoProc]
      /\ held' = [held EXCEPT ![p] = NoBlock]
      /\ UNCHANGED <<disk, logdisk, head, cache, outstanding, committing, tail, boot, panicked>>
  BY DEF log_write, diskVars
<1>2. b \in Block /\ owner[b] = p /\ cache[b] # NotCached
  BY <1>1 DEF TypeOK, Inv, BufInv
<1>3. boot = "up" /\ p \in Active /\ \A q \in Proc : ~Commits(q)
  BY <1>1, InCall DEF InOp
<1>4. \/ b \in Logged(lh) /\ UNCHANGED <<lh, used>>
      \/ /\ b \notin Logged(lh) /\ lh' = Append(lh, b) /\ used' = [used EXCEPT ![p] = @ + 1]
         /\ used[p] < OpBlocks
  BY <1>1 DEF log_write, Inv, SpaceInv
<1>5. Active' = Active
  BY <1>1 DEF TypeOK, Active, InOp
<1>6. TypeOK'
  <2>1. used' \in [Proc -> 0..OpBlocks] /\ lh' \in Seq(Block)
    <3>1. used \in [Proc -> 0..OpBlocks] /\ lh \in Seq(Block)
      BY DEF TypeOK
    <3>2. used[p] < OpBlocks => used[p] + 1 \in 0..OpBlocks
      BY <3>1
    <3>3. CASE UNCHANGED <<lh, used>>
      BY <3>1, <3>3
    <3>4. CASE lh' = Append(lh, b) /\ used' = [used EXCEPT ![p] = @ + 1] /\ used[p] < OpBlocks
      <4>1. lh' \in Seq(Block)
        BY <3>1, <3>4, <1>2
      <4>2. used' \in [Proc -> 0..OpBlocks]
        BY <3>1, <3>2, <3>4
      <4> QED
        BY <4>1, <4>2
    <3> QED
      BY <1>4, <3>3, <3>4
  <2> QED
    BY <1>1, <1>2, <2>1 DEF TypeOK
<1>7. CountInv'
  <2>1. \A q \in Proc : ~Commits(q)'
    BY <1>1, <1>3 DEF TypeOK, Commits
  <2> QED
    BY <1>1, <1>3, <1>5, <2>1 DEF Inv, CountInv
<1>8. SpaceInv'
  <2>1. Len(lh') + Cardinality(Pending') <= Limit
    <3>1. CASE UNCHANGED <<lh, used>>
      <4>1. Pending' = Pending
        BY <3>1, <1>5 DEF Pending
      <4> QED
        BY <3>1, <4>1, <1>3, LogLength
    <3>2. CASE lh' = Append(lh, b) /\ used' = [used EXCEPT ![p] = @ + 1] /\ used[p] < OpBlocks
      <4> DEFINE e == <<p, used[p] + 1>>
      <4>1. e \in Pending
        BY <3>2, <1>3 DEF Pending, TypeOK
      <4>2. Pending' = Pending \ {e}
        BY <3>2, <1>5 DEF Pending, TypeOK, Active
      <4>3. Cardinality(Pending') = Cardinality(Pending) - 1
        BY <4>1, <4>2, <1>3, LogLength, FS_RemoveElement
      <4>4. Len(lh') = Len(lh) + 1
        BY <3>2, <1>2 DEF TypeOK
      <4> QED
        BY <4>3, <4>4, <1>3, LogLength
    <3> QED
      BY <1>4, <3>1, <3>2
  <2>2. \A q \in Proc : pc'[q] = "logging" => q # p /\ pc[q] = "logging"
    BY <1>1 DEF TypeOK
  <2>3. Logged(lh) \in SUBSET Logged(lh')
    BY <1>2, <1>4, LoggedAppend DEF TypeOK
  <2>4. \A q \in Proc : q # p => used'[q] = used[q] /\ held'[q] = held[q]
    BY <1>1, <1>4 DEF TypeOK
  <2> QED
    BY <1>1, <2>1, <2>2, <2>3, <2>4 DEF Inv, SpaceInv, Limit
<1>9. BufInv'
  BY <1>1, <1>2 DEF TypeOK, Inv, BufInv
<1>10. CommitInv'
  <2>1. \A q \in Proc : CommitStep(q)'
    BY <1>1, <1>3 DEF TypeOK, CommitStep, Commits
  <2>2. Logged(lh') = Logged(lh) \cup {b}
    BY <1>2, <1>4, LoggedAppend DEF TypeOK
  <2>3. NoDup(lh')
    <3>1. NoDup(lh) /\ lh \in Seq(Block)
      BY DEF TypeOK, Inv, CommitInv
    <3>2. CASE lh' = lh
      BY <3>1, <3>2 DEF NoDup
    <3>3. CASE b \notin Logged(lh) /\ lh' = Append(lh, b)
      <4>1. NoDup(Append(lh, b))
        BY <3>1, <3>3, <1>2, LoggedAppend
      <4> QED
        BY <3>3, <4>1 DEF NoDup
    <3> QED
      BY <1>4, <3>2, <3>3
  <2>4. head = <<>> /\ dirty = Logged(lh)
    BY <1>3 DEF Inv, CommitInv, Commits
  <2> QED
    BY <1>1, <2>1, <2>2, <2>3, <2>4 DEF Inv, CommitInv, NoDup
<1>11. RecoverInv' /\ NoPanic'
  BY <1>1, <1>3 DEF Inv, RecoverInv, NoPanic
<1> QED
  BY <1>6, <1>7, <1>8, <1>9, <1>10, <1>11 DEF Inv


\* bget_recycle preserves the invariant.
LEMMA bget_recycleInv ==
  ASSUME Budget, TypeOK, Inv, NEW b \in Block, bget_recycle(b)
  PROVE  TypeOK' /\ Inv'
<1> USE SentinelAssumption
<1>1. /\ cache[b] # NotCached /\ owner[b] = NoProc /\ b \notin dirty /\ boot = "up"
      /\ cache' = [cache EXCEPT ![b] = NotCached]
      /\ UNCHANGED <<disk, logdisk, head, dirty, owner, lh, outstanding, committing,
                     pc, held, used, tail, boot, panicked>>
  BY DEF bget_recycle, Running, diskVars, logVars, procVars
<1>2. cache[b] = disk[b] /\ \A c \in Block : Contents(c)' = Contents(c)
  <2>1. cache[b] = disk[b]
    BY <1>1 DEF Inv, BufInv
  <2> QED
    BY <1>1, <2>1 DEF TypeOK, Contents
<1>3. TypeOK'
  BY <1>1 DEF TypeOK
<1>4. Active' = Active /\ Pending' = Pending
  BY <1>1 DEF Active, InOp, Pending
<1>5. CountInv'
  BY <1>1, <1>4 DEF Inv, CountInv, Commits
<1>6. SpaceInv'
  BY <1>1, <1>4 DEF Inv, SpaceInv, Limit, Logged
<1>7. BufInv'
  BY <1>1 DEF TypeOK, Inv, BufInv
<1>8. CommitInv'
  <2>1. \A q \in Proc : CommitStep(q)'
    <3>1. \A i \in 1..Len(lh) : lh[i] \in Block
      BY DEF TypeOK
    <3>2. \A q \in Proc : pc[q] = "write_log" => \A i \in 1..tail : i \in 1..Len(lh)
      BY DEF TypeOK, Inv, CommitInv, CommitStep
    <3> QED
      BY <1>1, <1>2, <3>1, <3>2 DEF Inv, CommitInv, CommitStep, Installed
  <2> QED
    BY <1>1, <2>1 DEF Inv, CommitInv, NoDup, Logged
<1>9. RecoverInv' /\ NoPanic'
  BY <1>1 DEF Inv, RecoverInv, NoPanic
<1> QED
  BY <1>3, <1>5, <1>6, <1>7, <1>8, <1>9 DEF Inv


\* write_log preserves the invariant.
LEMMA write_logInv ==
  ASSUME Budget, TypeOK, Inv, NEW p \in Proc, write_log(p)
  PROVE  TypeOK' /\ Inv'
<1> USE SizesAssumption, SentinelAssumption
<1> DEFINE b == lh[tail + 1]
<1>1. /\ pc[p] = "write_log"
      /\ logdisk' = [logdisk EXCEPT ![tail + 1] = Contents(b)]
      /\ cache' = [cache EXCEPT ![b] = Contents(b)]
      /\ UNCHANGED <<disk, head, dirty, owner, lh, outstanding, committing,
                     held, used, boot, panicked>>
  BY DEF write_log, logVars
<1>2. \/ tail + 1 = Len(lh) /\ tail' = 0 /\ pc' = [pc EXCEPT ![p] = "write_head"]
      \/ tail + 1 # Len(lh) /\ tail' = tail + 1 /\ pc' = pc
  BY DEF write_log
<1>3. /\ tail \in Nat /\ tail < Len(lh) /\ b \in Block /\ tail + 1 \in 1..LogBlocks
      /\ \A i \in 1..tail : logdisk[i] = Contents(lh[i])
  <2>1. boot = "up"
    BY <1>1, SoleCommitter DEF Commits
  <2>2. Len(lh) \in Nat /\ Len(lh) < LogBlocks
    BY <2>1, LogLength
  <2>3. tail < Len(lh) /\ \A i \in 1..tail : logdisk[i] = Contents(lh[i])
    BY <1>1 DEF Inv, CommitInv, CommitStep
  <2>4. tail \in Nat /\ lh \in Seq(Block)
    BY DEF TypeOK
  <2> QED
    BY <2>2, <2>3, <2>4
<1>4. boot = "up" /\ Active = {} /\ \A q \in Proc : q # p => ~Commits(q)
  BY <1>1, SoleCommitter DEF Commits
<1>5. Contents(b) \in Value /\ \A c \in Block : Contents(c)' = Contents(c)
  BY <1>1, <1>3 DEF Contents, TypeOK
<1>6. TypeOK'
  <2>1. tail' \in Nat /\ pc' \in [Proc -> {"idle", "begin", "sleep", "op", "have", "logging",
                        "write_log", "write_head", "install", "clear", "finish"}]
    <3>1. pc \in [Proc -> {"idle", "begin", "sleep", "op", "have", "logging",
                        "write_log", "write_head", "install", "clear", "finish"}]
      BY DEF TypeOK
    <3> QED
      BY <1>2, <1>3, <3>1
  <2> QED
    BY <1>1, <1>3, <1>5, <2>1 DEF TypeOK
<1>7. Active' = Active /\ Pending' = Pending
  <2>1. Active' = Active
    BY <1>1, <1>2 DEF TypeOK, Active, InOp
  <2> QED
    BY <1>1, <2>1 DEF Pending
<1>8. CountInv'
  BY <1>1, <1>2, <1>7 DEF TypeOK, Inv, CountInv, Commits
<1>9. SpaceInv'
  BY <1>1, <1>2, <1>7 DEF TypeOK, Inv, SpaceInv, Limit, Logged
<1>10. BufInv'
  <2>1. \A q \in Proc : pc'[q] \in {"have", "logging"} <=> pc[q] \in {"have", "logging"}
    BY <1>1, <1>2 DEF TypeOK
  <2>2. \A q \in Proc : pc[q] # "logging"
    BY <1>4 DEF Active, InOp
  <2>3. \A c \in Block : cache'[c] = cache[c] \/ cache'[c] = disk[c]
    BY <1>1, <1>3 DEF TypeOK, Contents
  <2>4. \A c \in Block : cache[c] # NotCached => cache'[c] # NotCached
    BY <1>1, <1>3, <1>5 DEF TypeOK
  <2> QED
    BY <1>1, <2>1, <2>2, <2>3, <2>4 DEF TypeOK, Inv, BufInv
<1>11. CommitInv'
  <2>1. \A i \in 1..tail + 1 : logdisk'[i] = Contents(lh[i])'
    <3> SUFFICES ASSUME NEW i \in 1..tail + 1 PROVE logdisk'[i] = Contents(lh[i])'
      OBVIOUS
    <3>1. lh[i] \in Block /\ Contents(lh[i])' = Contents(lh[i])
      BY <1>3, <1>1, <1>5 DEF TypeOK
    <3>2. CASE i = tail + 1
      BY <3>1, <3>2, <1>1, <1>3 DEF TypeOK
    <3>3. CASE i # tail + 1
      BY <3>1, <3>3, <1>1, <1>3 DEF TypeOK
    <3> QED
      BY <3>2, <3>3
  <2>2. CommitStep(p)'
    <3>1. CASE tail + 1 = Len(lh)
      <4>1. pc'[p] = "write_head" /\ tail' = 0 /\ lh' = lh /\ lh # <<>>
        BY <3>1, <1>1, <1>2, <1>3 DEF TypeOK
      <4> QED
        BY <4>1, <2>1, <3>1 DEF CommitStep
    <3>2. CASE tail + 1 # Len(lh)
      <4>1. pc'[p] = "write_log" /\ tail' = tail + 1 /\ lh' = lh /\ tail' < Len(lh')
        BY <3>2, <1>1, <1>2, <1>3 DEF TypeOK
      <4> QED
        BY <4>1, <2>1 DEF CommitStep
    <3> QED
      BY <3>1, <3>2
  <2>3. \A q \in Proc : q # p => CommitStep(q)'
    BY <1>1, <1>2, <1>4 DEF TypeOK, CommitStep, Commits
  <2>4. \A q \in Proc : pc[q] \notin {"install", "clear"}
    BY <1>1, <1>4 DEF Commits
  <2> QED
    BY <1>1, <1>4, <2>2, <2>3, <2>4 DEF Inv, CommitInv, NoDup, Logged
<1>12. RecoverInv' /\ NoPanic'
  BY <1>1, <1>4 DEF Inv, RecoverInv, NoPanic
<1> QED
  BY <1>6, <1>8, <1>9, <1>10, <1>11, <1>12 DEF Inv


\* write_head preserves the invariant.
LEMMA write_headInv ==
  ASSUME Budget, TypeOK, Inv, NEW p \in Proc, write_head(p)
  PROVE  TypeOK' /\ Inv'
<1> USE SizesAssumption, SentinelAssumption
<1>1. /\ pc[p] = "write_head" /\ pc' = [pc EXCEPT ![p] = "install"] /\ head' = lh
      /\ UNCHANGED <<disk, logdisk, cache, dirty, owner, lh, outstanding, committing,
                     held, used, tail, boot, panicked>>
  BY DEF write_head, bufVars, logVars
<1>2. boot = "up" /\ Active = {} /\ \A q \in Proc : q # p => ~Commits(q)
  BY <1>1, SoleCommitter DEF Commits
<1>3. TypeOK'
  BY <1>1 DEF TypeOK
<1>4. Active' = Active /\ Pending' = Pending
  <2>1. Active' = Active
    BY <1>1 DEF TypeOK, Active, InOp
  <2> QED
    BY <1>1, <2>1 DEF Pending
<1>5. CountInv'
  BY <1>1, <1>4 DEF TypeOK, Inv, CountInv, Commits
<1>6. SpaceInv'
  <2>1. Len(head') <= LogBlocks
    BY <1>1, <1>2, LogLength
  <2>2. \A q \in Proc : pc'[q] # "logging"
    BY <1>1, <1>2 DEF TypeOK, Active, InOp
  <2> QED
    BY <1>1, <1>4, <2>1, <2>2 DEF Inv, SpaceInv, Limit
<1>7. BufInv'
  BY <1>1 DEF TypeOK, Inv, BufInv
<1>8. CommitInv'
  <2>1. lh \in Seq(Block) /\ lh # <<>> /\ tail = 0 /\ Len(lh) \in Nat /\ Len(lh) > 0
    BY <1>1 DEF TypeOK, Inv, CommitInv, CommitStep
  <2>2. \A i \in 1..Len(lh) : logdisk[i] = Contents(lh[i])
    BY <1>1 DEF Inv, CommitInv, CommitStep
  <2>3. dirty = Logged(lh)
    BY <1>1, <1>2 DEF Inv, CommitInv, Commits
  <2>4. CommitStep(p)'
    BY <1>1, <2>1, <2>2, <2>3 DEF TypeOK, CommitStep, Contents, Installed, Logged
  <2>5. \A q \in Proc : q # p => CommitStep(q)'
    BY <1>1, <1>2 DEF TypeOK, CommitStep, Commits
  <2>6. pc'[p] = "install"
    BY <1>1 DEF TypeOK
  <2> QED
    BY <1>1, <2>4, <2>5, <2>6 DEF Inv, CommitInv, NoDup
<1>9. RecoverInv' /\ NoPanic'
  BY <1>1, <1>2 DEF Inv, RecoverInv, NoPanic
<1> QED
  BY <1>3, <1>5, <1>6, <1>7, <1>8, <1>9 DEF Inv


\* install_trans preserves the invariant.
LEMMA install_transInv ==
  ASSUME Budget, TypeOK, Inv, NEW p \in Proc, install_trans(p)
  PROVE  TypeOK' /\ Inv'
<1> USE SizesAssumption, SentinelAssumption
<1> DEFINE b == lh[tail + 1]
<1>1. /\ pc[p] = "install"
      /\ pc' = [pc EXCEPT ![p] = IF tail + 1 = Len(lh) THEN "clear" ELSE "install"]
      /\ disk' = [disk EXCEPT ![b] = logdisk[tail + 1]]
      /\ cache' = [cache EXCEPT ![b] = logdisk[tail + 1]]
      /\ dirty' = dirty \ {b}
      /\ tail' = tail + 1
      /\ UNCHANGED <<logdisk, head, owner, lh, outstanding, committing, held, used, boot, panicked>>
  BY DEF install_trans, InstallBlock, logVars
<1>2. boot = "up" /\ Active = {} /\ \A q \in Proc : q # p => ~Commits(q)
  BY <1>1, SoleCommitter DEF Commits
<1>3. /\ head = lh /\ tail < Len(lh) /\ Installed(lh, tail) /\ NoDup(lh)
      /\ \A i \in 1..Len(lh) : logdisk[i] = Contents(lh[i])
      /\ dirty = {lh[i] : i \in tail+1..Len(lh)}
  BY <1>1 DEF Inv, CommitInv, CommitStep
<1>4. tail \in Nat /\ lh \in Seq(Block) /\ Len(lh) \in Nat /\ Len(lh) < LogBlocks
  BY <1>2, LogLength DEF TypeOK
<1>5. tail + 1 \in 1..Len(lh) /\ b \in Block /\ logdisk[tail + 1] \in Value
  <2>1. tail + 1 \in 1..Len(lh) /\ tail + 1 \in 1..LogBlocks
    BY <1>3, <1>4
  <2> QED
    BY <2>1, <1>4 DEF TypeOK
<1>6. TypeOK'
  <2>1. pc' \in [Proc -> {"idle", "begin", "sleep", "op", "have", "logging",
                          "write_log", "write_head", "install", "clear", "finish"}]
    BY <1>1 DEF TypeOK
  <2> QED
    BY <1>1, <1>4, <1>5, <2>1 DEF TypeOK
<1>7. Active' = Active /\ Pending' = Pending
  <2>1. Active' = Active
    BY <1>1 DEF TypeOK, Active, InOp
  <2> QED
    BY <1>1, <2>1 DEF Pending
<1>8. CountInv'
  BY <1>1, <1>7 DEF TypeOK, Inv, CountInv, Commits
<1>9. SpaceInv'
  <2>1. \A q \in Proc : pc'[q] # "logging"
    BY <1>1, <1>2 DEF TypeOK, Active, InOp
  <2> QED
    BY <1>1, <1>7, <2>1 DEF Inv, SpaceInv, Limit
<1>10. BufInv'
  BY <1>1, <1>5 DEF TypeOK, Inv, BufInv
<1>11. CommitInv'
  <2>1. ASSUME NEW i \in 1..Len(lh), i # tail + 1
        PROVE  lh[i] \in Block /\ lh[i] # b
    BY <2>1, <1>3, <1>4, <1>5 DEF NoDup
  <2>2. \A i \in 1..tail + 1 : disk'[lh[i]] = logdisk[i]
    <3> SUFFICES ASSUME NEW i \in 1..tail + 1 PROVE disk'[lh[i]] = logdisk[i]
      OBVIOUS
    <3>1. CASE i = tail + 1
      BY <3>1, <1>1, <1>5 DEF TypeOK
    <3>2. CASE i # tail + 1
      <4>1. i \in 1..tail /\ i \in 1..Len(lh)
        BY <3>2, <1>3, <1>4
      <4> QED
        BY <4>1, <3>2, <2>1, <1>1, <1>3 DEF TypeOK, Installed
    <3> QED
      BY <3>1, <3>2
  <2>3. \A i \in 1..Len(lh) : logdisk'[i] = Contents(lh[i])'
    <3> SUFFICES ASSUME NEW i \in 1..Len(lh) PROVE logdisk'[i] = Contents(lh[i])'
      OBVIOUS
    <3>1. CASE i = tail + 1
      BY <3>1, <1>1, <1>5 DEF TypeOK, Contents
    <3>2. CASE i # tail + 1
      BY <3>2, <2>1, <1>1, <1>3 DEF TypeOK, Contents
    <3> QED
      BY <3>1, <3>2
  <2>4. dirty' = {lh[i] : i \in tail+2..Len(lh)}
    <3>1. ASSUME NEW i \in tail+2..Len(lh) PROVE lh[i] # b /\ i \in tail+1..Len(lh)
      BY <2>1, <1>4
    <3>2. ASSUME NEW i \in tail+1..Len(lh), lh[i] # b PROVE i \in tail+2..Len(lh)
      BY <3>2, <1>4
    <3> QED
      BY <3>1, <3>2, <1>1, <1>3
  <2>5. CommitStep(p)'
    <3>1. CASE tail + 1 = Len(lh)
      <4>1. pc'[p] = "clear" /\ dirty' = {} /\ lh # <<>>
        BY <3>1, <1>1, <1>4, <2>4 DEF TypeOK
      <4> QED
        BY <3>1, <4>1, <2>2, <1>1, <1>3 DEF CommitStep, Installed
    <3>2. CASE tail + 1 # Len(lh)
      <4>1. pc'[p] = "install" /\ tail' = tail + 1 /\ tail' < Len(lh')
        BY <3>2, <1>1, <1>3, <1>4 DEF TypeOK
      <4>2. dirty' = {lh'[i] : i \in tail'+1..Len(lh')}
        <5>1. tail' + 1 = tail + 2 /\ lh' = lh
          BY <4>1, <1>1, <1>4
        <5> QED
          BY <5>1, <2>4
      <4> QED
        BY <4>1, <4>2, <2>2, <2>3, <1>1, <1>3 DEF CommitStep, Installed
    <3> QED
      BY <3>1, <3>2
  <2>6. \A q \in Proc : q # p => CommitStep(q)'
    BY <1>1, <1>2 DEF TypeOK, CommitStep, Commits
  <2>7. pc'[p] \in {"install", "clear"}
    BY <1>1 DEF TypeOK
  <2> QED
    BY <1>1, <2>5, <2>6, <2>7 DEF Inv, CommitInv, NoDup
<1>12. RecoverInv' /\ NoPanic'
  BY <1>1, <1>2 DEF Inv, RecoverInv, NoPanic
<1> QED
  BY <1>6, <1>8, <1>9, <1>10, <1>11, <1>12 DEF Inv


\* clear preserves the invariant.
LEMMA clearInv ==
  ASSUME Budget, TypeOK, Inv, NEW p \in Proc, clear(p)
  PROVE  TypeOK' /\ Inv'
<1> USE SizesAssumption, SentinelAssumption
<1>1. /\ pc[p] = "clear" /\ pc' = [pc EXCEPT ![p] = "finish"]
      /\ head' = <<>> /\ lh' = <<>> /\ tail' = 0
      /\ UNCHANGED <<disk, logdisk, cache, dirty, owner, outstanding, committing,
                     held, used, boot, panicked>>
  BY DEF clear, ClearLog, bufVars
<1>2. boot = "up" /\ Active = {} /\ Pending = {} /\ \A q \in Proc : q # p => ~Commits(q)
  BY <1>1, SoleCommitter DEF Commits
<1>3. TypeOK'
  BY <1>1 DEF TypeOK
<1>4. Active' = Active /\ Pending' = Pending
  <2>1. Active' = Active
    BY <1>1 DEF TypeOK, Active, InOp
  <2> QED
    BY <1>1, <2>1 DEF Pending
<1>5. CountInv'
  BY <1>1, <1>4 DEF TypeOK, Inv, CountInv, Commits
<1>6. SpaceInv'
  <2>1. Len(lh') + Cardinality(Pending') <= Limit
    BY <1>1, <1>2, <1>4, FS_EmptySet, LimitFits
  <2>2. \A q \in Proc : pc'[q] # "logging"
    BY <1>1, <1>2 DEF TypeOK, Active, InOp
  <2>3. Len(head') <= LogBlocks
    BY <1>1
  <2> QED
    BY <2>1, <2>2, <2>3 DEF SpaceInv, Limit
<1>7. BufInv'
  BY <1>1 DEF TypeOK, Inv, BufInv
<1>8. CommitInv'
  <2>1. dirty = {}
    BY <1>1 DEF Inv, CommitInv, CommitStep
  <2>2. CommitStep(p)'
    BY <1>1 DEF TypeOK, CommitStep
  <2>3. \A q \in Proc : q # p => CommitStep(q)'
    BY <1>1, <1>2 DEF TypeOK, CommitStep, Commits
  <2> QED
    BY <1>1, <2>1, <2>2, <2>3 DEF CommitInv, NoDup, Logged
<1>9. RecoverInv' /\ NoPanic'
  BY <1>1, <1>2 DEF Inv, RecoverInv, NoPanic
<1> QED
  BY <1>3, <1>5, <1>6, <1>7, <1>8, <1>9 DEF Inv


\* finish preserves the invariant.
LEMMA finishInv ==
  ASSUME Budget, TypeOK, Inv, NEW p \in Proc, finish(p)
  PROVE  TypeOK' /\ Inv'
<1> USE SizesAssumption, SentinelAssumption
<1>1. /\ pc[p] = "finish" /\ committing' = FALSE
      /\ UNCHANGED <<disk, logdisk, head, cache, dirty, owner, lh, outstanding,
                     held, used, tail, boot, panicked>>
  BY DEF finish, diskVars, bufVars
<1>2. boot = "up" /\ Active = {} /\ \A q \in Proc : q # p => ~Commits(q)
  BY <1>1, SoleCommitter DEF Commits
<1>3. lh = <<>>
  BY <1>1 DEF Inv, CommitInv, CommitStep
<1>4. /\ pc'[p] = "idle"
      /\ \A q \in Proc : q # p => pc'[q] = pc[q] \/ (pc[q] = "sleep" /\ pc'[q] = "begin")
      /\ pc' \in [Proc -> {"idle", "begin", "sleep", "op", "have", "logging",
                           "write_log", "write_head", "install", "clear", "finish"}]
  BY DEF finish, Woken, TypeOK
<1>5. TypeOK'
  BY <1>1, <1>4 DEF TypeOK
<1>6. Active' = Active /\ Pending' = Pending
  <2>1. Active' = Active
    BY <1>1, <1>4 DEF Active, InOp
  <2> QED
    BY <1>1, <2>1 DEF Pending
<1>7. \A q \in Proc : ~Commits(q)' /\ CommitStep(q)'
  BY <1>2, <1>4 DEF Commits, CommitStep
<1>8. CountInv'
  BY <1>1, <1>2, <1>3, <1>6, <1>7 DEF Inv, CountInv
<1>9. SpaceInv'
  <2>1. \A q \in Proc : pc'[q] # "logging"
    BY <1>2, <1>4 DEF Active, InOp
  <2> QED
    BY <1>1, <1>6, <2>1 DEF Inv, SpaceInv, Limit
<1>10. BufInv'
  <2>1. \A q \in Proc : /\ pc'[q] \in {"have", "logging"} <=> pc[q] \in {"have", "logging"}
                        /\ pc'[q] = "logging" <=> pc[q] = "logging"
    BY <1>1, <1>4
  <2> QED
    BY <1>1, <2>1 DEF Inv, BufInv
<1>11. CommitInv'
  <2>1. \A q \in Proc : pc[q] \notin {"install", "clear"}
    BY <1>1, <1>2 DEF Commits
  <2> QED
    BY <1>1, <1>2, <1>7, <2>1 DEF Inv, CommitInv, NoDup, Logged
<1>12. RecoverInv' /\ NoPanic'
  BY <1>1, <1>2 DEF Inv, RecoverInv, NoPanic
<1> QED
  BY <1>5, <1>8, <1>9, <1>10, <1>11, <1>12 DEF Inv


\* read_head preserves the invariant.
LEMMA read_headInv ==
  ASSUME Budget, TypeOK, Inv, read_head
  PROVE  TypeOK' /\ Inv'
<1>1. /\ boot = "read_head" /\ lh' = head
      /\ boot' = IF head = <<>> THEN "clear" ELSE "install"
      /\ UNCHANGED <<disk, logdisk, head, cache, dirty, owner, outstanding, committing,
                     pc, held, used, tail, panicked>>
  BY DEF read_head, diskVars, bufVars, procVars
<1>2. tail = 0 /\ dirty = {} /\ \A q \in Proc : pc[q] = "idle"
  BY <1>1 DEF Inv, RecoverInv, CountInv
<1>3. TypeOK'
  BY <1>1 DEF TypeOK
<1>4. CountInv'
  <2>1. Active' = Active
    BY <1>1 DEF Active, InOp
  <2> QED
    BY <1>1, <2>1 DEF Inv, CountInv, Commits
<1>5. SpaceInv'
  BY <1>1, <1>2 DEF Inv, SpaceInv
<1>6. BufInv'
  BY <1>1 DEF Inv, BufInv
<1>7. CommitInv'
  BY <1>1, <1>2 DEF Inv, CommitInv, CommitStep, NoDup
<1>8. RecoverInv' /\ NoPanic'
  <2>1. head # <<>> => Len(head) > 0
    BY DEF TypeOK
  <2> QED
    BY <1>1, <1>2, <2>1 DEF Inv, RecoverInv, NoPanic, Installed
<1> QED
  BY <1>3, <1>4, <1>5, <1>6, <1>7, <1>8 DEF Inv


\* recover_install preserves the invariant.
LEMMA recover_installInv ==
  ASSUME Budget, TypeOK, Inv, recover_install
  PROVE  TypeOK' /\ Inv'
<1> USE SizesAssumption, SentinelAssumption
<1> DEFINE b == lh[tail + 1]
<1>1. /\ boot = "install"
      /\ disk' = [disk EXCEPT ![b] = logdisk[tail + 1]]
      /\ cache' = [cache EXCEPT ![b] = logdisk[tail + 1]]
      /\ dirty' = dirty \ {b}
      /\ tail' = tail + 1
      /\ UNCHANGED <<logdisk, head, owner, lh, outstanding, committing, pc, held, used, panicked>>
  BY DEF recover_install, InstallBlock, logVars, procVars
<1>2. boot' = IF tail + 1 = Len(lh) THEN "clear" ELSE "install"
  BY DEF recover_install
<1>3. /\ lh = head /\ tail < Len(lh) /\ Installed(lh, tail) /\ dirty = {} /\ NoDup(lh)
      /\ \A q \in Proc : pc[q] = "idle" /\ held[q] = NoBlock
  <2>1. lh = head /\ tail < Len(lh) /\ Installed(lh, tail) /\ dirty = {}
    BY <1>1 DEF Inv, RecoverInv
  <2>2. NoDup(lh)
    BY DEF Inv, CommitInv
  <2>3. \A q \in Proc : pc[q] = "idle" /\ held[q] = NoBlock
    BY <1>1 DEF Inv, CountInv, BufInv
  <2> QED
    BY <2>1, <2>2, <2>3
<1>4. tail \in Nat /\ lh \in Seq(Block) /\ Len(lh) <= LogBlocks
  BY <1>3 DEF TypeOK, Inv, SpaceInv
<1>5. tail + 1 \in 1..Len(lh) /\ b \in Block /\ logdisk[tail + 1] \in Value
  <2>1. tail + 1 \in 1..Len(lh) /\ tail + 1 \in 1..LogBlocks
    BY <1>3, <1>4
  <2> QED
    BY <2>1, <1>4 DEF TypeOK
<1>6. TypeOK'
  BY <1>1, <1>2, <1>4, <1>5 DEF TypeOK
<1>7. CountInv'
  <2>1. Active' = Active
    BY <1>1 DEF Active, InOp
  <2> QED
    BY <1>1, <1>2, <2>1 DEF Inv, CountInv, Commits
<1>8. SpaceInv'
  BY <1>1, <1>2, <1>3 DEF Inv, SpaceInv
<1>9. BufInv'
  BY <1>1, <1>3, <1>5 DEF TypeOK, Inv, BufInv
<1>10. CommitInv'
  BY <1>1, <1>2, <1>3 DEF Inv, CommitInv, CommitStep, NoDup
<1>11. \A i \in 1..tail + 1 : disk'[lh[i]] = logdisk[i]
  <2> SUFFICES ASSUME NEW i \in 1..tail + 1 PROVE disk'[lh[i]] = logdisk[i]
    OBVIOUS
  <2>1. CASE i = tail + 1
    BY <2>1, <1>1, <1>5 DEF TypeOK
  <2>2. CASE i # tail + 1
    <3>1. i \in 1..tail /\ i \in 1..Len(lh) /\ lh[i] # b
      BY <2>2, <1>3, <1>4, <1>5 DEF NoDup
    <3> QED
      BY <3>1, <1>1, <1>3, <1>4 DEF TypeOK, Installed
  <2> QED
    BY <2>1, <2>2
<1>12. RecoverInv' /\ NoPanic'
  BY <1>1, <1>2, <1>3, <1>4, <1>11 DEF Inv, RecoverInv, NoPanic, Installed
<1> QED
  BY <1>6, <1>7, <1>8, <1>9, <1>10, <1>12 DEF Inv


\* recover_clear preserves the invariant.
LEMMA recover_clearInv ==
  ASSUME Budget, TypeOK, Inv, recover_clear
  PROVE  TypeOK' /\ Inv'
<1> USE SizesAssumption, SentinelAssumption
<1>1. /\ boot = "clear" /\ boot' = "up" /\ head' = <<>> /\ lh' = <<>> /\ tail' = 0
      /\ UNCHANGED <<disk, logdisk, cache, dirty, owner, outstanding, committing,
                     pc, held, used, panicked>>
  BY DEF recover_clear, ClearLog, bufVars, procVars
<1>2. \A q \in Proc : pc[q] = "idle"
  BY <1>1 DEF Inv, CountInv
<1>3. TypeOK'
  BY <1>1 DEF TypeOK
<1>4. Active' = Active /\ Pending' = {}
  BY <1>1, <1>2 DEF Active, InOp, Pending
<1>5. CountInv'
  BY <1>1, <1>2, <1>4 DEF Inv, CountInv, Commits
<1>6. SpaceInv'
  <2>1. Len(lh') + Cardinality(Pending') <= Limit
    BY <1>1, <1>4, FS_EmptySet, LimitFits
  <2> QED
    BY <1>1, <1>2, <2>1 DEF SpaceInv, Limit
<1>7. BufInv'
  BY <1>1 DEF Inv, BufInv
<1>8. CommitInv'
  BY <1>1, <1>2 DEF Inv, RecoverInv, CommitInv, CommitStep, NoDup, Logged
<1>9. RecoverInv' /\ NoPanic'
  BY <1>1 DEF Inv, RecoverInv, NoPanic
<1> QED
  BY <1>3, <1>5, <1>6, <1>7, <1>8, <1>9 DEF Inv


\* Crash preserves the invariant.
LEMMA CrashInv ==
  ASSUME Budget, TypeOK, Inv, Crash
  PROVE  TypeOK' /\ Inv'
<1> USE SizesAssumption, SentinelAssumption
<1>1. \A q \in Proc : pc'[q] = "idle" /\ held'[q] = NoBlock
  BY DEF Crash
<1>2. TypeOK'
  <2>1. UNCHANGED <<disk, logdisk, head>>
    BY DEF Crash, diskVars
  <2>2. /\ cache' \in [Block -> Value \cup {NotCached}]
        /\ owner' \in [Block -> Proc \cup {NoProc}]
        /\ pc' \in [Proc -> {"idle", "begin", "sleep", "op", "have", "logging",
                             "write_log", "write_head", "install", "clear", "finish"}]
        /\ held' \in [Proc -> Block \cup {NoBlock}]
        /\ used' \in [Proc -> 0..OpBlocks]
    BY DEF Crash
  <2>3. lh' = <<>> /\ outstanding' = 0 /\ tail' = 0 /\ dirty' = {} /\ boot' = "read_head"
    BY DEF Crash
  <2>4. committing' \in BOOLEAN /\ panicked' \in BOOLEAN
    BY DEF Crash
  <2> QED
    BY <2>1, <2>2, <2>3, <2>4 DEF TypeOK
<1>3. Active' = {}
  BY <1>1 DEF Active, InOp
<1>4. CountInv'
  BY <1>1, <1>3, FS_EmptySet DEF Crash, CountInv, Commits
<1>5. SpaceInv'
  BY <1>1 DEF Crash, diskVars, Inv, SpaceInv
<1>6. BufInv'
  BY <1>1 DEF Crash, BufInv
<1>7. CommitInv'
  BY <1>1 DEF Crash, diskVars, Inv, CommitInv, CommitStep, NoDup
<1>8. RecoverInv' /\ NoPanic'
  BY DEF Crash, RecoverInv, NoPanic
<1> QED
  BY <1>2, <1>4, <1>5, <1>6, <1>7, <1>8 DEF Inv


-----------------------------------------------------------------------------
(* The invariant                                                           *)

\* The boot state satisfies the invariant.
LEMMA InitInv == ASSUME Budget, Init PROVE TypeOK /\ Inv
<1> USE SizesAssumption, SentinelAssumption
<1>1. TypeOK
  <2>1. /\ cache \in [Block -> Value \cup {NotCached}]
        /\ owner \in [Block -> Proc \cup {NoProc}]
        /\ pc \in [Proc -> {"idle", "begin", "sleep", "op", "have", "logging",
                            "write_log", "write_head", "install", "clear", "finish"}]
        /\ held \in [Proc -> Block \cup {NoBlock}]
        /\ used \in [Proc -> 0..OpBlocks]
    BY DEF Init
  <2>2. head \in Seq(Block) /\ lh \in Seq(Block) /\ outstanding \in Nat /\ tail \in Nat
    BY DEF Init
  <2>3. committing \in BOOLEAN /\ panicked \in BOOLEAN
    BY DEF Init
  <2> QED
    BY <2>1, <2>2, <2>3 DEF Init, TypeOK
<1>2. Active = {} /\ \A p \in Proc : ~Commits(p)
  BY DEF Init, Active, InOp, Commits
<1>3. CountInv
  BY <1>2, FS_EmptySet DEF Init, CountInv
<1>4. SpaceInv
  BY DEF Init, SpaceInv
<1>5. BufInv
  BY DEF Init, BufInv
<1>6. CommitInv /\ RecoverInv /\ NoPanic
  BY DEF Init, CommitInv, CommitStep, NoDup, RecoverInv, NoPanic
<1> QED
  BY <1>1, <1>3, <1>4, <1>5, <1>6 DEF Inv

\* Every step preserves the invariant.
LEMMA NextInv == ASSUME Budget, TypeOK, Inv, [Next]_vars PROVE TypeOK' /\ Inv'
<1>1. CASE \E p \in Proc : call(p) \/ Step(p)
  <2> PICK p \in Proc : call(p) \/ Step(p)
    BY <1>1
  <2> QED
    BY callInv, begin_opInv, end_opInv, breadInv, brelseInv, log_write_testsInv, log_writeInv,
       write_logInv, write_headInv, install_transInv, clearInv, finishInv DEF Step, commit
<1>2. CASE \E b \in Block : bget_recycle(b)
  BY <1>2, bget_recycleInv
<1>3. CASE recover_from_log
  BY <1>3, read_headInv, recover_installInv, recover_clearInv DEF recover_from_log
<1>4. CASE Crash
  BY <1>4, CrashInv
<1>5. CASE UNCHANGED vars
  <2> USE <1>5 DEF vars, diskVars, bufVars, logVars, procVars
  <2>1. TypeOK' /\ NoPanic' /\ BufInv' /\ RecoverInv'
    BY DEF TypeOK, Inv, NoPanic, BufInv, RecoverInv, Installed
  <2>2. Active' = Active /\ Pending' = Pending
    BY DEF Active, InOp, Pending
  <2>3. CountInv' /\ SpaceInv'
    BY <2>2 DEF Inv, CountInv, Commits, SpaceInv, Limit, Logged
  <2>4. CommitInv'
    BY DEF Inv, CommitInv, CommitStep, NoDup, Logged, Contents, Installed
  <2> QED
    BY <2>1, <2>3, <2>4 DEF Inv
<1> QED
  BY <1>1, <1>2, <1>3, <1>4, <1>5 DEF Next

\* The inductive invariant of log.c: reservation, pinning, commit and recovery.
THEOREM LogInvariant == ASSUME Budget PROVE Spec => [](TypeOK /\ Inv)
<1>1. Init => TypeOK /\ Inv
  BY InitInv
<1>2. TypeOK /\ Inv /\ [Next]_vars => (TypeOK /\ Inv)'
  BY NextInv
<1> QED
  BY <1>1, <1>2, PTL DEF Spec

-----------------------------------------------------------------------------
(* What follows from it                                                    *)

\* Type correctness: no index of write_log or install_trans leaves the log area.
THEOREM LogTypeOK == ASSUME Budget PROVE Spec => []TypeOK
  BY LogInvariant, PTL

\* No call within its budget makes log_write or end_op panic.
THEOREM LogNoPanic == ASSUME Budget PROVE Spec => []NoPanic
<1>1. TypeOK /\ Inv => NoPanic
  BY DEF Inv
<1> QED
  BY <1>1, LogInvariant, PTL

\* No step takes the last waker away from a sleeping begin_op.
LEMMA SleeperStep ==
  ASSUME Budget, TypeOK, Inv, TypeOK', Inv', SleeperHasWaker, [Next]_vars
  PROVE  SleeperHasWaker'
<1> SUFFICES ASSUME NEW s \in Proc, pc'[s] = "sleep"
             PROVE  Active' # {} \/ \E q \in Proc : Commits(q)'
  BY DEF SleeperHasWaker
<1> USE SizesAssumption
<1>1. ASSUME NEW p \in Proc, begin_op(p) PROVE Active' # {} \/ \E q \in Proc : Commits(q)'
  <2>1. pc[p] = "begin" /\ boot = "up" /\ UNCHANGED <<lh, committing>>
    BY <1>1 DEF begin_op, Running
  <2>2. CASE ~MustWait
    BY <1>1, <2>2 DEF begin_op, TypeOK, Active, InOp
  <2>3. CASE MustWait
    <3>1. pc' = [pc EXCEPT ![p] = "sleep"]
      BY <1>1, <2>3 DEF begin_op
    <3>2. CASE committing
      BY <3>1, <3>2, <2>1 DEF TypeOK, Inv, CountInv, Commits
    <3>3. CASE ~committing
      <4>1. Active # {}
        <5> SUFFICES ASSUME Active = {} PROVE FALSE
          OBVIOUS
        <5>1. lh = <<>> /\ outstanding = 0
          BY <3>3, <2>1, FS_EmptySet DEF Inv, CountInv
        <5>2. Len(lh) + (outstanding + 1) * MAXOPBLOCKS = MAXOPBLOCKS
          BY <5>1
        <5> QED
          BY <5>2, <2>3, <3>3 DEF MustWait, Budget
      <4>2. Active' = Active
        BY <3>1, <2>1 DEF TypeOK, Active, InOp
      <4> QED
        BY <4>1, <4>2
    <3> QED
      BY <3>2, <3>3
  <2> QED
    BY <2>2, <2>3
<1>2. ASSUME NEW p \in Proc, end_op(p) PROVE Active' # {} \/ \E q \in Proc : Commits(q)'
  <2>1. CASE outstanding = 1
    <3>1. pc'[p] \in {"finish", "write_log"}
      BY <1>2, <2>1 DEF end_op, TypeOK
    <3> QED
      BY <3>1 DEF Commits
  <2>2. CASE outstanding # 1
    BY <1>2, <2>2 DEF end_op, Woken
  <2> QED
    BY <2>1, <2>2
<1>3. ASSUME NEW p \in Proc, finish(p) PROVE FALSE
  BY <1>3 DEF finish, Woken
<1>4. ASSUME Crash PROVE FALSE
  BY <1>4 DEF Crash
<1>5. ASSUME NEW p \in Proc,
             call(p) \/ (\E b \in Block : bread(p, b)) \/ brelse(p)
             \/ (\E v \in Value : log_write_tests(p, v)) \/ log_write(p)
             \/ write_log(p) \/ write_head(p) \/ install_trans(p) \/ clear(p)
      PROVE  Active' # {} \/ \E q \in Proc : Commits(q)'
  <2>1. pc[s] = "sleep"
    BY <1>5 DEF call, bread, brelse, log_write_tests, log_write, write_log, write_head,
                install_trans, clear, TypeOK
  <2>2. \A q \in Proc : InOp(q) => InOp(q)'
    BY <1>5 DEF call, bread, brelse, log_write_tests, log_write, write_log, write_head,
                install_trans, clear, TypeOK, InOp
  <2>3. \A q \in Proc : Commits(q) => Commits(q)'
    BY <1>5 DEF call, bread, brelse, log_write_tests, log_write, write_log, write_head,
                install_trans, clear, TypeOK, Commits
  <2> QED
    BY <2>1, <2>2, <2>3 DEF SleeperHasWaker, Active
<1>6. ASSUME UNCHANGED pc PROVE Active' # {} \/ \E q \in Proc : Commits(q)'
  BY <1>6 DEF SleeperHasWaker, Active, InOp, Commits
<1>7. ASSUME recover_from_log \/ (\E b \in Block : bget_recycle(b)) \/ UNCHANGED vars
      PROVE  UNCHANGED pc
  BY <1>7 DEF recover_from_log, read_head, recover_install, recover_clear, bget_recycle,
              vars, procVars
<1> QED
  BY <1>1, <1>2, <1>3, <1>4, <1>5, <1>6, <1>7 DEF Next, Step, commit

\* A process asleep in begin_op always has a call or a commit left to wake it.
THEOREM LogSleeperHasWaker == ASSUME Budget PROVE Spec => []SleeperHasWaker
<1>1. Init => SleeperHasWaker
  BY DEF Init, SleeperHasWaker
<1>2. TypeOK /\ Inv /\ (TypeOK /\ Inv)' /\ SleeperHasWaker /\ [Next]_vars => SleeperHasWaker'
  BY SleeperStep
<1> QED
  BY <1>1, <1>2, LogInvariant, PTL DEF Spec

\* install_trans is the only writer of home blocks and copies only committed contents.
THEOREM LogWriteAhead == ASSUME Budget PROVE Spec => WriteAhead
<1> DEFINE Ahead == \A b \in Block : disk'[b] # disk[b] =>
                       \E i \in 1..Len(head) : head[i] = b /\ logdisk[i] = disk'[b]
<1>1. ASSUME TypeOK, Inv, [Next]_vars PROVE Ahead
  <2>1. ASSUME InstallBlock, head = lh, tail < Len(lh) PROVE Ahead
    <3>1. tail + 1 \in 1..Len(head) /\ head[tail + 1] = lh[tail + 1]
      BY <1>1, <2>1 DEF TypeOK
    <3>2. \A b \in Block : disk'[b] # disk[b] => b = lh[tail + 1] /\ disk'[b] = logdisk[tail + 1]
      BY <1>1, <2>1 DEF InstallBlock, TypeOK
    <3> QED
      BY <3>1, <3>2
  <2>2. ASSUME NEW p \in Proc, install_trans(p) PROVE Ahead
    BY <1>1, <2>1, <2>2 DEF install_trans, Inv, CommitInv, CommitStep
  <2>3. ASSUME recover_install PROVE Ahead
    BY <1>1, <2>1, <2>3 DEF recover_install, Inv, RecoverInv
  <2>4. ASSUME UNCHANGED disk PROVE Ahead
    BY <2>4
  <2>5. ASSUME NEW p \in Proc, call(p) \/ Step(p), ~install_trans(p) PROVE UNCHANGED disk
    BY <2>5 DEF Step, commit, call, begin_op, end_op, bread, brelse, log_write_tests, log_write,
                write_log, write_head, clear, finish, diskVars
  <2>6. ASSUME (\E b \in Block : bget_recycle(b)) \/ read_head \/ recover_clear \/ Crash
               \/ UNCHANGED vars
        PROVE  UNCHANGED disk
    BY <2>6 DEF bget_recycle, read_head, recover_clear, Crash, vars, diskVars
  <2> HIDE DEF Ahead
  <2> QED
    BY <1>1, <2>2, <2>3, <2>4, <2>5, <2>6 DEF Next, recover_from_log
<1>2. TypeOK /\ Inv /\ [Next]_vars => [Ahead]_vars
  BY <1>1
<1> QED
  BY <1>2, LogInvariant, PTL DEF Spec, WriteAhead

-----------------------------------------------------------------------------
(* Refinement of the atomic disk                                           *)

\* A block the header names recovers to its copy in the log area.
LEMMA RecoveredLogged ==
  ASSUME NEW d, NEW ld, NEW h \in Seq(Block), NoDup(h), NEW i \in 1..Len(h)
  PROVE  RecoveredFrom(d, ld, h)[h[i]] = ld[i]
<1>1. h[i] \in Block /\ h[i] \in Logged(h)
  BY DEF Logged
<1>2. (CHOOSE j \in 1..Len(h) : h[j] = h[i]) = i
  <2> DEFINE c == CHOOSE j \in 1..Len(h) : h[j] = h[i]
  <2>1. c \in 1..Len(h) /\ h[c] = h[i]
    OBVIOUS
  <2> QED
    BY <2>1 DEF NoDup
<1> QED
  BY <1>1, <1>2 DEF RecoveredFrom

\* A block the header does not name recovers to its home contents.
LEMMA RecoveredOther ==
  ASSUME NEW d, NEW ld, NEW h, NEW b \in Block, b \notin Logged(h)
  PROVE  RecoveredFrom(d, ld, h)[b] = d[b]
  BY DEF RecoveredFrom

\* An empty header recovers nothing.
LEMMA RecoveredEmpty ==
  ASSUME NEW d \in [Block -> Value], NEW ld
  PROVE  RecoveredFrom(d, ld, <<>>) = d
  BY DEF RecoveredFrom, Logged

\* A boot state is an initial state of the atomic disk.
LEMMA RefineInit == ASSUME Budget, Init PROVE Atomic!Init
<1>1. TypeOK /\ Inv
  BY InitInv
<1>2. Recovered = disk
  BY <1>1, RecoveredEmpty DEF Init, Recovered, TypeOK
<1>3. Visible = Recovered /\ Active = {}
  BY DEF Init, Visible, Active, InOp
<1> QED
  BY <1>1, <1>2, <1>3 DEF Atomic!Init, TypeOK

\* Steps that change neither what is durable nor what is visible.
LEMMA SameView ==
  ASSUME boot = "up", boot' = "up", \A b \in Block : Contents(b)' = Contents(b)
  PROVE  Visible' = Visible
  BY DEF Visible

\* Recovery depends on the disk alone.
LEMMA SameRecovered ==
  ASSUME UNCHANGED <<disk, logdisk, head>>
  PROVE  Recovered' = Recovered
  BY DEF Recovered, RecoveredFrom

\* Writing the header makes everything visible durable.
LEMMA write_headRefines ==
  ASSUME Budget, TypeOK, Inv, NEW p \in Proc, write_head(p)
  PROVE  Recovered' = Visible /\ Visible' = Visible /\ Active = {} /\ Active' = {}
<1>1. /\ pc[p] = "write_head" /\ pc' = [pc EXCEPT ![p] = "install"] /\ head' = lh
      /\ UNCHANGED <<disk, logdisk, cache, boot>>
  BY DEF write_head, bufVars
<1>2. boot = "up" /\ Active = {} /\ \A q \in Proc : q # p => ~Commits(q)
  BY <1>1, SoleCommitter DEF Commits
<1>3. /\ lh \in Seq(Block) /\ NoDup(lh) /\ dirty = Logged(lh)
      /\ \A i \in 1..Len(lh) : logdisk[i] = Contents(lh[i])
  <2>1. \A q \in Proc : pc[q] \notin {"install", "clear"}
    BY <1>1, <1>2 DEF Commits
  <2> QED
    BY <1>1, <1>2, <2>1 DEF TypeOK, Inv, CommitInv, CommitStep
<1>4. \A b \in Block : RecoveredFrom(disk, logdisk, lh)[b] = Contents(b)
  <2> SUFFICES ASSUME NEW b \in Block PROVE RecoveredFrom(disk, logdisk, lh)[b] = Contents(b)
    OBVIOUS
  <2>1. CASE b \in Logged(lh)
    <3>1. PICK i \in 1..Len(lh) : lh[i] = b
      BY <2>1 DEF Logged
    <3> QED
      BY <3>1, <1>3, RecoveredLogged
  <2>2. CASE b \notin Logged(lh)
    <3>1. \A q \in Proc : pc[q] # "logging"
      BY <1>2 DEF Active, InOp
    <3>2. cache[b] = NotCached \/ cache[b] = disk[b]
      BY <2>2, <3>1, <1>3 DEF Inv, BufInv
    <3> QED
      BY <2>2, <3>2, RecoveredOther DEF Contents
  <2> QED
    BY <2>1, <2>2
<1>5. RecoveredFrom(disk, logdisk, lh) = [b \in Block |-> Contents(b)]
  BY <1>4 DEF RecoveredFrom
<1>6. Recovered' = Visible
  BY <1>1, <1>2, <1>5 DEF Recovered, RecoveredFrom, Visible
<1>7. Visible' = Visible
  BY <1>1, <1>2, SameView DEF Contents
<1>8. Active' = {}
  BY <1>1, <1>2 DEF TypeOK, Active, InOp
<1> QED
  BY <1>2, <1>6, <1>7, <1>8

\* Installing a block that the header names leaves what is recovered alone.
LEMMA InstallRefines ==
  ASSUME Budget, TypeOK, InstallBlock, head = lh, NoDup(lh), tail < Len(lh), Len(lh) <= LogBlocks
  PROVE  Recovered' = Recovered
<1> DEFINE b == lh[tail + 1]
<1>1. /\ disk' = [disk EXCEPT ![b] = logdisk[tail + 1]]
      /\ UNCHANGED <<logdisk, head>>
  BY DEF InstallBlock
<1>2. b \in Logged(head)
  BY DEF Logged, TypeOK
<1>3. \A c \in Block : c \notin Logged(head) => disk'[c] = disk[c]
  BY <1>1, <1>2 DEF TypeOK
<1> QED
  BY <1>1, <1>3 DEF Recovered, RecoveredFrom

\* Erasing an installed transaction leaves the home blocks it recovered to.
LEMMA ClearRefines ==
  ASSUME Budget, TypeOK, ClearLog, UNCHANGED <<disk, logdisk>>,
         head = lh, NoDup(lh), Installed(lh, Len(lh))
  PROVE  Recovered' = Recovered /\ Recovered = disk
<1>1. \A b \in Block : Recovered[b] = disk[b]
  <2> SUFFICES ASSUME NEW b \in Block PROVE Recovered[b] = disk[b]
    OBVIOUS
  <2>1. CASE b \in Logged(head)
    <3>1. PICK i \in 1..Len(head) : head[i] = b
      BY <2>1 DEF Logged
    <3>2. NoDup(head) /\ head \in Seq(Block)
      BY DEF NoDup, TypeOK
    <3>3. Recovered[b] = logdisk[i]
      BY <3>1, <3>2, RecoveredLogged DEF Recovered
    <3> QED
      BY <3>1, <3>3 DEF Installed
  <2>2. CASE b \notin Logged(head)
    BY <2>2, RecoveredOther DEF Recovered
  <2> QED
    BY <2>1, <2>2
<1>2. Recovered = disk
  BY <1>1 DEF Recovered, RecoveredFrom, TypeOK
<1>3. Recovered' = disk
  <2>1. head' = <<>> /\ disk' = disk /\ disk \in [Block -> Value]
    BY DEF ClearLog, TypeOK
  <2>2. Recovered' = [b \in Block |-> disk[b]]
    BY <2>1 DEF Recovered, RecoveredFrom, Logged
  <2> QED
    BY <2>1, <2>2
<1> QED
  BY <1>2, <1>3

\* Every step of the log is a step of the atomic disk or invisible to it.
LEMMA RefineStep ==
  ASSUME Budget, TypeOK, Inv, TypeOK', Inv', [Next]_vars
  PROVE  [Atomic!Next]_(Atomic!vars)
<1> USE SentinelAssumption
<1> DEFINE Same == Recovered' = Recovered /\ Visible' = Visible /\ Active' = Active
<1>1. ASSUME Same PROVE [Atomic!Next]_(Atomic!vars)
  BY <1>1 DEF Atomic!vars
<1> HIDE DEF Same
<1>2. ASSUME NEW p \in Proc,
             call(p) \/ (\E b \in Block : bread(p, b)) \/ brelse(p) \/ log_write(p) \/ finish(p)
      PROVE  Same
  <2>1. UNCHANGED <<disk, logdisk, head>> /\ boot = "up" /\ boot' = "up"
    BY <1>2 DEF call, bread, brelse, log_write, finish, Running, diskVars
  <2>2. \A b \in Block : Contents(b)' = Contents(b)
    BY <1>2, <2>1 DEF call, bread, brelse, log_write, finish, Contents, TypeOK, diskVars, bufVars
  <2>3. Active' = Active
    BY <1>2 DEF call, bread, brelse, log_write, finish, Woken, Active, InOp, TypeOK
  <2> QED
    BY <2>1, <2>2, <2>3, SameView, SameRecovered DEF Same
<1>3. ASSUME NEW p \in Proc, begin_op(p) PROVE [Atomic!Next]_(Atomic!vars)
  <2>1. UNCHANGED <<disk, logdisk, head, cache>> /\ boot = "up" /\ boot' = "up" /\ pc[p] = "begin"
    BY <1>3 DEF begin_op, Running, diskVars, bufVars
  <2>2. Recovered' = Recovered /\ Visible' = Visible
    BY <2>1, SameView, SameRecovered DEF Contents
  <2>3. CASE MustWait
    <3>1. Active' = Active
      BY <1>3, <2>1, <2>3 DEF begin_op, Active, InOp, TypeOK
    <3> QED
      BY <2>2, <3>1, <1>1 DEF Same
  <2>4. CASE ~MustWait
    <3>1. Active' = Active \cup {p} /\ p \notin Active
      BY <1>3, <2>1, <2>4 DEF begin_op, Active, InOp, TypeOK
    <3> QED
      BY <2>2, <3>1 DEF Atomic!Next, Atomic!Begin
  <2> QED
    BY <2>3, <2>4
<1>4. ASSUME NEW p \in Proc, end_op(p) PROVE [Atomic!Next]_(Atomic!vars)
  <2>1. UNCHANGED <<disk, logdisk, head, cache>> /\ boot = "up" /\ boot' = "up" /\ pc[p] = "op"
    BY <1>4 DEF end_op, Running, diskVars, bufVars
  <2>2. Recovered' = Recovered /\ Visible' = Visible
    BY <2>1, SameView, SameRecovered DEF Contents
  <2>3. p \in Active /\ Active' = Active \ {p}
    BY <1>4, <2>1 DEF end_op, Woken, Active, InOp, TypeOK
  <2> QED
    BY <2>2, <2>3 DEF Atomic!Next, Atomic!End
<1>5. ASSUME NEW p \in Proc, NEW v \in Value, log_write_tests(p, v)
      PROVE  [Atomic!Next]_(Atomic!vars)
  <2>1. /\ UNCHANGED <<disk, logdisk, head>> /\ boot = "up" /\ boot' = "up"
        /\ pc[p] = "have" /\ pc' = [pc EXCEPT ![p] = "logging"]
        /\ cache' = [cache EXCEPT ![held[p]] = v]
    BY <1>5 DEF log_write_tests, Running, diskVars
  <2>2. held[p] \in Block /\ p \in Active /\ Active' = Active
    BY <2>1 DEF TypeOK, Inv, BufInv, Active, InOp
  <2>3. Visible' = [Visible EXCEPT ![held[p]] = v]
    <3>1. \A b \in Block : Contents(b)' = IF b = held[p] THEN v ELSE Contents(b)
      BY <2>1, <2>2 DEF Contents, TypeOK
    <3> QED
      BY <2>1, <2>2, <3>1 DEF Visible
  <2>4. Recovered' = Recovered
    BY <2>1, SameRecovered
  <2> QED
    BY <2>2, <2>3, <2>4 DEF Atomic!Next, Atomic!Write
<1>6. ASSUME NEW b \in Block, bget_recycle(b) PROVE Same
  <2>1. /\ UNCHANGED <<disk, logdisk, head, pc>> /\ boot = "up" /\ boot' = "up"
        /\ cache[b] # NotCached /\ owner[b] = NoProc /\ b \notin dirty
        /\ cache' = [cache EXCEPT ![b] = NotCached]
    BY <1>6 DEF bget_recycle, Running, diskVars, procVars
  <2>2. cache[b] = disk[b]
    BY <2>1 DEF Inv, BufInv
  <2>3. \A c \in Block : Contents(c)' = Contents(c)
    BY <2>1, <2>2 DEF Contents, TypeOK
  <2>4. Active' = Active
    BY <2>1 DEF Active, InOp
  <2> QED
    BY <2>1, <2>3, <2>4, SameView, SameRecovered DEF Same
<1>7. ASSUME NEW p \in Proc, write_log(p) PROVE Same
  <2>1. /\ UNCHANGED <<disk, head>> /\ boot = "up" /\ boot' = "up" /\ pc[p] = "write_log"
        /\ cache' = [cache EXCEPT ![lh[tail + 1]] = Contents(lh[tail + 1])]
        /\ pc' = pc \/ pc' = [pc EXCEPT ![p] = "write_head"]
    BY <1>7 DEF write_log, Running
  <2>2. Active' = Active
    BY <2>1 DEF Active, InOp, TypeOK
  <2>3. head = <<>>
    BY <2>1, SoleCommitter DEF Inv, CommitInv, Commits
  <2>4. Recovered' = Recovered
    BY <2>1, <2>3, RecoveredEmpty DEF Recovered, TypeOK
  <2>5. \A b \in Block : Contents(b)' = Contents(b)
    BY <2>1 DEF Contents, TypeOK
  <2> QED
    BY <2>1, <2>2, <2>4, <2>5, SameView DEF Same
<1>8. ASSUME NEW p \in Proc, write_head(p) PROVE [Atomic!Next]_(Atomic!vars)
  BY <1>8, write_headRefines DEF Atomic!Next, Atomic!Commit
<1>9. ASSUME NEW p \in Proc, install_trans(p) PROVE Same
  <2>1. /\ boot = "up" /\ boot' = "up" /\ pc[p] = "install" /\ InstallBlock
        /\ pc' = [pc EXCEPT ![p] = IF tail + 1 = Len(lh) THEN "clear" ELSE "install"]
    BY <1>9 DEF install_trans, Running
  <2>2. /\ head = lh /\ NoDup(lh) /\ tail < Len(lh) /\ Len(lh) <= LogBlocks
        /\ \A i \in 1..Len(lh) : logdisk[i] = Contents(lh[i])
    <3>1. /\ head = lh /\ NoDup(lh) /\ tail < Len(lh)
          /\ \A i \in 1..Len(lh) : logdisk[i] = Contents(lh[i])
      BY <2>1 DEF Inv, CommitInv, CommitStep
    <3>2. Len(head) <= LogBlocks
      BY DEF Inv, SpaceInv
    <3> QED
      BY <3>1, <3>2
  <2>3. Recovered' = Recovered
    BY <2>1, <2>2, InstallRefines
  <2>4. \A b \in Block : Contents(b)' = Contents(b)
    <3>1. tail + 1 \in 1..Len(lh) /\ tail + 1 \in 1..LogBlocks /\ lh[tail + 1] \in Block
      BY <2>2, SizesAssumption DEF TypeOK
    <3>2. logdisk[tail + 1] \in Value /\ logdisk[tail + 1] = Contents(lh[tail + 1])
      BY <3>1, <2>2 DEF TypeOK
    <3> QED
      BY <2>1, <3>1, <3>2 DEF InstallBlock, Contents, TypeOK
  <2>5. Active' = Active
    BY <2>1 DEF Active, InOp, TypeOK
  <2> QED
    BY <2>1, <2>3, <2>4, <2>5, SameView DEF Same
<1>10. ASSUME NEW p \in Proc, clear(p) PROVE Same
  <2>1. /\ boot = "up" /\ boot' = "up" /\ pc[p] = "clear" /\ ClearLog
        /\ UNCHANGED <<disk, logdisk, cache>>
        /\ pc' = [pc EXCEPT ![p] = "finish"]
    BY <1>10 DEF clear, Running, bufVars
  <2>2. head = lh /\ NoDup(lh) /\ Installed(lh, Len(lh))
    BY <2>1 DEF Inv, CommitInv, CommitStep
  <2>3. Recovered' = Recovered
    BY <2>1, <2>2, ClearRefines
  <2>4. Active' = Active /\ \A b \in Block : Contents(b)' = Contents(b)
    BY <2>1 DEF Active, InOp, TypeOK, Contents
  <2> QED
    BY <2>1, <2>3, <2>4, SameView DEF Same
<1>11. ASSUME read_head \/ recover_install PROVE Same
  <2>1. boot # "up" /\ boot' # "up" /\ UNCHANGED pc
    BY <1>11 DEF read_head, recover_install, procVars
  <2>2. Recovered' = Recovered
    <3>1. CASE read_head
      BY <3>1, SameRecovered DEF read_head, diskVars
    <3>2. CASE recover_install
      <4>1. /\ boot = "install" /\ InstallBlock /\ head = lh /\ NoDup(lh) /\ tail < Len(lh)
            /\ Len(lh) <= LogBlocks
        BY <3>2 DEF recover_install, Inv, RecoverInv, CommitInv, SpaceInv
      <4> QED
        BY <4>1, InstallRefines
    <3> QED
      BY <1>11, <3>1, <3>2
  <2>3. Active' = Active
    BY <2>1 DEF Active, InOp
  <2> QED
    BY <2>1, <2>2, <2>3 DEF Same, Visible
<1>12. ASSUME recover_clear PROVE Same
  <2>1. /\ boot = "clear" /\ boot' = "up" /\ UNCHANGED <<pc, disk, logdisk, cache>> /\ ClearLog
    BY <1>12 DEF recover_clear, procVars, bufVars
  <2>2. head = lh /\ NoDup(lh) /\ Installed(lh, Len(lh)) /\ dirty = {}
    BY <2>1 DEF Inv, RecoverInv, CommitInv
  <2>3. Recovered' = Recovered /\ Recovered = disk
    BY <2>1, <2>2, ClearRefines
  <2>4. \A b \in Block : Contents(b)' = disk[b]
    <3>1. \A q \in Proc : pc[q] = "idle"
      BY <2>1 DEF Inv, CountInv
    <3>2. \A b \in Block : cache[b] = NotCached \/ cache[b] = disk[b]
      BY <2>2, <3>1 DEF Inv, BufInv
    <3> QED
      BY <2>1, <3>2 DEF Contents
  <2>5. Visible' = disk
    BY <2>1, <2>4 DEF Visible, TypeOK
  <2>6. Visible = Recovered /\ Active' = Active
    BY <2>1 DEF Visible, Active, InOp
  <2> QED
    BY <2>3, <2>5, <2>6 DEF Same
<1>13. ASSUME Crash PROVE [Atomic!Next]_(Atomic!vars)
  <2>1. UNCHANGED <<disk, logdisk, head>> /\ boot' = "read_head"
    BY <1>13 DEF Crash, diskVars
  <2>2. Recovered' = Recovered /\ Visible' = Recovered'
    BY <2>1, SameRecovered DEF Visible
  <2>3. Active' = {}
    BY <1>13 DEF Crash, Active, InOp
  <2> QED
    BY <2>2, <2>3 DEF Atomic!Next, Atomic!Crash
<1>14. ASSUME UNCHANGED vars PROVE Same
  BY <1>14 DEF vars, diskVars, bufVars, procVars, Same, Recovered, RecoveredFrom, Visible,
               Contents, Active, InOp
<1>15. ASSUME NEW p \in Proc, call(p) \/ Step(p) PROVE [Atomic!Next]_(Atomic!vars)
  BY <1>15, <1>1, <1>2, <1>3, <1>4, <1>5, <1>7, <1>8, <1>9, <1>10 DEF Step, commit
<1> QED
  BY <1>1, <1>6, <1>11, <1>12, <1>13, <1>14, <1>15 DEF Next, recover_from_log

\* log.c with bio.c implements AtomicDisk: system calls are atomic with respect to crashes.
THEOREM LogImplementsAtomicDisk == ASSUME Budget PROVE Spec => ImplementsAtomicDisk
<1>1. Init => Atomic!Init
  BY RefineInit
<1>2. TypeOK /\ Inv /\ (TypeOK /\ Inv)' /\ [Next]_vars => [Atomic!Next]_(Atomic!vars)
  BY RefineStep
<1> QED
  BY <1>1, <1>2, LogInvariant, PTL DEF Spec, ImplementsAtomicDisk, Atomic!Spec

=============================================================================
