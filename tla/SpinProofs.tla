----------------------------- MODULE SpinProofs -----------------------------
(***************************************************************************)
(* Proofs about spin-locks, interrupt masking and the switch between       *)
(* kernel threads.  Every stack a thread can have holds what is left of a  *)
(* handful of codes; the locks that the rest of a code gives up before it  *)
(* takes them are the ones its processor holds, and as many as `ncli'.     *)
(***************************************************************************)
EXTENDS Spin, SequenceTheorems, FiniteSetTheorems, WellFoundedInduction, TLAPS

-----------------------------------------------------------------------------
(* Codes                                                                   *)

\* The steps of kernel code, each a tuple of its name and its argument.
Instr == ({"eflags", "cli", "xchg", "release", "wakeup1"} \X Locks)
         \cup ({"sched"} \X {"SLEEPING", "RUNNABLE"}) \cup ({"pick"} \X Nat)
         \cup {<<"while locked">>, <<"locked = 0">>, <<"sti">>, <<"if myproc yield">>}

Code == Seq(Instr)

\* Step `op' gives lock l up; the scheduler's pick hands ptable.lock over or goes on to release it.
Gives(op, l) == op = <<"release", l>> \/ (op[1] = "pick" /\ l = "ptable")

\* The locks that code gives up before it takes them: those it is run with.
Holds(code, l) == \E i \in 1..Len(code) : /\ Gives(code[i], l)
                                          /\ \A j \in 1..(i - 1) : code[j] # <<"xchg", l>>
HeldBy(code) == {l \in Locks : Holds(code, l)}

At(code, name) == code # <<>> /\ code[1][1] = name

\* How deep pushcli() is nested: once for each lock held, and once for the one about to be taken.
Depth(code) == Cardinality(HeldBy(code)) + (IF At(code, "xchg") THEN 1 ELSE 0)

\* What is left of a code from its i-th step on, and everything that can be left of it.
Suffix(code, i) == SubSeq(code, i, Len(code))
Left(code) == {Suffix(code, i) : i \in 1..(Len(code) + 1)}

\* What is left when an acquire() has read eflags and not yet executed cli.
Begun(code) == {<<<<"cli", code[i][2]>>>> \o Suffix(code, i + 1) :
                  i \in {j \in 1..Len(code) : code[j][1] = "eflags"}}

\* acquiresleep() from its sleep() on, then releasesleep(); a timer handler; the scheduler's
\* loop from the end of its pass over the table.
SleepCode == sleep("slk") \o <<<<"while locked">>>> \o (release("slk") \o releasesleep)
TimerCode == timer(1)
RoundCode == release("ptable") \o scheduler

\* What a process in a system call or in forkret, a handler and a scheduler can have left.
CallCodes == Left(SleepCode) \cup Begun(SleepCode) \cup Left(sys_uptime) \cup Begun(sys_uptime) \cup Left(forkret)
HandlerCodes == Left(TimerCode) \cup Left(yield)
LoopCodes == ((Left(RoundCode) \cup Begun(RoundCode)) \ {<<>>}) \cup {<<<<"pick", n>>>> : n \in Nat}
Codes == CallCodes \cup HandlerCodes \cup LoopCodes

-----------------------------------------------------------------------------
(* Sequences of steps                                                      *)

\* Two pieces of code one after the other.
LEMMA Cat ==
  ASSUME NEW s \in Code, NEW t \in Code
  PROVE  /\ s \o t \in Code /\ Len(s \o t) = Len(s) + Len(t)
         /\ \A i \in 1..(Len(s) + Len(t)) : (s \o t)[i] = IF i <= Len(s) THEN s[i] ELSE t[i - Len(s)]
BY ConcatProperties DEF Code

\* Lengths and steps of a code.
LEMMA CodeFacts ==
  ASSUME NEW k \in Code
  PROVE  /\ Len(k) \in Nat /\ (k = <<>> <=> Len(k) = 0)
         /\ \A i \in 1..Len(k) : k[i] \in Instr
         /\ k # <<>> => /\ Tail(k) \in Code /\ Len(Tail(k)) = Len(k) - 1
                        /\ \A i \in 1..Len(Tail(k)) : Tail(k)[i] = k[i + 1]
BY EmptySeq, LenProperties, ElementOfSeq, HeadTailProperties DEF Code

\* A step put before a code.
LEMMA Cons ==
  ASSUME NEW op \in Instr, NEW r \in Code
  PROVE  /\ <<op>> \o r \in Code /\ <<op>> \o r # <<>> /\ Len(<<op>> \o r) = Len(r) + 1
         /\ (<<op>> \o r)[1] = op /\ Tail(<<op>> \o r) = r
<1>1. <<op>> \in Code /\ Len(<<op>>) = 1 /\ <<op>>[1] = op
  BY DEF Code
<1> DEFINE k == <<op>> \o r
<1>2. k \in Code /\ Len(k) = 1 + Len(r)
  BY <1>1, Cat
<1>3. \A i \in 1..(1 + Len(r)) : k[i] = IF i <= 1 THEN op ELSE r[i - 1]
  BY <1>1, Cat
<1>4. Len(r) \in Nat
  BY CodeFacts
<1> HIDE DEF k
<1>5. k # <<>> /\ k[1] = op /\ Len(k) = Len(r) + 1
  BY <1>2, <1>3, <1>4, CodeFacts
<1>6. /\ Tail(k) \in Code /\ Len(Tail(k)) = Len(r)
      /\ \A i \in 1..Len(r) : Tail(k)[i] = r[i]
  BY <1>2, <1>3, <1>4, <1>5, CodeFacts
<1>7. Tail(k) = r
  BY <1>6, SeqEqual DEF Code
<1> QED
  BY <1>2, <1>5, <1>7 DEF k

\* What is left of a code: its first step is the i-th, its tail what is left one step later.
LEMMA SuffixFacts ==
  ASSUME NEW C \in Code, NEW i \in 1..(Len(C) + 1)
  PROVE  /\ Suffix(C, i) \in Code /\ Len(Suffix(C, i)) = Len(C) + 1 - i
         /\ \A j \in 1..(Len(C) + 1 - i) : Suffix(C, i)[j] = C[i + j - 1]
         /\ Suffix(C, i) = <<>> <=> i = Len(C) + 1
         /\ i <= Len(C) => Suffix(C, i)[1] = C[i] /\ Tail(Suffix(C, i)) = Suffix(C, i + 1)
<1>1. Len(C) \in Nat /\ \A j \in i..Len(C) : C[j] \in Instr
  BY CodeFacts
<1>2. /\ Suffix(C, i) \in Code
      /\ Len(Suffix(C, i)) = IF i <= Len(C) THEN Len(C) - i + 1 ELSE 0
      /\ \A j \in 1..(Len(C) - i + 1) : Suffix(C, i)[j] = C[i + j - 1]
  BY <1>1, SubSeqProperties DEF Suffix, Code
<1>3. /\ Len(Suffix(C, i)) = Len(C) + 1 - i
      /\ \A j \in 1..(Len(C) + 1 - i) : Suffix(C, i)[j] = C[i + j - 1]
  BY <1>1, <1>2
<1>4. Suffix(C, i) = <<>> <=> i = Len(C) + 1
  BY <1>1, <1>2, <1>3, CodeFacts
<1>5. ASSUME i <= Len(C)
      PROVE  Suffix(C, i)[1] = C[i] /\ Tail(Suffix(C, i)) = Suffix(C, i + 1)
  <2>1. i \in 1..Len(C) /\ Len(C) \in i..Len(C)
    BY <1>1, <1>5
  <2>2. Tail(SubSeq(C, i, Len(C))) = SubSeq(C, i + 1, Len(C))
    BY <2>1, HeadTailOfSubSeq DEF Code
  <2>3. Tail(Suffix(C, i)) = Suffix(C, i + 1)
    BY <2>2 DEF Suffix
  <2>4. 1 \in 1..(Len(C) + 1 - i) /\ i + 1 - 1 = i
    BY <1>1, <1>5
  <2> QED
    BY <1>3, <2>3, <2>4
<1> QED
  BY <1>2, <1>3, <1>4, <1>5

\* The locks of a code from those of its tail.
LEMMA HoldsStep ==
  ASSUME NEW k \in Code, k # <<>>, NEW l
  PROVE  Holds(k, l) <=> Gives(k[1], l) \/ (k[1] # <<"xchg", l>> /\ Holds(Tail(k), l))
<1>1. /\ Len(k) \in Nat /\ Len(k) # 0 /\ Len(Tail(k)) = Len(k) - 1
      /\ \A i \in 1..Len(Tail(k)) : Tail(k)[i] = k[i + 1]
  BY CodeFacts
<1>2. ASSUME Gives(k[1], l)
      PROVE  Holds(k, l)
  BY <1>1, <1>2 DEF Holds
<1>3. ASSUME k[1] # <<"xchg", l>>, Holds(Tail(k), l)
      PROVE  Holds(k, l)
  <2>1. PICK i \in 1..Len(Tail(k)) : /\ Gives(Tail(k)[i], l)
                                     /\ \A j \in 1..(i - 1) : Tail(k)[j] # <<"xchg", l>>
    BY <1>3 DEF Holds
  <2>2. i + 1 \in 1..Len(k) /\ Gives(k[i + 1], l)
    BY <1>1, <2>1
  <2>3. ASSUME NEW j \in 1..i
        PROVE  k[j] # <<"xchg", l>>
    <3>1. CASE j = 1
      BY <1>3, <3>1
    <3>2. CASE j # 1
      <4>1. j - 1 \in 1..(i - 1) /\ j - 1 \in 1..Len(Tail(k)) /\ (j - 1) + 1 = j
        BY <1>1, <2>1, <3>2
      <4> QED
        BY <1>1, <2>1, <4>1
    <3> QED
      BY <3>1, <3>2
  <2>4. (i + 1) - 1 = i
    OBVIOUS
  <2> QED
    BY <2>2, <2>3, <2>4 DEF Holds
<1>4. ASSUME Holds(k, l), ~Gives(k[1], l)
      PROVE  k[1] # <<"xchg", l>> /\ Holds(Tail(k), l)
  <2>1. PICK i \in 1..Len(k) : /\ Gives(k[i], l)
                               /\ \A j \in 1..(i - 1) : k[j] # <<"xchg", l>>
    BY <1>4 DEF Holds
  <2>2. i # 1 /\ 1 \in 1..(i - 1) /\ i - 1 \in 1..Len(Tail(k)) /\ (i - 1) + 1 = i
    BY <1>1, <1>4, <2>1
  <2>3. Gives(Tail(k)[i - 1], l)
    BY <1>1, <2>1, <2>2
  <2>4. ASSUME NEW j \in 1..((i - 1) - 1)
        PROVE  Tail(k)[j] # <<"xchg", l>>
    <3>1. j \in 1..Len(Tail(k)) /\ j + 1 \in 1..(i - 1)
      BY <1>1, <2>1, <2>2
    <3> QED
      BY <1>1, <2>1, <3>1
  <2> QED
    BY <2>1, <2>2, <2>3, <2>4 DEF Holds
<1> QED
  BY <1>2, <1>3, <1>4

\* What each step does to the locks of a code.
LEMMA HeldStep ==
  ASSUME NEW k \in Code, k # <<>>
  PROVE  /\ \A l \in Locks : k[1] = <<"release", l>> => HeldBy(k) = HeldBy(Tail(k)) \cup {l}
         /\ \A l \in Locks : k[1] = <<"xchg", l>> => HeldBy(k) = HeldBy(Tail(k)) \ {l}
         /\ k[1][1] = "pick" => HeldBy(k) = HeldBy(Tail(k)) \cup {"ptable"}
         /\ k[1][1] \notin {"release", "xchg", "pick"} => HeldBy(k) = HeldBy(Tail(k))
<1>1. \A l \in Locks : l \in HeldBy(k) <=> Gives(k[1], l) \/ (k[1] # <<"xchg", l>> /\ l \in HeldBy(Tail(k)))
  BY HoldsStep DEF HeldBy
<1>2. HeldBy(k) \subseteq Locks /\ HeldBy(Tail(k)) \subseteq Locks
  BY DEF HeldBy
<1>3. ASSUME NEW l \in Locks, k[1] = <<"release", l>>
      PROVE  HeldBy(k) = HeldBy(Tail(k)) \cup {l}
  BY <1>1, <1>2, <1>3 DEF Gives
<1>4. ASSUME NEW l \in Locks, k[1] = <<"xchg", l>>
      PROVE  HeldBy(k) = HeldBy(Tail(k)) \ {l}
  BY <1>1, <1>2, <1>4 DEF Gives
<1>5. ASSUME k[1][1] = "pick"
      PROVE  HeldBy(k) = HeldBy(Tail(k)) \cup {"ptable"}
  <2>1. "ptable" \in Locks
    BY DEF Locks
  <2>2. \A l \in Locks : (Gives(k[1], l) <=> l = "ptable") /\ k[1] # <<"xchg", l>>
    BY <1>5 DEF Gives
  <2> QED
    BY <1>1, <1>2, <2>1, <2>2
<1>6. ASSUME k[1][1] \notin {"release", "xchg", "pick"}
      PROVE  HeldBy(k) = HeldBy(Tail(k))
  <2>1. \A l \in Locks : ~Gives(k[1], l) /\ k[1] # <<"xchg", l>>
    BY <1>6 DEF Gives
  <2> QED
    BY <1>1, <1>2, <2>1
<1> QED
  BY <1>3, <1>4, <1>5, <1>6

\* Nothing left, nothing held.
LEMMA EmptyHolds == <<>> \in Code /\ HeldBy(<<>>) = {} /\ Depth(<<>>) = 0
<1>1. <<>> \in Code /\ Len(<<>>) = 0
  BY DEF Code
<1>2. HeldBy(<<>>) = {}
  BY <1>1 DEF HeldBy, Holds
<1>3. Cardinality({}) = 0
  BY FS_EmptySet
<1> QED
  BY <1>1, <1>2, <1>3 DEF Depth, At

-----------------------------------------------------------------------------
(* What a code promises                                                    *)

\* A code keeps its word: a lock is taken by one that gives it up later and given up by one
\* that does not, with cli before every xchg; sched() is run, and come back from, with
\* ptable.lock alone; and a scheduler that picks has no more to say.
Good(k) ==
    k # <<>> =>
      /\ k[1][1] \in {"eflags", "cli"} => Tail(k) # <<>> /\ Tail(k)[1] = <<"xchg", k[1][2]>>
      /\ k[1][1] \notin {"eflags", "cli"} => ~At(Tail(k), "xchg")
      /\ k[1][1] = "xchg" => k[1][2] \in HeldBy(Tail(k))
      /\ k[1][1] = "release" => k[1][2] \notin HeldBy(Tail(k))
      /\ k[1][1] = "sched" => HeldBy(k) = {"ptable"} /\ Tail(k) # <<>> /\ Tail(k)[1] = <<"release", "ptable">>
      /\ k[1][1] = "pick" => Tail(k) = <<>>

\* The code and all that can be left of it keep their word.
Fine(code) == code \in Code /\ ~At(code, "xchg") /\ \A k \in Left(code) : Good(k)

\* The kinds of steps.
LEMMA InstrFacts ==
  ASSUME NEW op \in Instr
  PROVE  /\ op[1] \in {"eflags", "cli", "xchg", "release", "wakeup1"} => op[2] \in Locks /\ op = <<op[1], op[2]>>
         /\ op[1] = "sched" => op[2] \in {"SLEEPING", "RUNNABLE"}
         /\ op[1] = "pick" => op[2] \in Nat
<1>1. CASE op \in {"eflags", "cli", "xchg", "release", "wakeup1"} \X Locks
  BY <1>1
<1>2. CASE op \in {"sched"} \X {"SLEEPING", "RUNNABLE"}
  BY <1>2
<1>3. CASE op \in {"pick"} \X Nat
  BY <1>3
<1>4. CASE op \in {<<"while locked">>, <<"locked = 0">>, <<"sti">>, <<"if myproc yield">>}
  <2>1. op[1] \in {"while locked", "locked = 0", "sti", "if myproc yield"}
    <3>1. CASE op = <<"while locked">>
      BY <3>1
    <3>2. CASE op = <<"locked = 0">>
      BY <3>2
    <3>3. CASE op = <<"sti">>
      BY <3>3
    <3>4. CASE op = <<"if myproc yield">>
      BY <3>4
    <3> QED
      BY <1>4, <3>1, <3>2, <3>3, <3>4
  <2> QED
    BY <2>1
<1> QED
  BY <1>1, <1>2, <1>3, <1>4 DEF Instr

\* The steps there are.
LEMMA SomeInstr ==
  /\ \A l \in Locks : /\ <<"eflags", l>> \in Instr /\ <<"cli", l>> \in Instr /\ <<"xchg", l>> \in Instr
                      /\ <<"release", l>> \in Instr /\ <<"wakeup1", l>> \in Instr
  /\ <<"sched", "SLEEPING">> \in Instr /\ <<"sched", "RUNNABLE">> \in Instr
  /\ \A n \in Nat : <<"pick", n>> \in Instr
  /\ {<<"while locked">>, <<"locked = 0">>, <<"sti">>, <<"if myproc yield">>} \subseteq Instr
BY DEF Instr

\* The locks by name.
LEMMA LockNames == "ptable" \in Locks /\ "ticks" \in Locks /\ "slk" \in Locks
BY DEF Locks

\* What can be left of a code with one more step.
LEMMA LeftCons ==
  ASSUME NEW op \in Instr, NEW r \in Code
  PROVE  Left(<<op>> \o r) = {<<op>> \o r} \cup Left(r)
<1> DEFINE k == <<op>> \o r
<1>1. /\ k \in Code /\ k # <<>> /\ Len(k) = Len(r) + 1 /\ Tail(k) = r /\ Len(r) \in Nat
      /\ \A i \in 1..Len(r) : r[i] = k[i + 1]
  BY Cons, CodeFacts
<1> HIDE DEF k
<1>2. Suffix(k, 1) = k
  BY <1>1, SubSeqFull DEF Suffix, Code
<1>3. ASSUME NEW i \in 1..(Len(r) + 1)
      PROVE  Suffix(k, i + 1) = Suffix(r, i)
  <2>1. i + 1 \in 1..(Len(k) + 1)
    BY <1>1
  <2>2. /\ Suffix(k, i + 1) \in Code /\ Len(Suffix(k, i + 1)) = Len(k) + 1 - (i + 1)
        /\ \A j \in 1..(Len(k) + 1 - (i + 1)) : Suffix(k, i + 1)[j] = k[(i + 1) + j - 1]
    BY <1>1, <2>1, SuffixFacts
  <2>3. /\ Suffix(r, i) \in Code /\ Len(Suffix(r, i)) = Len(r) + 1 - i
        /\ \A j \in 1..(Len(r) + 1 - i) : Suffix(r, i)[j] = r[i + j - 1]
    BY SuffixFacts
  <2>4. Len(k) + 1 - (i + 1) = Len(r) + 1 - i
    BY <1>1
  <2>5. ASSUME NEW j \in 1..(Len(r) + 1 - i)
        PROVE  Suffix(k, i + 1)[j] = Suffix(r, i)[j]
    <3>1. i + j - 1 \in 1..Len(r) /\ (i + j - 1) + 1 = (i + 1) + j - 1
      BY <1>1
    <3> QED
      BY <1>1, <2>2, <2>3, <2>4, <3>1
  <2> QED
    BY <2>2, <2>3, <2>4, <2>5, SeqEqual DEF Code
<1>4. ASSUME NEW x \in Left(k)
      PROVE  x \in {k} \cup Left(r)
  <2>1. PICK i \in 1..(Len(k) + 1) : x = Suffix(k, i)
    BY DEF Left
  <2>2. CASE i = 1
    BY <1>2, <2>1, <2>2
  <2>3. CASE i # 1
    <3>1. i - 1 \in 1..(Len(r) + 1) /\ (i - 1) + 1 = i
      BY <1>1, <2>1, <2>3
    <3>2. x = Suffix(r, i - 1)
      BY <1>3, <2>1, <3>1
    <3> QED
      BY <3>1, <3>2 DEF Left
  <2> QED
    BY <2>2, <2>3
<1>5. ASSUME NEW x \in Left(r)
      PROVE  x \in Left(k)
  <2>1. PICK i \in 1..(Len(r) + 1) : x = Suffix(r, i)
    BY DEF Left
  <2>2. x = Suffix(k, i + 1) /\ i + 1 \in 1..(Len(k) + 1)
    BY <1>1, <1>3, <2>1
  <2> QED
    BY <2>2 DEF Left
<1>6. k \in Left(k)
  <2>1. 1 \in 1..(Len(k) + 1)
    BY <1>1
  <2> QED
    BY <1>2, <2>1 DEF Left
<1>7. Left(k) = {k} \cup Left(r)
  BY <1>4, <1>5, <1>6
<1> QED
  BY <1>7 DEF k

\* Nothing is left of nothing.
LEMMA EmptyFine == Fine(<<>>) /\ Left(<<>>) = {<<>>}
<1>1. <<>> \in Code /\ Len(<<>>) = 0
  BY DEF Code
<1>2. Suffix(<<>>, 1) = <<>>
  BY <1>1, SuffixFacts
<1>3. Left(<<>>) = {<<>>}
  BY <1>1, <1>2 DEF Left
<1> QED
  BY <1>1, <1>3 DEF Fine, Good, At

\* One more step in front: the code is fine if the step keeps its word.
LEMMA FineCons ==
  ASSUME NEW op \in Instr, NEW r, Fine(r), Good(<<op>> \o r), op[1] # "xchg"
  PROVE  Fine(<<op>> \o r)
<1>1. r \in Code
  BY DEF Fine
<1>2. <<op>> \o r \in Code /\ (<<op>> \o r)[1] = op
  BY <1>1, Cons
<1>3. ~At(<<op>> \o r, "xchg")
  BY <1>2 DEF At
<1>4. \A k \in Left(<<op>> \o r) : Good(k)
  BY <1>1, LeftCons DEF Fine
<1> QED
  BY <1>2, <1>3, <1>4 DEF Fine

\* release() in front of code that does not give the lock up again.
LEMMA ReleaseFine ==
  ASSUME NEW r, Fine(r), NEW l \in Locks, l \notin HeldBy(r)
  PROVE  Fine(release(l) \o r) /\ HeldBy(release(l) \o r) = HeldBy(r) \cup {l}
<1> DEFINE op == <<"release", l>>
           k == <<op>> \o r
<1>1. r \in Code /\ ~At(r, "xchg") /\ op \in Instr /\ op[1] = "release" /\ op[2] = l
  BY SomeInstr DEF Fine
<1>2. k \in Code /\ k # <<>> /\ k[1] = op /\ Tail(k) = r
  BY <1>1, Cons
<1> HIDE DEF k
<1>3. HeldBy(k) = HeldBy(r) \cup {l}
  BY <1>2, HeldStep
<1>4. Good(k)
  BY <1>1, <1>2 DEF Good
<1>5. Fine(k)
  BY <1>1, <1>4, FineCons DEF k
<1> QED
  BY <1>3, <1>5 DEF k, release

\* A step that is about no lock.
LEMMA PlainFine ==
  ASSUME NEW r, Fine(r), NEW op \in Instr, op[1] \notin {"eflags", "cli", "xchg", "release", "sched", "pick"}
  PROVE  Fine(<<op>> \o r) /\ HeldBy(<<op>> \o r) = HeldBy(r)
<1> DEFINE k == <<op>> \o r
<1>1. r \in Code /\ ~At(r, "xchg")
  BY DEF Fine
<1>2. k \in Code /\ k # <<>> /\ k[1] = op /\ Tail(k) = r
  BY <1>1, Cons
<1> HIDE DEF k
<1>3. HeldBy(k) = HeldBy(r)
  BY <1>2, HeldStep
<1>4. Good(k)
  BY <1>1, <1>2 DEF Good
<1>5. Fine(k)
  BY <1>4, FineCons DEF k
<1> QED
  BY <1>3, <1>5 DEF k

\* sched() in front of code that gives up ptable.lock, the only lock it holds.
LEMMA SchedFine ==
  ASSUME NEW r, Fine(r), NEW s \in {"SLEEPING", "RUNNABLE"},
         HeldBy(r) = {"ptable"}, r # <<>>, r[1] = <<"release", "ptable">>
  PROVE  Fine(sched(s) \o r) /\ HeldBy(sched(s) \o r) = {"ptable"}
<1> DEFINE op == <<"sched", s>>
           k == <<op>> \o r
<1>1. r \in Code /\ ~At(r, "xchg") /\ op \in Instr /\ op[1] = "sched"
  BY SomeInstr DEF Fine
<1>2. k \in Code /\ k # <<>> /\ k[1] = op /\ Tail(k) = r
  BY <1>1, Cons
<1> HIDE DEF k
<1>3. HeldBy(k) = {"ptable"}
  BY <1>1, <1>2, HeldStep
<1>4. Good(k)
  BY <1>1, <1>2, <1>3 DEF Good
<1>5. Fine(k)
  BY <1>1, <1>4, FineCons DEF k
<1> QED
  BY <1>3, <1>5 DEF k, sched

\* acquire() is one step after the other.
LEMMA AcquireIs ==
  ASSUME NEW l \in Locks
  PROVE  /\ acquire(l) \in Code
         /\ \A r \in Code : acquire(l) \o r = <<<<"eflags", l>>>> \o (<<<<"xchg", l>>>> \o r)
<1> DEFINE e == <<"eflags", l>>
           x == <<"xchg", l>>
<1>1. e \in Instr /\ x \in Instr
  BY SomeInstr
<1> HIDE DEF e, x
<1>2. /\ <<e>> \in Code /\ <<x>> \in Code /\ <<e, x>> \in Code /\ Len(<<e>>) = 1 /\ Len(<<x>>) = 1 /\ Len(<<e, x>>) = 2
      /\ <<e>>[1] = e /\ <<x>>[1] = x /\ <<e, x>>[1] = e /\ <<e, x>>[2] = x
  BY <1>1 DEF Code
<1>3. /\ <<e>> \o <<x>> \in Code /\ Len(<<e>> \o <<x>>) = Len(<<e>>) + Len(<<x>>)
      /\ \A i \in 1..(Len(<<e>>) + Len(<<x>>)) :
            (<<e>> \o <<x>>)[i] = IF i <= Len(<<e>>) THEN <<e>>[i] ELSE <<x>>[i - Len(<<e>>)]
  BY <1>2, Cat
<1>4. /\ Len(<<e>> \o <<x>>) = 2
      /\ (<<e>> \o <<x>>)[1] = e /\ (<<e>> \o <<x>>)[2] = x
  BY <1>2, <1>3
<1>5. <<e, x>> = <<e>> \o <<x>>
  <2>1. \A i \in 1..Len(<<e, x>>) : <<e, x>>[i] = (<<e>> \o <<x>>)[i]
    BY <1>2, <1>4
  <2> QED
    BY <1>2, <1>3, <1>4, <2>1, SeqEqual DEF Code
<1>6. ASSUME NEW r \in Code
      PROVE  <<e, x>> \o r = <<e>> \o (<<x>> \o r)
  BY <1>2, <1>5, ConcatAssociative DEF Code
<1> QED
  BY <1>2, <1>6 DEF acquire, e, x

\* acquire() in front of code that gives the lock up.
LEMMA AcquireFine ==
  ASSUME NEW r, Fine(r), NEW l \in HeldBy(r)
  PROVE  Fine(acquire(l) \o r) /\ HeldBy(acquire(l) \o r) = HeldBy(r) \ {l}
<1> DEFINE e == <<"eflags", l>>
           x == <<"xchg", l>>
           m == <<x>> \o r
           k == <<e>> \o m
<1>1. /\ r \in Code /\ ~At(r, "xchg") /\ l \in Locks
      /\ e \in Instr /\ x \in Instr /\ e[1] = "eflags" /\ e[2] = l /\ x[1] = "xchg" /\ x[2] = l
  BY SomeInstr DEF Fine, HeldBy
<1>2. m \in Code /\ m # <<>> /\ m[1] = x /\ Tail(m) = r
  BY <1>1, Cons
<1> HIDE DEF m
<1>3. k \in Code /\ k # <<>> /\ k[1] = e /\ Tail(k) = m
  BY <1>1, <1>2, Cons
<1> HIDE DEF k
<1>4. HeldBy(m) = HeldBy(r) \ {l}
  BY <1>1, <1>2, HeldStep
<1>5. HeldBy(k) = HeldBy(r) \ {l}
  BY <1>1, <1>3, <1>4, HeldStep
<1>6. Good(m)
  BY <1>1, <1>2 DEF Good
<1>7. Good(k)
  BY <1>1, <1>2, <1>3 DEF Good
<1>8. ~At(k, "xchg")
  BY <1>1, <1>3 DEF At
<1>9. \A z \in Left(k) : Good(z)
  <2>1. Left(m) = {m} \cup Left(r)
    BY <1>1, LeftCons DEF m
  <2>2. Left(k) = {k} \cup Left(m)
    BY <1>1, <1>2, LeftCons DEF k
  <2> QED
    BY <1>6, <1>7, <2>1, <2>2 DEF Fine
<1>10. acquire(l) \o r = k
  BY <1>1, AcquireIs DEF k, m, e, x
<1> QED
  BY <1>3, <1>5, <1>8, <1>9, <1>10 DEF Fine

-----------------------------------------------------------------------------
(* The codes                                                               *)

\* The names of the steps of a code.
Steps(code) == {code[i][1] : i \in 1..Len(code)}

\* Pieces of code, however they are put together.
LEMMA Assoc ==
  ASSUME NEW s \in Code, NEW t \in Code, NEW u \in Code
  PROVE  (s \o t) \o u = s \o (t \o u)
BY ConcatAssociative DEF Code

\* Two pieces in a row, as an operator that the prover need not look into.
Join(s, t) == s \o t

\* Three pieces in a row.
LEMMA JoinAssoc ==
  ASSUME NEW s \in Code, NEW t \in Code, NEW u \in Code
  PROVE  Join(s, t) \in Code /\ Join(Join(s, t), u) = Join(s, Join(t, u))
<1>1. Join(s, t) \in Code
  BY Cat DEF Join
<1>2. (s \o t) \o u = s \o (t \o u)
  BY Assoc
<1> QED
  BY <1>1, <1>2 DEF Join

\* Four pieces in a row.
LEMMA JoinAssoc4 ==
  ASSUME NEW s \in Code, NEW t \in Code, NEW u \in Code, NEW v \in Code
  PROVE  Join(Join(Join(s, t), u), v) = Join(s, Join(t, Join(u, v)))
<1>1. Join(s, t) \in Code /\ Join(u, v) \in Code
  BY JoinAssoc
<1>2. Join(Join(Join(s, t), u), v) = Join(Join(s, t), Join(u, v))
  BY <1>1, JoinAssoc
<1>3. Join(Join(s, t), Join(u, v)) = Join(s, Join(t, Join(u, v)))
  BY <1>1, JoinAssoc
<1> QED
  BY <1>2, <1>3

\* Two pieces are a piece.
LEMMA Both ==
  ASSUME NEW s \in Code, NEW t \in Code
  PROVE  s \o t \in Code
BY Cat

\* Nothing before a code, or after it.
LEMMA Alone ==
  ASSUME NEW s \in Code
  PROVE  s \o <<>> = s /\ <<>> \o s = s
BY ConcatEmptySeq DEF Code

\* The steps of two pieces of code are those of one and of the other.
LEMMA StepsCat ==
  ASSUME NEW s \in Code, NEW t \in Code
  PROVE  Steps(s \o t) = Steps(s) \cup Steps(t)
<1>1. /\ Len(s \o t) = Len(s) + Len(t) /\ Len(s) \in Nat /\ Len(t) \in Nat
      /\ \A i \in 1..(Len(s) + Len(t)) : (s \o t)[i] = IF i <= Len(s) THEN s[i] ELSE t[i - Len(s)]
  BY Cat, CodeFacts
<1>2. ASSUME NEW i \in 1..(Len(s) + Len(t))
      PROVE  (s \o t)[i][1] \in Steps(s) \cup Steps(t)
  <2>1. CASE i <= Len(s)
    BY <1>1, <2>1 DEF Steps
  <2>2. CASE ~(i <= Len(s))
    <3>1. i - Len(s) \in 1..Len(t) /\ (s \o t)[i] = t[i - Len(s)]
      BY <1>1, <2>2
    <3> QED
      BY <3>1 DEF Steps
  <2> QED
    BY <2>1, <2>2
<1>3. ASSUME NEW i \in 1..Len(s)
      PROVE  s[i][1] \in Steps(s \o t)
  <2>1. i \in 1..(Len(s) + Len(t)) /\ (s \o t)[i] = s[i]
    BY <1>1
  <2> QED
    BY <1>1, <2>1 DEF Steps
<1>4. ASSUME NEW i \in 1..Len(t)
      PROVE  t[i][1] \in Steps(s \o t)
  <2>1. Len(s) + i \in 1..(Len(s) + Len(t)) /\ ~(Len(s) + i <= Len(s)) /\ (Len(s) + i) - Len(s) = i
    BY <1>1
  <2>2. (s \o t)[Len(s) + i] = t[i]
    BY <1>1, <2>1
  <2> QED
    BY <1>1, <2>1, <2>2 DEF Steps
<1>5. Steps(s \o t) \subseteq Steps(s) \cup Steps(t)
  BY <1>1, <1>2 DEF Steps
<1>6. Steps(s) \subseteq Steps(s \o t) /\ Steps(t) \subseteq Steps(s \o t)
  BY <1>3, <1>4 DEF Steps
<1> QED
  BY <1>5, <1>6

\* The steps of a code are its first one and those of the rest.
LEMMA StepsTail ==
  ASSUME NEW k \in Code, k # <<>>
  PROVE  Steps(k) = {k[1][1]} \cup Steps(Tail(k))
<1>1. /\ Len(k) \in Nat /\ Len(k) # 0 /\ Len(Tail(k)) = Len(k) - 1
      /\ \A i \in 1..Len(Tail(k)) : Tail(k)[i] = k[i + 1]
  BY CodeFacts
<1>2. ASSUME NEW i \in 1..Len(k), i # 1
      PROVE  k[i][1] \in Steps(Tail(k))
  <2>1. i - 1 \in 1..Len(Tail(k)) /\ (i - 1) + 1 = i
    BY <1>1, <1>2
  <2>2. Tail(k)[i - 1] = k[i]
    BY <1>1, <2>1
  <2> QED
    BY <2>1, <2>2 DEF Steps
<1>3. ASSUME NEW i \in 1..Len(Tail(k))
      PROVE  Tail(k)[i][1] \in Steps(k)
  <2>1. i + 1 \in 1..Len(k)
    BY <1>1
  <2> QED
    BY <1>1, <2>1 DEF Steps
<1>4. 1 \in 1..Len(k)
  BY <1>1
<1>5. Steps(k) \subseteq {k[1][1]} \cup Steps(Tail(k))
  BY <1>2 DEF Steps
<1>6. k[1][1] \in Steps(k)
  BY <1>4 DEF Steps
<1>7. Steps(Tail(k)) \subseteq Steps(k)
  BY <1>3 DEF Steps
<1> QED
  BY <1>5, <1>6, <1>7

\* The steps of the smallest pieces.
LEMMA StepsOf ==
  /\ \A l \in Locks : /\ Steps(acquire(l)) = {"eflags", "xchg"}
                      /\ Steps(release(l)) = {"release"} /\ release(l) \in Code
  /\ \A s \in {"SLEEPING", "RUNNABLE"} : Steps(sched(s)) = {"sched"} /\ sched(s) \in Code
  /\ \A op \in Instr : Steps(<<op>>) = {op[1]} /\ <<op>> \in Code
  /\ Steps(<<>>) = {} /\ <<>> \in Code
<1>1. ASSUME NEW op \in Instr
      PROVE  Steps(<<op>>) = {op[1]} /\ <<op>> \in Code
  <2>1. Len(<<op>>) = 1 /\ <<op>>[1] = op /\ <<op>> \in Code
    BY DEF Code
  <2> QED
    BY <2>1 DEF Steps
<1>2. Steps(<<>>) = {} /\ <<>> \in Code
  BY EmptyHolds, CodeFacts DEF Steps
<1>3. ASSUME NEW l \in Locks
      PROVE  /\ Steps(acquire(l)) = {"eflags", "xchg"}
             /\ Steps(release(l)) = {"release"} /\ release(l) \in Code
  <2> DEFINE e == <<"eflags", l>>
             x == <<"xchg", l>>
             d == <<"release", l>>
  <2>1. e \in Instr /\ x \in Instr /\ d \in Instr /\ e[1] = "eflags" /\ x[1] = "xchg" /\ d[1] = "release"
    BY SomeInstr
  <2>2. acquire(l) \in Code /\ acquire(l) \o <<>> = <<e>> \o (<<x>> \o <<>>)
    BY <1>2, AcquireIs
  <2>3. release(l) = <<d>>
    BY DEF release
  <2> HIDE DEF e, x, d
  <2>4. <<e>> \in Code /\ <<x>> \in Code /\ <<d>> \in Code
    BY <1>1, <2>1
  <2>5. acquire(l) = <<e>> \o <<x>>
    BY <2>2, <2>4, Alone
  <2>6. Steps(<<e>> \o <<x>>) = Steps(<<e>>) \cup Steps(<<x>>)
    BY <2>4, StepsCat
  <2> QED
    BY <1>1, <2>1, <2>3, <2>4, <2>5, <2>6
<1>4. ASSUME NEW s \in {"SLEEPING", "RUNNABLE"}
      PROVE  Steps(sched(s)) = {"sched"} /\ sched(s) \in Code
  <2> DEFINE d == <<"sched", s>>
  <2>1. d \in Instr /\ d[1] = "sched"
    BY SomeInstr
  <2>2. sched(s) = <<d>>
    BY DEF sched
  <2> HIDE DEF d
  <2> QED
    BY <1>1, <2>1, <2>2
<1> QED
  BY <1>1, <1>2, <1>3, <1>4

\* What is left of the end of a code is left of the code.
LEMMA LeftCat ==
  ASSUME NEW s \in Code, NEW t \in Code, NEW i \in 1..(Len(t) + 1)
  PROVE  Suffix(s \o t, Len(s) + i) = Suffix(t, i) /\ Suffix(t, i) \in Left(s \o t)
<1> DEFINE k == s \o t
<1>1. /\ k \in Code /\ Len(k) = Len(s) + Len(t) /\ Len(s) \in Nat /\ Len(t) \in Nat
      /\ \A j \in 1..(Len(s) + Len(t)) : k[j] = IF j <= Len(s) THEN s[j] ELSE t[j - Len(s)]
  BY Cat, CodeFacts
<1> HIDE DEF k
<1>2. Len(s) + i \in 1..(Len(k) + 1) /\ Len(k) + 1 - (Len(s) + i) = Len(t) + 1 - i
  BY <1>1
<1>3. /\ Suffix(k, Len(s) + i) \in Code /\ Len(Suffix(k, Len(s) + i)) = Len(k) + 1 - (Len(s) + i)
      /\ \A j \in 1..(Len(k) + 1 - (Len(s) + i)) : Suffix(k, Len(s) + i)[j] = k[(Len(s) + i) + j - 1]
  BY <1>1, <1>2, SuffixFacts
<1>4. /\ Suffix(t, i) \in Code /\ Len(Suffix(t, i)) = Len(t) + 1 - i
      /\ \A j \in 1..(Len(t) + 1 - i) : Suffix(t, i)[j] = t[i + j - 1]
  BY SuffixFacts
<1>5. ASSUME NEW j \in 1..(Len(t) + 1 - i)
      PROVE  Suffix(k, Len(s) + i)[j] = Suffix(t, i)[j]
  <2>1. /\ (Len(s) + i) + j - 1 \in 1..(Len(s) + Len(t)) /\ ~((Len(s) + i) + j - 1 <= Len(s))
        /\ ((Len(s) + i) + j - 1) - Len(s) = i + j - 1
    BY <1>1
  <2>2. k[(Len(s) + i) + j - 1] = t[i + j - 1]
    BY <1>1, <2>1
  <2> QED
    BY <1>2, <1>3, <1>4, <2>2
<1>6. Suffix(k, Len(s) + i) = Suffix(t, i)
  BY <1>2, <1>3, <1>4, <1>5, SeqEqual DEF Code
<1>7. Suffix(t, i) \in Left(k)
  BY <1>2, <1>6 DEF Left
<1> QED
  BY <1>6, <1>7 DEF k

\* The end of a code is left of it, and so is nothing.
LEMMA EndLeft ==
  ASSUME NEW s \in Code, NEW t \in Code
  PROVE  t \in Left(s \o t) /\ <<>> \in Left(t)
<1>1. Len(t) \in Nat /\ 1 \in 1..(Len(t) + 1) /\ Len(t) + 1 \in 1..(Len(t) + 1)
  BY CodeFacts
<1>2. Suffix(t, 1) = t
  BY SubSeqFull DEF Suffix, Code
<1>3. Suffix(t, Len(t) + 1) = <<>>
  BY <1>1, SuffixFacts
<1>4. t \in Left(s \o t)
  BY <1>1, <1>2, LeftCat
<1>5. <<>> \in Left(t)
  BY <1>1, <1>3 DEF Left
<1> QED
  BY <1>4, <1>5

\* What is left of a fine code: it keeps its word, and its tail is left of the code too.
LEMMA LeftFine ==
  ASSUME NEW C, Fine(C), NEW k \in Left(C)
  PROVE  /\ k \in Code /\ Good(k) /\ Steps(k) \subseteq Steps(C)
         /\ k # <<>> => /\ Tail(k) \in Left(C) /\ k[1] \in Instr /\ k[1][1] \in Steps(C)
                        /\ k[1][1] = "eflags" => <<<<"cli", k[1][2]>>>> \o Tail(k) \in Begun(C)
<1>1. C \in Code /\ Good(k) /\ Len(C) \in Nat
  BY CodeFacts DEF Fine
<1>2. PICK i \in 1..(Len(C) + 1) : k = Suffix(C, i)
  BY DEF Left
<1>3. /\ k \in Code /\ Len(k) = Len(C) + 1 - i /\ (k = <<>> <=> i = Len(C) + 1)
      /\ \A j \in 1..(Len(C) + 1 - i) : k[j] = C[i + j - 1]
      /\ i <= Len(C) => k[1] = C[i] /\ Tail(k) = Suffix(C, i + 1)
  BY <1>1, <1>2, SuffixFacts
<1>4. Steps(k) \subseteq Steps(C)
  <2>1. ASSUME NEW j \in 1..Len(k)
        PROVE  k[j][1] \in Steps(C)
    <3>1. j \in 1..(Len(C) + 1 - i) /\ i + j - 1 \in 1..Len(C)
      BY <1>1, <1>3
    <3>2. k[j] = C[i + j - 1]
      BY <1>3, <3>1
    <3> QED
      BY <3>1, <3>2 DEF Steps
  <2> QED
    BY <2>1 DEF Steps
<1>5. ASSUME k # <<>>
      PROVE  /\ Tail(k) \in Left(C) /\ k[1] \in Instr /\ k[1][1] \in Steps(C)
             /\ k[1][1] = "eflags" => <<<<"cli", k[1][2]>>>> \o Tail(k) \in Begun(C)
  <2>1. i \in 1..Len(C) /\ i + 1 \in 1..(Len(C) + 1) /\ k[1] = C[i] /\ Tail(k) = Suffix(C, i + 1)
    BY <1>1, <1>3, <1>5
  <2>2. C[i] \in Instr
    BY <1>1, <2>1, CodeFacts
  <2>3. k[1][1] = "eflags" => <<<<"cli", k[1][2]>>>> \o Tail(k) \in Begun(C)
    BY <2>1 DEF Begun
  <2> QED
    BY <2>1, <2>2, <2>3 DEF Left, Steps
<1> QED
  BY <1>1, <1>3, <1>4, <1>5

\* An acquire() between the read of eflags and cli.
LEMMA BegunFine ==
  ASSUME NEW C, Fine(C), NEW k \in Begun(C)
  PROVE  /\ k \in Code /\ k # <<>> /\ Good(k) /\ k[1] \in Instr /\ k[1][1] = "cli"
         /\ Tail(k) \in Left(C) /\ Tail(k) # <<>> /\ Steps(k) \subseteq Steps(C) \cup {"cli"}
<1>1. C \in Code /\ Len(C) \in Nat
  BY CodeFacts DEF Fine
<1>2. PICK i \in {j \in 1..Len(C) : C[j][1] = "eflags"} : k = <<<<"cli", C[i][2]>>>> \o Suffix(C, i + 1)
  BY DEF Begun
<1> DEFINE m == C[i][2]
           r == Suffix(C, i + 1)
           z == Suffix(C, i)
           op == <<"cli", m>>
<1>3. i \in 1..Len(C) /\ i \in 1..(Len(C) + 1) /\ i + 1 \in 1..(Len(C) + 1) /\ i <= Len(C)
      /\ C[i][1] = "eflags" /\ C[i] \in Instr
  BY <1>1, <1>2, CodeFacts
<1>4. m \in Locks /\ op \in Instr /\ op[1] = "cli" /\ op[2] = m
  BY <1>3, InstrFacts, SomeInstr
<1>5. z # <<>> /\ z[1] = C[i] /\ Tail(z) = r /\ r \in Code
  BY <1>1, <1>3, SuffixFacts
<1>6. z \in Left(C) /\ r \in Left(C)
  BY <1>3 DEF Left
<1>7. Good(z)
  BY <1>6 DEF Fine
<1>8. r # <<>> /\ r[1] = <<"xchg", m>>
  BY <1>3, <1>5, <1>7 DEF Good
<1>9. k \in Code /\ k # <<>> /\ k[1] = op /\ Tail(k) = r
  BY <1>2, <1>4, <1>5, Cons
<1>10. Good(k)
  BY <1>4, <1>8, <1>9 DEF Good
<1>11. Steps(k) \subseteq Steps(C) \cup {"cli"}
  <2>1. Steps(k) = {"cli"} \cup Steps(r)
    BY <1>4, <1>9, StepsTail
  <2>2. Steps(r) \subseteq Steps(C)
    BY <1>6, LeftFine
  <2> QED
    BY <2>1, <2>2
<1> QED
  BY <1>4, <1>6, <1>8, <1>9, <1>10, <1>11

-----------------------------------------------------------------------------
(* Each code                                                               *)

\* wakeup() in front of code that is not about ptable.lock.
LEMMA WakeupFine ==
  ASSUME NEW r, Fine(r), NEW chan \in Locks, "ptable" \notin HeldBy(r)
  PROVE  /\ wakeup(chan) \in Code /\ Steps(wakeup(chan)) = {"eflags", "xchg", "wakeup1", "release"}
         /\ Fine(wakeup(chan) \o r) /\ HeldBy(wakeup(chan) \o r) = HeldBy(r)
<1> DEFINE a == acquire("ptable")
           w == <<<<"wakeup1", chan>>>>
           d == release("ptable")
<1>1. r \in Code
  BY DEF Fine
<1>2. <<"wakeup1", chan>> \in Instr /\ <<"wakeup1", chan>>[1] = "wakeup1"
  BY SomeInstr
<1>3. /\ a \in Code /\ w \in Code /\ d \in Code
      /\ Steps(a) = {"eflags", "xchg"} /\ Steps(w) = {"wakeup1"} /\ Steps(d) = {"release"}
  BY <1>2, AcquireIs, StepsOf, LockNames
<1>4. Fine(d \o r) /\ HeldBy(d \o r) = HeldBy(r) \cup {"ptable"}
  BY ReleaseFine, LockNames
<1>5. Fine(w \o (d \o r)) /\ HeldBy(w \o (d \o r)) = HeldBy(r) \cup {"ptable"}
  <2> DEFINE q == d \o r
  <2>1. Fine(q) /\ HeldBy(q) = HeldBy(r) \cup {"ptable"}
    BY <1>4
  <2> HIDE DEF q
  <2>2. Fine(w \o q) /\ HeldBy(w \o q) = HeldBy(q)
    BY <1>2, <2>1, PlainFine
  <2> QED
    BY <2>1, <2>2 DEF q
<1> DEFINE q == w \o (d \o r)
<1>6. Fine(q) /\ HeldBy(q) = HeldBy(r) \cup {"ptable"}
  BY <1>5
<1> HIDE DEF q
<1>7. Fine(a \o q) /\ HeldBy(a \o q) = HeldBy(r)
  <2>1. "ptable" \in HeldBy(q)
    BY <1>6
  <2>2. Fine(a \o q) /\ HeldBy(a \o q) = HeldBy(q) \ {"ptable"}
    BY <1>6, <2>1, AcquireFine
  <2> QED
    BY <1>6, <2>2
<1>8. wakeup(chan) = (a \o w) \o d
  BY DEF wakeup
<1> HIDE DEF a, w, d
<1>9. (a \o w) \in Code /\ wakeup(chan) \in Code
  BY <1>3, <1>8, Both
<1>10. wakeup(chan) \o r = a \o q
  <2>1. ((a \o w) \o d) \o r = a \o (w \o (d \o r))
    <3>1. Join(Join(Join(a, w), d), r) = Join(a, Join(w, Join(d, r)))
      BY <1>1, <1>3, JoinAssoc4
    <3> QED
      BY <3>1 DEF Join
  <2> QED
    BY <1>8, <2>1 DEF q
<1>11. Steps(wakeup(chan)) = {"eflags", "xchg", "wakeup1", "release"}
  <2>1. Steps(a \o w) = Steps(a) \cup Steps(w) /\ Steps((a \o w) \o d) = Steps(a \o w) \cup Steps(d)
    BY <1>3, <1>9, StepsCat
  <2> QED
    BY <1>3, <1>8, <2>1
<1> QED
  BY <1>7, <1>9, <1>10, <1>11

\* release() at the end of a code.
LEMMA ReleaseLast ==
  ASSUME NEW l \in Locks
  PROVE  /\ Fine(release(l)) /\ HeldBy(release(l)) = {l}
         /\ release(l) # <<>> /\ release(l)[1] = <<"release", l>> /\ Tail(release(l)) = <<>>
<1>1. Fine(<<>>) /\ HeldBy(<<>>) = {} /\ <<>> \in Code
  BY EmptyFine, EmptyHolds
<1>2. Fine(release(l) \o <<>>) /\ HeldBy(release(l) \o <<>>) = {l}
  <2>1. l \notin HeldBy(<<>>)
    BY <1>1
  <2>2. Fine(release(l) \o <<>>) /\ HeldBy(release(l) \o <<>>) = HeldBy(<<>>) \cup {l}
    BY <1>1, <2>1, ReleaseFine
  <2> QED
    BY <1>1, <2>2
<1>3. release(l) \o <<>> = release(l)
  BY StepsOf, Alone
<1>4. <<"release", l>> \in Instr
  BY SomeInstr
<1>5. release(l) = <<<<"release", l>>>> \o <<>>
  BY <1>3 DEF release
<1>6. release(l) # <<>> /\ release(l)[1] = <<"release", l>> /\ Tail(release(l)) = <<>>
  BY <1>1, <1>4, <1>5, Cons
<1> QED
  BY <1>2, <1>3, <1>6

\* The scheduler that goes on from the n-th slot.
LEMMA PickFine ==
  ASSUME NEW n \in Nat
  PROVE  LET k == <<<<"pick", n>>>>
         IN  /\ Fine(k) /\ HeldBy(k) = {"ptable"} /\ k # <<>> /\ k[1] = <<"pick", n>> /\ Tail(k) = <<>>
             /\ Steps(k) = {"pick"}
<1> DEFINE op == <<"pick", n>>
           k == <<op>>
<1>1. op \in Instr /\ op[1] = "pick"
  BY SomeInstr
<1>2. Fine(<<>>) /\ HeldBy(<<>>) = {} /\ <<>> \in Code
  BY EmptyFine, EmptyHolds
<1> HIDE DEF op
<1>3. k = <<op>> \o <<>> /\ k \in Code /\ Steps(k) = {"pick"}
  <2>1. k \in Code /\ Steps(k) = {op[1]}
    BY <1>1, StepsOf
  <2> HIDE DEF k
  <2>2. k \o <<>> = k
    BY <2>1, Alone
  <2> QED
    BY <1>1, <2>1, <2>2 DEF k
<1>4. k # <<>> /\ k[1] = op /\ Tail(k) = <<>>
  BY <1>1, <1>2, <1>3, Cons
<1> HIDE DEF k
<1>5. HeldBy(k) = {"ptable"}
  BY <1>1, <1>2, <1>3, <1>4, HeldStep
<1>6. ~At(<<>>, "xchg")
  BY DEF At
<1>7. Good(k)
  BY <1>1, <1>4, <1>6 DEF Good
<1>8. Fine(k)
  BY <1>1, <1>2, <1>3, <1>7, FineCons
<1> QED
  BY <1>3, <1>4, <1>5, <1>8 DEF k, op

\* sys_uptime(): takes the ticks' lock and gives it back.
LEMMA UptimeFine ==
  /\ Fine(sys_uptime) /\ HeldBy(sys_uptime) = {} /\ Steps(sys_uptime) = {"eflags", "xchg", "release"}
<1> DEFINE d == release("ticks")
<1>1. Fine(d) /\ HeldBy(d) = {"ticks"}
  BY ReleaseLast, LockNames
<1>2. Fine(acquire("ticks") \o d) /\ HeldBy(acquire("ticks") \o d) = HeldBy(d) \ {"ticks"}
  BY <1>1, AcquireFine
<1>3. Steps(acquire("ticks") \o d) = {"eflags", "xchg"} \cup {"release"}
  <2>1. acquire("ticks") \in Code /\ d \in Code /\ Steps(acquire("ticks")) = {"eflags", "xchg"} /\ Steps(d) = {"release"}
    BY AcquireIs, StepsOf, LockNames
  <2> QED
    BY <2>1, StepsCat
<1> QED
  BY <1>1, <1>2, <1>3 DEF sys_uptime

\* yield(): sched() under ptable.lock.
LEMMA YieldFine ==
  /\ Fine(yield) /\ HeldBy(yield) = {} /\ Steps(yield) = {"eflags", "xchg", "sched", "release"}
<1> DEFINE a == acquire("ptable")
           s == sched("RUNNABLE")
           d == release("ptable")
<1>1. /\ a \in Code /\ s \in Code /\ d \in Code
      /\ Steps(a) = {"eflags", "xchg"} /\ Steps(s) = {"sched"} /\ Steps(d) = {"release"}
  BY AcquireIs, StepsOf, LockNames
<1>2. Fine(d) /\ HeldBy(d) = {"ptable"} /\ d # <<>> /\ d[1] = <<"release", "ptable">>
  BY ReleaseLast, LockNames
<1>3. Fine(s \o d) /\ HeldBy(s \o d) = {"ptable"}
  BY <1>2, SchedFine
<1>4. "ptable" \in HeldBy(s \o d)
  BY <1>3
<1>5. Fine(a \o (s \o d)) /\ HeldBy(a \o (s \o d)) = HeldBy(s \o d) \ {"ptable"}
  BY <1>3, <1>4, AcquireFine
<1>6. yield = (a \o s) \o d
  BY DEF yield
<1> HIDE DEF a, s, d
<1>7. yield = a \o (s \o d) /\ s \o d \in Code
  <2>1. (a \o s) \o d = a \o (s \o d)
    <3>1. Join(Join(a, s), d) = Join(a, Join(s, d))
      BY <1>1, JoinAssoc
    <3> QED
      BY <3>1 DEF Join
  <2>2. s \o d \in Code
    BY <1>1, Both
  <2> QED
    BY <1>6, <2>1, <2>2
<1>8. Steps(yield) = Steps(a) \cup (Steps(s) \cup Steps(d))
  BY <1>1, <1>7, StepsCat
<1> QED
  BY <1>1, <1>3, <1>5, <1>7, <1>8

\* The timer handler: counts a tick, wakes the sleepers, then may yield.
LEMMA TimerFine ==
  /\ Fine(TimerCode) /\ HeldBy(TimerCode) = {}
  /\ Steps(TimerCode) = {"eflags", "xchg", "wakeup1", "release", "if myproc yield"}
  /\ \A c : timer(c) \in Left(TimerCode) /\ HeldBy(timer(c)) = {} /\ Fine(timer(c))
<1> DEFINE a == acquire("ticks")
           w == wakeup("ticks")
           d == release("ticks")
           y == <<<<"if myproc yield">>>>
<1>1. <<"if myproc yield">> \in Instr /\ <<"if myproc yield">>[1] = "if myproc yield"
  BY SomeInstr
<1>2. Fine(<<>>) /\ HeldBy(<<>>) = {} /\ <<>> \in Code
  BY EmptyFine, EmptyHolds
<1>3. y \in Code /\ Steps(y) = {"if myproc yield"}
  BY <1>1, StepsOf
<1>4. Fine(y) /\ HeldBy(y) = {}
  <2>1. Fine(y \o <<>>) /\ HeldBy(y \o <<>>) = {}
    BY <1>1, <1>2, PlainFine
  <2> QED
    BY <1>3, <2>1, Alone
<1>5. Fine(d \o y) /\ HeldBy(d \o y) = {"ticks"}
  BY <1>4, ReleaseFine, LockNames
<1>6. /\ w \in Code /\ Steps(w) = {"eflags", "xchg", "wakeup1", "release"}
      /\ Fine(w \o (d \o y)) /\ HeldBy(w \o (d \o y)) = {"ticks"}
  <2>1. "ptable" \notin HeldBy(d \o y)
    BY <1>5
  <2> QED
    BY <1>5, <2>1, WakeupFine, LockNames
<1>7. "ticks" \in HeldBy(w \o (d \o y))
  BY <1>6
<1>8. Fine(a \o (w \o (d \o y))) /\ HeldBy(a \o (w \o (d \o y))) = HeldBy(w \o (d \o y)) \ {"ticks"}
  BY <1>6, <1>7, AcquireFine
<1>9. a \in Code /\ d \in Code /\ Steps(a) = {"eflags", "xchg"} /\ Steps(d) = {"release"}
  BY AcquireIs, StepsOf, LockNames
<1>10. TimerCode = ((a \o w) \o d) \o y
  BY DEF TimerCode, timer
<1>11. \A c : timer(c) = TimerCode \/ timer(c) = <<>> \o y
  BY DEF TimerCode, timer
<1> HIDE DEF a, w, d, y
<1>12. a \o w \in Code /\ (a \o w) \o d \in Code /\ d \o y \in Code
  BY <1>3, <1>6, <1>9, Both
<1>13. ((a \o w) \o d) \o y = a \o (w \o (d \o y))
  <2>1. a \in Code /\ w \in Code /\ d \in Code /\ y \in Code
    BY <1>3, <1>6, <1>9
  <2>2. Join(Join(Join(a, w), d), y) = Join(a, Join(w, Join(d, y)))
    BY <2>1, JoinAssoc4
  <2> QED
    BY <2>2 DEF Join
<1>14. /\ Steps(a \o w) = Steps(a) \cup Steps(w) /\ Steps((a \o w) \o d) = Steps(a \o w) \cup Steps(d)
       /\ Steps(((a \o w) \o d) \o y) = Steps((a \o w) \o d) \cup Steps(y)
  BY <1>3, <1>6, <1>9, <1>12, StepsCat
<1>15. Steps(TimerCode) = {"eflags", "xchg", "wakeup1", "release", "if myproc yield"}
  BY <1>3, <1>6, <1>9, <1>10, <1>14
<1>16. Fine(TimerCode) /\ HeldBy(TimerCode) = {}
  BY <1>6, <1>8, <1>10, <1>13
<1>17. <<>> \o y = y /\ y \in Left(TimerCode) /\ TimerCode \in Left(TimerCode)
  <2>1. <<>> \o y = y
    BY <1>3, ConcatEmptySeq DEF Code
  <2>2. y \in Left(TimerCode)
    BY <1>3, <1>10, <1>12, EndLeft
  <2>3. TimerCode \in Code
    BY <1>16 DEF Fine
  <2>4. <<>> \o TimerCode = TimerCode
    BY <2>3, ConcatEmptySeq DEF Code
  <2>5. TimerCode \in Left(<<>> \o TimerCode)
    BY <1>2, <2>3, EndLeft
  <2> QED
    BY <2>1, <2>2, <2>4, <2>5
<1> QED
  BY <1>4, <1>11, <1>15, <1>16, <1>17

\* The scheduler, from the top of its loop or from the end of a pass.
LEMMA RoundFine ==
  /\ Fine(RoundCode) /\ HeldBy(RoundCode) = {"ptable"}
  /\ Steps(RoundCode) = {"release", "sti", "eflags", "xchg", "pick"}
  /\ Fine(scheduler) /\ HeldBy(scheduler) = {} /\ scheduler \in Left(RoundCode) /\ scheduler # <<>>
  /\ RoundCode \in Left(RoundCode) /\ RoundCode # <<>>
<1> DEFINE i == <<<<"sti">>>>
           a == acquire("ptable")
           k == <<<<"pick", 1>>>>
           d == release("ptable")
<1>1. Fine(k) /\ HeldBy(k) = {"ptable"} /\ Steps(k) = {"pick"}
  BY PickFine
<1>2. <<"sti">> \in Instr /\ <<"sti">>[1] = "sti"
  BY SomeInstr
<1>3. a \in Code /\ d \in Code /\ Steps(a) = {"eflags", "xchg"} /\ Steps(d) = {"release"}
  BY AcquireIs, StepsOf, LockNames
<1>4. i \in Code /\ Steps(i) = {"sti"}
  BY <1>2, StepsOf
<1>5. Fine(a \o k) /\ HeldBy(a \o k) = HeldBy(k) \ {"ptable"}
  BY <1>1, AcquireFine
<1>6. Fine(a \o k) /\ HeldBy(a \o k) = {}
  BY <1>1, <1>5
<1>7. Fine(i \o (a \o k)) /\ HeldBy(i \o (a \o k)) = {}
  <2> DEFINE q == a \o k
  <2>1. Fine(q) /\ HeldBy(q) = {}
    BY <1>6
  <2> HIDE DEF q
  <2>2. Fine(i \o q) /\ HeldBy(i \o q) = HeldBy(q)
    BY <1>2, <2>1, PlainFine
  <2> QED
    BY <2>1, <2>2 DEF q
<1>8. scheduler = (i \o a) \o k
  BY DEF scheduler
<1>9. k \in Code
  BY <1>1 DEF Fine
<1>10. RoundCode = d \o scheduler
  BY DEF RoundCode
<1> HIDE DEF i, a, k
<1>11. (i \o a) \o k = i \o (a \o k) /\ i \o a \in Code
  <2>1. (i \o a) \o k = i \o (a \o k)
    <3>1. Join(Join(i, a), k) = Join(i, Join(a, k))
      BY <1>3, <1>4, <1>9, JoinAssoc
    <3> QED
      BY <3>1 DEF Join
  <2>2. i \o a \in Code
    BY <1>3, <1>4, Both
  <2> QED
    BY <2>1, <2>2
<1>12. Fine(scheduler) /\ HeldBy(scheduler) = {} /\ scheduler \in Code
  BY <1>7, <1>8, <1>11 DEF Fine
<1>13. Fine(d \o scheduler) /\ HeldBy(d \o scheduler) = HeldBy(scheduler) \cup {"ptable"}
  BY <1>12, ReleaseFine, LockNames
<1>14. Steps(scheduler) = (Steps(i) \cup Steps(a)) \cup Steps(k)
  BY <1>3, <1>4, <1>8, <1>9, <1>11, StepsCat
<1>15. Steps(d \o scheduler) = Steps(d) \cup Steps(scheduler)
  BY <1>3, <1>12, StepsCat
<1>16. scheduler \in Left(RoundCode)
  BY <1>3, <1>10, <1>12, EndLeft
<1>17. RoundCode \in Code
  BY <1>3, <1>10, <1>12, Cat
<1>18. RoundCode \in Left(RoundCode)
  <2>1. <<>> \in Code /\ <<>> \o RoundCode = RoundCode
    BY <1>17, ConcatEmptySeq, EmptyHolds DEF Code
  <2> QED
    BY <1>17, <2>1, EndLeft
<1>19. scheduler # <<>> /\ RoundCode # <<>>
  <2>1. Steps(<<>>) = {}
    BY StepsOf
  <2> QED
    BY <1>1, <1>3, <1>10, <1>14, <1>15, <2>1
<1> QED
  BY <1>1, <1>3, <1>4, <1>10, <1>12, <1>13, <1>14, <1>15, <1>16, <1>18, <1>19

\* Where the handler may yield, where the scheduler turns interrupts on, and where it gives the
\* table up.
LEMMA TimerCut ==
  \E s \in Code : /\ TimerCode = s \o (<<<<"if myproc yield">>>> \o <<>>)
                  /\ "if myproc yield" \notin Steps(s)
<1> DEFINE a == acquire("ticks")
           w == wakeup("ticks")
           d == release("ticks")
           y == <<<<"if myproc yield">>>>
           aw == a \o w
           s == aw \o d
<1>1. a \in Code /\ d \in Code /\ Steps(a) = {"eflags", "xchg"} /\ Steps(d) = {"release"}
  BY AcquireIs, StepsOf, LockNames
<1>2. w \in Code /\ Steps(w) = {"eflags", "xchg", "wakeup1", "release"}
  BY EmptyFine, EmptyHolds, WakeupFine, LockNames
<1>3. y \in Code
  BY SomeInstr, StepsOf
<1>4. TimerCode = s \o y
  BY DEF TimerCode, timer
<1>5. y \o <<>> = y
  BY <1>3, Alone
<1> HIDE DEF a, w, d, y
<1>6. aw \in Code /\ Steps(aw) = Steps(a) \cup Steps(w)
  BY <1>1, <1>2, Both, StepsCat
<1> HIDE DEF aw
<1>7. s \in Code /\ Steps(s) = Steps(aw) \cup Steps(d)
  BY <1>1, <1>6, Both, StepsCat
<1>8. "if myproc yield" \notin Steps(s)
  BY <1>1, <1>2, <1>6, <1>7
<1> QED
  BY <1>4, <1>5, <1>7, <1>8 DEF y

\* The loop of the scheduler, cut at its release() and at its sti().
LEMMA RoundCuts ==
  /\ \E s \in Code, t \in Code : /\ RoundCode = s \o (<<<<"sti">>>> \o t) /\ "sti" \notin Steps(s) \cup Steps(t)
                                 /\ HeldBy(t) = {} /\ t # <<>>
  /\ \E t \in Code : RoundCode = <<>> \o (<<<<"release", "ptable">>>> \o t) /\ "release" \notin Steps(t) /\ t # <<>>
<1> DEFINE i == <<<<"sti">>>>
           a == acquire("ptable")
           k == <<<<"pick", 1>>>>
           d == release("ptable")
           t == a \o k
<1>1. Fine(k) /\ HeldBy(k) = {"ptable"} /\ Steps(k) = {"pick"} /\ k \in Code
  BY PickFine DEF Fine
<1>2. a \in Code /\ d \in Code /\ Steps(a) = {"eflags", "xchg"} /\ Steps(d) = {"release"}
  BY AcquireIs, StepsOf, LockNames
<1>3. i \in Code /\ Steps(i) = {"sti"}
  BY SomeInstr, StepsOf
<1>4. "ptable" \in HeldBy(k)
  BY <1>1
<1>5. HeldBy(t) = HeldBy(k) \ {"ptable"}
  BY <1>1, <1>4, AcquireFine
<1>6. scheduler = (i \o a) \o k /\ RoundCode = d \o scheduler /\ d = <<<<"release", "ptable">>>>
  BY DEF scheduler, RoundCode, release
<1>7. scheduler \in Code /\ RoundCode \in Code /\ scheduler # <<>>
  BY RoundFine DEF Fine
<1>8. <<>> \o RoundCode = RoundCode
  BY <1>7, Alone
<1> HIDE DEF i, a, k, d
<1>9. t \in Code /\ Steps(t) = Steps(a) \cup Steps(k)
  BY <1>1, <1>2, Both, StepsCat
<1>10. (i \o a) \o k = i \o (a \o k)
  <2>1. Join(Join(i, a), k) = Join(i, Join(a, k))
    BY <1>1, <1>2, <1>3, JoinAssoc
  <2> QED
    BY <2>1 DEF Join
<1>11. Steps(i \o t) = Steps(i) \cup Steps(t)
  BY <1>3, <1>9, StepsCat
<1>12. t # <<>>
  BY <1>1, <1>9, StepsOf
<1>13. RoundCode = d \o (i \o t) /\ "sti" \notin Steps(d) \cup Steps(t) /\ HeldBy(t) = {}
  BY <1>1, <1>2, <1>5, <1>6, <1>9, <1>10
<1>14. RoundCode = <<>> \o (d \o scheduler) /\ "release" \notin Steps(scheduler)
  BY <1>1, <1>2, <1>3, <1>6, <1>8, <1>9, <1>10, <1>11
<1> HIDE DEF t
<1> QED
  BY <1>2, <1>6, <1>7, <1>9, <1>12, <1>13, <1>14 DEF i

\* A step that a code has in one place only: what is left when it comes is known.
LEMMA OnlyAt ==
  ASSUME NEW s \in Code, NEW op \in Instr, NEW t \in Code, op[1] \notin Steps(s), op[1] \notin Steps(t),
         NEW k \in Left(s \o (<<op>> \o t)), k # <<>>, k[1][1] = op[1]
  PROVE  k = <<op>> \o t /\ k[1] = op /\ Tail(k) = t
<1> DEFINE z == <<op>> \o t
           C == s \o z
<1>1. z \in Code /\ z[1] = op /\ Tail(z) = t /\ Left(z) = {z} \cup Left(t) /\ Len(z) = Len(t) + 1
  BY Cons, LeftCons
<1> HIDE DEF z
<1>2. /\ C \in Code /\ Len(C) = Len(s) + Len(z) /\ Len(s) \in Nat /\ Len(z) \in Nat
      /\ \A j \in 1..(Len(s) + Len(z)) : C[j] = IF j <= Len(s) THEN s[j] ELSE z[j - Len(s)]
  BY <1>1, Cat, CodeFacts
<1> HIDE DEF C
<1>3. PICK i \in 1..(Len(C) + 1) : k = Suffix(C, i)
  BY DEF Left, C, z
<1>4. i \in 1..Len(C) /\ k[1] = C[i]
  <2>1. i # Len(C) + 1
    BY <1>2, <1>3, SuffixFacts
  <2>2. i \in 1..Len(C) /\ i <= Len(C)
    BY <1>2, <1>3, <2>1
  <2> QED
    BY <1>2, <1>3, <2>2, SuffixFacts
<1>5. ~(i <= Len(s))
  <2> SUFFICES ASSUME i <= Len(s)
               PROVE  FALSE
    OBVIOUS
  <2>1. k[1] = s[i] /\ i \in 1..Len(s)
    BY <1>2, <1>4
  <2> QED
    BY <2>1 DEF Steps
<1>6. k \in Left(z)
  <2>1. i - Len(s) \in 1..(Len(z) + 1) /\ Len(s) + (i - Len(s)) = i
    BY <1>2, <1>4, <1>5
  <2>2. Suffix(s \o z, Len(s) + (i - Len(s))) = Suffix(z, i - Len(s))
    BY <1>1, <2>1, LeftCat
  <2>3. k = Suffix(z, i - Len(s))
    BY <1>3, <2>1, <2>2 DEF C
  <2> QED
    BY <2>1, <2>3 DEF Left
<1>7. k \notin Left(t)
  <2> SUFFICES ASSUME k \in Left(t)
               PROVE  FALSE
    OBVIOUS
  <2>1. PICK j \in 1..(Len(t) + 1) : k = Suffix(t, j)
    BY DEF Left
  <2>2. j \in 1..Len(t) /\ k[1] = t[j]
    BY <2>1, SuffixFacts, CodeFacts
  <2> QED
    BY <2>2 DEF Steps
<1>8. k = z
  BY <1>1, <1>6, <1>7
<1> QED
  BY <1>1, <1>8 DEF z

-----------------------------------------------------------------------------
(* The code of a sleep-lock                                                *)

\* The end of releasesleep(), the pieces before it, and what they hold.
WakeEnd == wakeup("slk") \o release("slk")
FreeEnd == <<<<"locked = 0">>>> \o WakeEnd
AfterEnd == release("slk") \o releasesleep
TestEnd == <<<<"while locked">>>> \o AfterEnd
TakeEnd == acquire("slk") \o TestEnd
WokenEnd == release("ptable") \o TakeEnd
SchedEnd == sched("SLEEPING") \o WokenEnd

\* releasesleep(): the flag is cleared and the sleepers woken under the spin-lock.
LEMMA ReleasesleepFine ==
  /\ WakeEnd \in Code /\ Steps(WakeEnd) = {"eflags", "xchg", "wakeup1", "release"}
  /\ FreeEnd \in Code /\ Steps(FreeEnd) = {"locked = 0", "eflags", "xchg", "wakeup1", "release"}
  /\ Tail(FreeEnd) = WakeEnd
  /\ releasesleep = acquire("slk") \o FreeEnd
  /\ Fine(releasesleep) /\ HeldBy(releasesleep) = {}
<1> DEFINE a == acquire("slk")
           f == <<<<"locked = 0">>>>
           w == wakeup("slk")
           d == release("slk")
<1>1. <<"locked = 0">> \in Instr /\ <<"locked = 0">>[1] = "locked = 0"
  BY SomeInstr
<1>2. Fine(d) /\ HeldBy(d) = {"slk"} /\ d \in Code /\ Steps(d) = {"release"}
  BY ReleaseLast, StepsOf, LockNames
<1>3. /\ w \in Code /\ Steps(w) = {"eflags", "xchg", "wakeup1", "release"}
      /\ Fine(w \o d) /\ HeldBy(w \o d) = {"slk"}
  BY <1>2, WakeupFine, LockNames
<1>4. f \in Code /\ Steps(f) = {"locked = 0"} /\ a \in Code
  BY <1>1, StepsOf, AcquireIs, LockNames
<1>5. Fine(WakeEnd) /\ HeldBy(WakeEnd) = {"slk"} /\ WakeEnd \in Code /\ Steps(WakeEnd) = {"eflags", "xchg", "wakeup1", "release"}
  <2>1. Steps(w \o d) = Steps(w) \cup Steps(d)
    BY <1>2, <1>3, StepsCat
  <2> QED
    BY <1>2, <1>3, <2>1 DEF WakeEnd, Fine
<1>6. Fine(FreeEnd) /\ HeldBy(FreeEnd) = {"slk"} /\ FreeEnd \in Code
  <2>1. Fine(f \o WakeEnd) /\ HeldBy(f \o WakeEnd) = HeldBy(WakeEnd)
    BY <1>1, <1>5, PlainFine
  <2> QED
    BY <1>5, <2>1 DEF FreeEnd, Fine
<1>7. Steps(FreeEnd) = {"locked = 0", "eflags", "xchg", "wakeup1", "release"}
  <2>1. Steps(f \o WakeEnd) = Steps(f) \cup Steps(WakeEnd)
    BY <1>4, <1>5, StepsCat
  <2> QED
    BY <1>4, <1>5, <2>1 DEF FreeEnd
<1>8. Tail(FreeEnd) = WakeEnd
  BY <1>1, <1>5, Cons DEF FreeEnd
<1>9. Fine(a \o FreeEnd) /\ HeldBy(a \o FreeEnd) = {}
  <2>1. "slk" \in HeldBy(FreeEnd)
    BY <1>6
  <2>2. Fine(a \o FreeEnd) /\ HeldBy(a \o FreeEnd) = HeldBy(FreeEnd) \ {"slk"}
    BY <1>6, <2>1, AcquireFine
  <2> QED
    BY <1>6, <2>2
<1>10. releasesleep = ((a \o f) \o w) \o d
  BY DEF releasesleep
<1> HIDE DEF a, f, w, d
<1>11. a \o f \in Code
  BY <1>4, Both
<1>12. ((a \o f) \o w) \o d = (a \o f) \o (w \o d)
  <2>1. Join(Join((a \o f), w), d) = Join((a \o f), Join(w, d))
    BY <1>2, <1>3, <1>11, JoinAssoc
  <2> QED
    BY <2>1 DEF Join
<1>13. (a \o f) \o WakeEnd = a \o (f \o WakeEnd)
  <2>1. Join(Join(a, f), WakeEnd) = Join(a, Join(f, WakeEnd))
    BY <1>4, <1>5, JoinAssoc
  <2> QED
    BY <2>1 DEF Join
<1>14. releasesleep = a \o FreeEnd
  BY <1>10, <1>12, <1>13 DEF WakeEnd, FreeEnd, w, d, f
<1> QED
  BY <1>5, <1>6, <1>7, <1>8, <1>9, <1>14 DEF a

\* acquiresleep() and sleep(), each in front of what follows it.
LEMMA SleepFine ==
  /\ AfterEnd \in Code /\ Steps(AfterEnd) = {"release", "eflags", "xchg", "locked = 0", "wakeup1"}
  /\ HeldBy(AfterEnd) = {"slk"} /\ ~At(AfterEnd, "xchg")
  /\ TestEnd \in Code /\ HeldBy(TestEnd) = {"slk"} /\ Steps(TestEnd) = {"while locked"} \cup Steps(AfterEnd)
  /\ TakeEnd \in Code /\ Fine(TakeEnd) /\ HeldBy(TakeEnd) = {} /\ Steps(TakeEnd) = Steps(TestEnd)
  /\ WokenEnd \in Code /\ Steps(WokenEnd) = Steps(TestEnd)
  /\ SchedEnd \in Code /\ Fine(SchedEnd) /\ HeldBy(SchedEnd) = {"ptable"}
<1>1. Fine(AfterEnd) /\ HeldBy(AfterEnd) = {"slk"} /\ AfterEnd \in Code /\ ~At(AfterEnd, "xchg")
  <2>1. Fine(releasesleep) /\ "slk" \notin HeldBy(releasesleep) /\ HeldBy(releasesleep) = {}
    BY ReleasesleepFine
  <2>2. Fine(release("slk") \o releasesleep) /\ HeldBy(release("slk") \o releasesleep) = HeldBy(releasesleep) \cup {"slk"}
    BY <2>1, ReleaseFine, LockNames
  <2> QED
    BY <2>1, <2>2 DEF AfterEnd, Fine
<1>2. Steps(AfterEnd) = {"release", "eflags", "xchg", "locked = 0", "wakeup1"}
  <2>1. Steps(releasesleep) = {"eflags", "xchg"} \cup {"locked = 0", "eflags", "xchg", "wakeup1", "release"}
    <3>1. acquire("slk") \in Code /\ Steps(acquire("slk")) = {"eflags", "xchg"}
      BY AcquireIs, StepsOf, LockNames
    <3>2. Steps(acquire("slk") \o FreeEnd) = Steps(acquire("slk")) \cup Steps(FreeEnd)
      BY <3>1, ReleasesleepFine, StepsCat
    <3> QED
      BY <3>1, <3>2, ReleasesleepFine
  <2>2. release("slk") \in Code /\ Steps(release("slk")) = {"release"} /\ releasesleep \in Code
    BY StepsOf, LockNames, ReleasesleepFine DEF Fine
  <2>3. Steps(release("slk") \o releasesleep) = Steps(release("slk")) \cup Steps(releasesleep)
    BY <2>2, StepsCat
  <2> QED
    BY <2>1, <2>2, <2>3 DEF AfterEnd
<1>3. <<"while locked">> \in Instr /\ <<"while locked">>[1] = "while locked"
  BY SomeInstr
<1>4. Fine(TestEnd) /\ HeldBy(TestEnd) = {"slk"} /\ TestEnd \in Code
  <2>1. Fine(<<<<"while locked">>>> \o AfterEnd) /\ HeldBy(<<<<"while locked">>>> \o AfterEnd) = HeldBy(AfterEnd)
    BY <1>1, <1>3, PlainFine
  <2> QED
    BY <1>1, <2>1 DEF TestEnd, Fine
<1>5. Steps(TestEnd) = {"while locked"} \cup Steps(AfterEnd)
  <2>1. <<<<"while locked">>>> \in Code /\ Steps(<<<<"while locked">>>>) = {"while locked"}
    BY <1>3, StepsOf
  <2>2. Steps(<<<<"while locked">>>> \o AfterEnd) = Steps(<<<<"while locked">>>>) \cup Steps(AfterEnd)
    BY <1>1, <2>1, StepsCat
  <2> QED
    BY <2>1, <2>2 DEF TestEnd
<1>6. Fine(TakeEnd) /\ HeldBy(TakeEnd) = {} /\ TakeEnd \in Code
  <2>1. "slk" \in HeldBy(TestEnd)
    BY <1>4
  <2>2. Fine(acquire("slk") \o TestEnd) /\ HeldBy(acquire("slk") \o TestEnd) = HeldBy(TestEnd) \ {"slk"}
    BY <1>4, <2>1, AcquireFine
  <2> QED
    BY <1>4, <2>2 DEF TakeEnd, Fine
<1>7. Steps(TakeEnd) = Steps(TestEnd)
  <2>1. acquire("slk") \in Code /\ Steps(acquire("slk")) = {"eflags", "xchg"}
    BY AcquireIs, StepsOf, LockNames
  <2>2. Steps(acquire("slk") \o TestEnd) = Steps(acquire("slk")) \cup Steps(TestEnd)
    BY <1>4, <2>1, StepsCat
  <2> QED
    BY <1>2, <1>5, <2>1, <2>2 DEF TakeEnd
<1> DEFINE d == release("ptable")
<1>8. d \in Code /\ Steps(d) = {"release"}
  BY StepsOf, LockNames
<1>9. Fine(WokenEnd) /\ HeldBy(WokenEnd) = {"ptable"} /\ WokenEnd \in Code
  <2>1. "ptable" \notin HeldBy(TakeEnd)
    BY <1>6
  <2>2. Fine(d \o TakeEnd) /\ HeldBy(d \o TakeEnd) = HeldBy(TakeEnd) \cup {"ptable"}
    BY <1>6, <2>1, ReleaseFine, LockNames
  <2> QED
    BY <1>6, <2>2 DEF WokenEnd, Fine
<1>10. Steps(WokenEnd) = Steps(TestEnd)
  <2>1. Steps(d \o TakeEnd) = Steps(d) \cup Steps(TakeEnd)
    BY <1>6, <1>8, StepsCat
  <2> QED
    BY <1>2, <1>5, <1>7, <1>8, <2>1 DEF WokenEnd
<1>11. WokenEnd # <<>> /\ WokenEnd[1] = <<"release", "ptable">>
  <2>1. <<"release", "ptable">> \in Instr
    BY SomeInstr, LockNames
  <2>2. WokenEnd = <<<<"release", "ptable">>>> \o TakeEnd
    BY DEF WokenEnd, release
  <2> QED
    BY <1>6, <2>1, <2>2, Cons
<1>12. Fine(SchedEnd) /\ HeldBy(SchedEnd) = {"ptable"} /\ SchedEnd \in Code
  <2>1. Fine(sched("SLEEPING") \o WokenEnd) /\ HeldBy(sched("SLEEPING") \o WokenEnd) = {"ptable"}
    BY <1>9, <1>11, SchedFine
  <2> QED
    BY <2>1 DEF SchedEnd, Fine
<1> QED
  BY <1>1, <1>2, <1>4, <1>5, <1>6, <1>7, <1>9, <1>10, <1>12

\* The code of a sleep-lock, cut at each of the steps that come once.
LEMMA SleepCuts ==
  /\ Fine(SleepCode) /\ HeldBy(SleepCode) = {"slk"}
  /\ SleepCode = sleep("slk") \o TestEnd /\ sleep("slk") \in Code
  /\ Steps(sleep("slk")) = {"eflags", "xchg", "release", "sched"}
  /\ SleepCode = (sleep("slk") \o <<<<"while locked">>>>) \o AfterEnd
  /\ \E s \in Code : SleepCode = s \o SchedEnd /\ Steps(s) = {"eflags", "xchg", "release"}
  /\ \E s \in Code : SleepCode = s \o TakeEnd
  /\ \E s \in Code : SleepCode = s \o FreeEnd /\ "locked = 0" \notin Steps(s)
  /\ acquiresleep \o releasesleep = TakeEnd
<1> DEFINE a == acquire("ptable")
           d == release("slk")
           s == sched("SLEEPING")
           q == release("ptable")
           b == acquire("slk")
           w == <<<<"while locked">>>>
           x == sleep("slk")
           ad == a \o d
           ads == ad \o s
           adsq == ads \o q
<1>1. <<"while locked">> \in Instr /\ <<"while locked">>[1] = "while locked"
  BY SomeInstr
<1>2. /\ a \in Code /\ d \in Code /\ s \in Code /\ q \in Code /\ b \in Code /\ w \in Code
      /\ Steps(a) = {"eflags", "xchg"} /\ Steps(d) = {"release"} /\ Steps(s) = {"sched"}
      /\ Steps(q) = {"release"} /\ Steps(b) = {"eflags", "xchg"} /\ Steps(w) = {"while locked"}
  BY <1>1, StepsOf, AcquireIs, LockNames
<1>3. /\ AfterEnd \in Code /\ TestEnd \in Code /\ TakeEnd \in Code /\ WokenEnd \in Code /\ SchedEnd \in Code
      /\ TestEnd = w \o AfterEnd /\ TakeEnd = b \o TestEnd /\ WokenEnd = q \o TakeEnd /\ SchedEnd = s \o WokenEnd
  BY SleepFine DEF TestEnd, TakeEnd, WokenEnd, SchedEnd
<1>4. x = adsq \o b /\ SleepCode = (x \o w) \o AfterEnd
  BY DEF sleep, SleepCode, AfterEnd
<1>5. AfterEnd = d \o releasesleep /\ releasesleep = b \o FreeEnd /\ FreeEnd \in Code /\ releasesleep \in Code
  BY ReleasesleepFine DEF AfterEnd, Fine
<1>6. acquiresleep = (b \o w) \o d
  BY DEF acquiresleep
<1> HIDE DEF a, d, s, q, b, w, x
<1>7. /\ ad \in Code /\ Steps(ad) = {"eflags", "xchg", "release"}
  <2>1. a \in Code /\ d \in Code
    BY <1>2
  <2>2. a \o d \in Code /\ Steps(a \o d) = Steps(a) \cup Steps(d)
    BY <2>1, Both, StepsCat
  <2> QED
    BY <1>2, <2>2
<1> HIDE DEF ad
<1>8. ads \in Code /\ Steps(ads) = {"eflags", "xchg", "release", "sched"}
  <2>1. ad \in Code /\ s \in Code
    BY <1>2, <1>7
  <2>2. ad \o s \in Code /\ Steps(ad \o s) = Steps(ad) \cup Steps(s)
    BY <2>1, Both, StepsCat
  <2> QED
    BY <1>2, <1>7, <2>2
<1> HIDE DEF ads
<1>9. adsq \in Code /\ Steps(adsq) = {"eflags", "xchg", "release", "sched"}
  <2>1. ads \in Code /\ q \in Code
    BY <1>2, <1>8
  <2>2. ads \o q \in Code /\ Steps(ads \o q) = Steps(ads) \cup Steps(q)
    BY <2>1, Both, StepsCat
  <2> QED
    BY <1>2, <1>8, <2>2
<1> HIDE DEF adsq
<1>10. x \in Code /\ Steps(x) = {"eflags", "xchg", "release", "sched"}
  <2>1. adsq \in Code /\ b \in Code
    BY <1>2, <1>9
  <2>2. adsq \o b \in Code /\ Steps(adsq \o b) = Steps(adsq) \cup Steps(b)
    BY <2>1, Both, StepsCat
  <2> QED
    BY <1>2, <1>4, <1>9, <2>2
<1>11. SleepCode = x \o TestEnd
  <2>10. x \in Code /\ w \in Code /\ AfterEnd \in Code
    BY <1>2, <1>3, <1>10
  <2>1. (x \o w) \o AfterEnd = x \o (w \o AfterEnd)
    <3>1. Join(Join(x, w), AfterEnd) = Join(x, Join(w, AfterEnd))
      BY <2>10, JoinAssoc
    <3> QED
      BY <3>1 DEF Join
  <2> QED
    BY <1>3, <1>4, <2>1
<1>12. SleepCode = adsq \o TakeEnd
  <2>10. adsq \in Code /\ b \in Code /\ TestEnd \in Code
    BY <1>2, <1>3, <1>9
  <2>1. (adsq \o b) \o TestEnd = adsq \o (b \o TestEnd)
    <3>1. Join(Join(adsq, b), TestEnd) = Join(adsq, Join(b, TestEnd))
      BY <2>10, JoinAssoc
    <3> QED
      BY <3>1 DEF Join
  <2> QED
    BY <1>3, <1>4, <1>11, <2>1
<1>13. SleepCode = ads \o WokenEnd
  <2>10. ads \in Code /\ q \in Code /\ TakeEnd \in Code
    BY <1>2, <1>3, <1>8
  <2>1. (ads \o q) \o TakeEnd = ads \o (q \o TakeEnd)
    <3>1. Join(Join(ads, q), TakeEnd) = Join(ads, Join(q, TakeEnd))
      BY <2>10, JoinAssoc
    <3> QED
      BY <3>1 DEF Join
  <2> QED
    BY <1>3, <1>12, <2>1 DEF adsq
<1>14. SleepCode = ad \o SchedEnd
  <2>10. ad \in Code /\ s \in Code /\ WokenEnd \in Code
    BY <1>2, <1>3, <1>7
  <2>1. (ad \o s) \o WokenEnd = ad \o (s \o WokenEnd)
    <3>1. Join(Join(ad, s), WokenEnd) = Join(ad, Join(s, WokenEnd))
      BY <2>10, JoinAssoc
    <3> QED
      BY <3>1 DEF Join
  <2> QED
    BY <1>3, <1>13, <2>1 DEF ads
<1>15. SleepCode = a \o (d \o SchedEnd)
  <2>10. a \in Code /\ d \in Code /\ SchedEnd \in Code
    BY <1>2, <1>3
  <2>1. (a \o d) \o SchedEnd = a \o (d \o SchedEnd)
    <3>1. Join(Join(a, d), SchedEnd) = Join(a, Join(d, SchedEnd))
      BY <2>10, JoinAssoc
    <3> QED
      BY <3>1 DEF Join
  <2> QED
    BY <1>14, <2>1 DEF ad
<1>16. Fine(d \o SchedEnd) /\ HeldBy(d \o SchedEnd) = {"ptable", "slk"}
  <2>1. Fine(SchedEnd) /\ HeldBy(SchedEnd) = {"ptable"} /\ "slk" \notin HeldBy(SchedEnd)
    BY SleepFine
  <2>2. Fine(release("slk") \o SchedEnd) /\ HeldBy(release("slk") \o SchedEnd) = HeldBy(SchedEnd) \cup {"slk"}
    BY <2>1, ReleaseFine, LockNames
  <2> QED
    BY <2>1, <2>2 DEF d
<1>17. Fine(SleepCode) /\ HeldBy(SleepCode) = {"slk"}
  <2> DEFINE z == d \o SchedEnd
  <2>1. Fine(z) /\ HeldBy(z) = {"ptable", "slk"} /\ SleepCode = a \o z
    BY <1>15, <1>16
  <2> HIDE DEF z
  <2>2. "ptable" \in HeldBy(z)
    BY <2>1
  <2>3. Fine(acquire("ptable") \o z) /\ HeldBy(acquire("ptable") \o z) = HeldBy(z) \ {"ptable"}
    BY <2>1, <2>2, AcquireFine
  <2> QED
    BY <2>1, <2>3 DEF a
<1>18. acquiresleep \o releasesleep = TakeEnd
  <2>1. b \o w \in Code
    BY <1>2, Both
  <2>20. (b \o w) \in Code /\ d \in Code /\ releasesleep \in Code
    BY <1>2, <1>5, <2>1
  <2>2. ((b \o w) \o d) \o releasesleep = (b \o w) \o (d \o releasesleep)
    <3>1. Join(Join((b \o w), d), releasesleep) = Join((b \o w), Join(d, releasesleep))
      BY <2>20, JoinAssoc
    <3> QED
      BY <3>1 DEF Join
  <2>30. b \in Code /\ w \in Code /\ AfterEnd \in Code
    BY <1>2, <1>3
  <2>3. (b \o w) \o AfterEnd = b \o (w \o AfterEnd)
    <3>1. Join(Join(b, w), AfterEnd) = Join(b, Join(w, AfterEnd))
      BY <2>30, JoinAssoc
    <3> QED
      BY <3>1 DEF Join
  <2> QED
    BY <1>3, <1>5, <1>6, <2>2, <2>3
<1>19. \E p \in Code : SleepCode = p \o FreeEnd /\ "locked = 0" \notin Steps(p)
  <2> DEFINE xw == x \o w
             xwd == xw \o d
             xwdb == xwd \o b
  <2>1. x \in Code /\ w \in Code
    BY <1>2, <1>10
  <2>2. x \o w \in Code /\ Steps(x \o w) = Steps(x) \cup Steps(w)
    BY <2>1, Both, StepsCat
  <2>3. "locked = 0" \notin Steps(xw) /\ SleepCode = xw \o (d \o releasesleep)
    BY <1>2, <1>4, <1>5, <1>10, <2>2
  <2>4. xw \in Code /\ d \in Code /\ releasesleep \in Code
    BY <1>2, <1>5, <2>2
  <2> HIDE DEF xw
  <2>5. (xw \o d) \o releasesleep = xw \o (d \o releasesleep)
    <3>1. Join(Join(xw, d), releasesleep) = Join(xw, Join(d, releasesleep))
      BY <2>4, JoinAssoc
    <3> QED
      BY <3>1 DEF Join
  <2>6. xw \o d \in Code /\ Steps(xw \o d) = Steps(xw) \cup Steps(d)
    BY <2>4, Both, StepsCat
  <2>7. "locked = 0" \notin Steps(xwd) /\ SleepCode = xwd \o (b \o FreeEnd)
    BY <1>2, <1>5, <2>3, <2>5, <2>6
  <2>8. xwd \in Code /\ b \in Code /\ FreeEnd \in Code
    BY <1>2, <1>5, <2>6
  <2> HIDE DEF xwd
  <2>9. (xwd \o b) \o FreeEnd = xwd \o (b \o FreeEnd)
    <3>1. Join(Join(xwd, b), FreeEnd) = Join(xwd, Join(b, FreeEnd))
      BY <2>8, JoinAssoc
    <3> QED
      BY <3>1 DEF Join
  <2>10. xwd \o b \in Code /\ Steps(xwd \o b) = Steps(xwd) \cup Steps(b)
    BY <2>8, Both, StepsCat
  <2>11. "locked = 0" \notin Steps(xwdb) /\ SleepCode = xwdb \o FreeEnd /\ xwdb \in Code
    BY <1>2, <2>7, <2>9, <2>10
  <2> QED
    BY <2>11
<1>20. \E p \in Code : SleepCode = p \o SchedEnd /\ Steps(p) = {"eflags", "xchg", "release"}
  BY <1>7, <1>14
<1>21. \E p \in Code : SleepCode = p \o TakeEnd
  BY <1>9, <1>12
<1> QED
  BY <1>4, <1>10, <1>11, <1>17, <1>18, <1>19, <1>20, <1>21 DEF x, w

\* forkret(): nothing but the release of ptable.lock.
LEMMA ForkretFine ==
  /\ Fine(forkret) /\ HeldBy(forkret) = {"ptable"} /\ Steps(forkret) = {"release"}
  /\ forkret # <<>> /\ forkret[1] = <<"release", "ptable">>
BY ReleaseLast, StepsOf, LockNames DEF forkret

\* Where the code of a sleep-lock sleeps, tests, and clears the flag.
LEMMA SleepPlaces ==
  ASSUME NEW k \in Left(SleepCode), k # <<>>
  PROVE  /\ k[1][1] = "while locked" => /\ k = TestEnd /\ Tail(k) = AfterEnd
                                        /\ (sleep("slk") \o <<k[1]>>) \o Tail(k) = SleepCode
         /\ k[1][1] = "locked = 0" => k = FreeEnd /\ Tail(k) = WakeEnd
         /\ k[1][1] = "sched" => k = SchedEnd /\ Tail(k) = WokenEnd
<1>1. ASSUME k[1][1] = "while locked"
      PROVE  k = TestEnd /\ Tail(k) = AfterEnd /\ (sleep("slk") \o <<k[1]>>) \o Tail(k) = SleepCode
  <2> DEFINE op == <<"while locked">>
  <2>1. op \in Instr /\ op[1] = "while locked"
    BY SomeInstr
  <2>2. /\ sleep("slk") \in Code /\ AfterEnd \in Code /\ "while locked" \notin Steps(sleep("slk"))
        /\ "while locked" \notin Steps(AfterEnd)
        /\ SleepCode = sleep("slk") \o (<<op>> \o AfterEnd)
        /\ SleepCode = (sleep("slk") \o <<op>>) \o AfterEnd
    BY SleepCuts, SleepFine DEF TestEnd
  <2>3. TestEnd = <<op>> \o AfterEnd
    BY DEF TestEnd
  <2> HIDE DEF op
  <2>4. k \in Left(sleep("slk") \o (<<op>> \o AfterEnd))
    BY <2>2
  <2>5. k = <<op>> \o AfterEnd /\ k[1] = op /\ Tail(k) = AfterEnd
    <3>1. /\ sleep("slk") \in Code /\ op \in Instr /\ AfterEnd \in Code /\ op[1] \notin Steps(sleep("slk")) /\ op[1] \notin Steps(AfterEnd)
          /\ k \in Left(sleep("slk") \o (<<op>> \o AfterEnd)) /\ k[1][1] = op[1]
      BY <1>1, <2>1, <2>2, <2>4
    <3> QED
      BY <3>1, OnlyAt
  <2> QED
    BY <2>2, <2>3, <2>5
<1>2. ASSUME k[1][1] = "locked = 0"
      PROVE  k = FreeEnd /\ Tail(k) = WakeEnd
  <2> DEFINE op == <<"locked = 0">>
  <2>1. op \in Instr /\ op[1] = "locked = 0"
    BY SomeInstr
  <2>2. PICK s \in Code : SleepCode = s \o FreeEnd /\ "locked = 0" \notin Steps(s)
    BY SleepCuts
  <2>3. FreeEnd = <<op>> \o WakeEnd /\ WakeEnd \in Code /\ "locked = 0" \notin Steps(WakeEnd)
    BY ReleasesleepFine DEF FreeEnd
  <2> HIDE DEF op
  <2>4. k \in Left(s \o (<<op>> \o WakeEnd))
    BY <2>2, <2>3
  <2>5. k = <<op>> \o WakeEnd /\ k[1] = op /\ Tail(k) = WakeEnd
    <3>1. /\ s \in Code /\ op \in Instr /\ WakeEnd \in Code /\ op[1] \notin Steps(s) /\ op[1] \notin Steps(WakeEnd)
          /\ k \in Left(s \o (<<op>> \o WakeEnd)) /\ k[1][1] = op[1]
      BY <1>2, <2>1, <2>2, <2>3, <2>4
    <3> QED
      BY <3>1, OnlyAt
  <2> QED
    BY <2>3, <2>5
<1>3. ASSUME k[1][1] = "sched"
      PROVE  k = SchedEnd /\ Tail(k) = WokenEnd
  <2> DEFINE op == <<"sched", "SLEEPING">>
  <2>1. op \in Instr /\ op[1] = "sched"
    BY SomeInstr
  <2>2. PICK s \in Code : SleepCode = s \o SchedEnd /\ Steps(s) = {"eflags", "xchg", "release"}
    BY SleepCuts
  <2>3. SchedEnd = <<op>> \o WokenEnd /\ WokenEnd \in Code /\ "sched" \notin Steps(WokenEnd)
    <3>1. SchedEnd = <<op>> \o WokenEnd
      BY DEF SchedEnd, sched
    <3>2. WokenEnd \in Code /\ Steps(WokenEnd) = {"while locked"} \cup Steps(AfterEnd)
      BY SleepFine
    <3>3. "sched" \notin Steps(AfterEnd)
      BY SleepFine
    <3> QED
      BY <3>1, <3>2, <3>3
  <2> HIDE DEF op
  <2>4. k \in Left(s \o (<<op>> \o WokenEnd))
    BY <2>2, <2>3
  <2>5. "sched" \notin Steps(s)
    BY <2>2
  <2>6. k = <<op>> \o WokenEnd /\ k[1] = op /\ Tail(k) = WokenEnd
    <3>1. /\ s \in Code /\ op \in Instr /\ WokenEnd \in Code /\ op[1] \notin Steps(s) /\ op[1] \notin Steps(WokenEnd)
          /\ k \in Left(s \o (<<op>> \o WokenEnd)) /\ k[1][1] = op[1]
      BY <1>3, <2>1, <2>2, <2>3, <2>4, <2>5
    <3> QED
      BY <3>1, OnlyAt
  <2> QED
    BY <2>3, <2>6
<1> QED
  BY <1>1, <1>2, <1>3

-----------------------------------------------------------------------------
(* What a thread can have left, step by step                               *)

\* A set of codes that each keep their word, in which the rest of a code is one too.
LEMMA KindFacts ==
  ASSUME NEW C, Fine(C), NEW k \in Left(C) \cup Begun(C)
  PROVE  /\ k \in Code /\ Good(k) /\ Steps(k) \subseteq Steps(C) \cup {"cli"}
         /\ k \in Begun(C) => k # <<>> /\ k[1][1] = "cli" /\ Tail(k) # <<>>
         /\ k # <<>> => /\ Tail(k) \in Left(C) /\ k[1] \in Instr /\ k[1][1] \in Steps(C) \cup {"cli"}
                        /\ k[1][1] = "eflags" => <<<<"cli", k[1][2]>>>> \o Tail(k) \in Begun(C) \/ k \in Begun(C)
<1>1. CASE k \in Begun(C)
  BY <1>1, BegunFine
<1>2. CASE k \notin Begun(C)
  <2>1. k \in Left(C)
    BY <1>2
  <2> QED
    BY <1>2, <2>1, LeftFine
<1> QED
  BY <1>1, <1>2

\* What a process has left, in a system call or in forkret.
LEMMA CallNext ==
  ASSUME NEW k \in CallCodes
  PROVE  /\ k \in Code /\ Good(k)
         /\ k # <<>> =>
              /\ Tail(k) \in CallCodes /\ k[1] \in Instr
              /\ k[1][1] \in {"eflags", "cli", "xchg", "release", "sched", "wakeup1", "while locked", "locked = 0"}
              /\ k[1][1] = "eflags" => <<<<"cli", k[1][2]>>>> \o Tail(k) \in CallCodes
              /\ k[1][1] \in {"while locked", "locked = 0", "sched"} => k \in Left(SleepCode)
<1> DEFINE S == {"eflags", "xchg", "release", "sched", "wakeup1", "while locked", "locked = 0"}
<1>1. Fine(SleepCode) /\ Steps(SleepCode) \subseteq S
  <2>1. Steps(SleepCode) = Steps(sleep("slk")) \cup Steps(TestEnd)
    BY SleepCuts, SleepFine, StepsCat
  <2>2. Steps(TestEnd) = {"while locked"} \cup {"release", "eflags", "xchg", "locked = 0", "wakeup1"}
    BY SleepFine
  <2>3. Steps(sleep("slk")) = {"eflags", "xchg", "release", "sched"} /\ Fine(SleepCode)
    BY SleepCuts
  <2> QED
    BY <2>1, <2>2, <2>3
<1>2. Fine(sys_uptime) /\ Steps(sys_uptime) = {"eflags", "xchg", "release"}
  BY UptimeFine
<1>3. Fine(forkret) /\ Steps(forkret) = {"release"}
  BY ForkretFine
<1>4. CASE k \in Left(SleepCode) \cup Begun(SleepCode)
  <2>1. /\ k \in Code /\ Good(k)
        /\ k \in Begun(SleepCode) => k # <<>> /\ k[1][1] = "cli" /\ Tail(k) # <<>>
        /\ k # <<>> => /\ Tail(k) \in Left(SleepCode) /\ k[1] \in Instr /\ k[1][1] \in S \cup {"cli"}
                       /\ k[1][1] = "eflags" => <<<<"cli", k[1][2]>>>> \o Tail(k) \in Begun(SleepCode) \/ k \in Begun(SleepCode)
    BY <1>1, <1>4, KindFacts
  <2> HIDE DEF S
  <2>2. "cli" \notin {"while locked", "locked = 0", "sched"} /\ "cli" # "eflags"
    OBVIOUS
  <2> QED
    BY <1>4, <2>1, <2>2 DEF CallCodes, S
<1>5. CASE k \in Left(sys_uptime) \cup Begun(sys_uptime)
  <2>1. /\ k \in Code /\ Good(k)
        /\ k \in Begun(sys_uptime) => k # <<>> /\ k[1][1] = "cli" /\ Tail(k) # <<>>
        /\ k # <<>> => /\ Tail(k) \in Left(sys_uptime) /\ k[1] \in Instr /\ k[1][1] \in {"eflags", "xchg", "release", "cli"}
                       /\ k[1][1] = "eflags" => <<<<"cli", k[1][2]>>>> \o Tail(k) \in Begun(sys_uptime) \/ k \in Begun(sys_uptime)
    BY <1>2, <1>5, KindFacts
  <2> QED
    BY <2>1 DEF CallCodes
<1>6. CASE k \in Left(forkret)
  <2>1. /\ k \in Code /\ Good(k)
        /\ k # <<>> => /\ Tail(k) \in Left(forkret) /\ k[1] \in Instr /\ k[1][1] \in {"release"}
    BY <1>3, <1>6, LeftFine
  <2> QED
    BY <2>1 DEF CallCodes
<1> QED
  BY <1>4, <1>5, <1>6 DEF CallCodes

\* What a handler has left.
LEMMA HandlerNext ==
  ASSUME NEW k \in HandlerCodes
  PROVE  /\ k \in Code /\ Good(k) /\ "locked = 0" \notin Steps(k)
         /\ k # <<>> =>
              /\ Tail(k) \in HandlerCodes /\ k[1] \in Instr
              /\ k[1][1] \in {"eflags", "xchg", "release", "sched", "wakeup1", "if myproc yield"}
              /\ k[1][1] = "if myproc yield" => HeldBy(k) = {} /\ Tail(k) = <<>>
<1>1. Fine(TimerCode) /\ Steps(TimerCode) = {"eflags", "xchg", "wakeup1", "release", "if myproc yield"}
  BY TimerFine
<1>2. Fine(yield) /\ Steps(yield) = {"eflags", "xchg", "sched", "release"}
  BY YieldFine
<1>3. CASE k \in Left(TimerCode)
  <2>1. /\ k \in Code /\ Good(k) /\ Steps(k) \subseteq Steps(TimerCode)
        /\ k # <<>> => Tail(k) \in Left(TimerCode) /\ k[1] \in Instr /\ k[1][1] \in Steps(TimerCode)
    BY <1>1, <1>3, LeftFine
  <2>2. ASSUME k # <<>>, k[1][1] = "if myproc yield"
        PROVE  HeldBy(k) = {} /\ Tail(k) = <<>>
    <3> DEFINE op == <<"if myproc yield">>
    <3>1. op \in Instr /\ op[1] = "if myproc yield"
      BY SomeInstr
    <3>2. PICK s \in Code : TimerCode = s \o (<<op>> \o <<>>) /\ op[1] \notin Steps(s)
      BY TimerCut
    <3>3. <<>> \in Code /\ op[1] \notin Steps(<<>>) /\ HeldBy(<<>>) = {}
      BY StepsOf, EmptyHolds
    <3> HIDE DEF op
    <3> DEFINE t == <<>>
    <3>4. /\ s \in Code /\ op \in Instr /\ t \in Code /\ op[1] \notin Steps(s) /\ op[1] \notin Steps(t)
          /\ k \in Left(s \o (<<op>> \o t)) /\ k # <<>> /\ k[1][1] = op[1]
      BY <1>3, <2>2, <3>1, <3>2, <3>3
    <3>5. Tail(k) = t
      <4> HIDE DEF t
      <4> QED
        BY <3>4, OnlyAt
    <3>6. HeldBy(k) = HeldBy(Tail(k))
      BY <2>1, <2>2, HeldStep
    <3> QED
      BY <3>3, <3>5, <3>6
  <2> QED
    BY <1>1, <2>1, <2>2 DEF HandlerCodes
<1>4. CASE k \in Left(yield)
  <2>1. /\ k \in Code /\ Good(k) /\ Steps(k) \subseteq Steps(yield)
        /\ k # <<>> => Tail(k) \in Left(yield) /\ k[1] \in Instr /\ k[1][1] \in Steps(yield)
    BY <1>2, <1>4, LeftFine
  <2> QED
    BY <1>2, <2>1 DEF HandlerCodes
<1> QED
  BY <1>3, <1>4 DEF HandlerCodes

\* What a scheduler has left.
LEMMA LoopNext ==
  ASSUME NEW k \in LoopCodes
  PROVE  /\ k \in Code /\ Good(k) /\ k # <<>> /\ k[1] \in Instr
         /\ k[1][1] \in {"eflags", "cli", "xchg", "release", "sti", "pick"}
         /\ k[1][1] # "pick" => Tail(k) \in LoopCodes
         /\ k[1][1] = "pick" => HeldBy(k) = {"ptable"} /\ Tail(k) = <<>> /\ k[1][2] \in Nat
         /\ k[1][1] = "sti" => HeldBy(k) = {}
         /\ k[1][1] = "eflags" => <<<<"cli", k[1][2]>>>> \o Tail(k) \in LoopCodes
<1>1. CASE k \in {<<<<"pick", n>>>> : n \in Nat}
  <2>1. PICK n \in Nat : k = <<<<"pick", n>>>>
    BY <1>1
  <2>2. /\ Fine(k) /\ HeldBy(k) = {"ptable"} /\ k # <<>> /\ k[1] = <<"pick", n>> /\ Tail(k) = <<>>
    BY <2>1, PickFine
  <2>3. k \in Code /\ Good(k)
    <3>1. k \in Code
      BY <2>2 DEF Fine
    <3>2. <<>> \in Code /\ k = <<>> \o k
      BY <3>1, EmptyHolds, Alone
    <3>3. k \in Left(<<>> \o k)
      BY <3>1, <3>2, EndLeft
    <3> QED
      BY <2>2, <3>1, <3>2, <3>3 DEF Fine
  <2>4. k[1] \in Instr /\ k[1][1] = "pick" /\ k[1][2] = n
    <3> DEFINE op == <<"pick", n>>
    <3>1. op \in Instr /\ op[1] = "pick" /\ op[2] = n
      BY SomeInstr
    <3>2. k[1] = op
      BY <2>2
    <3> QED
      BY <3>1, <3>2
  <2> QED
    BY <2>2, <2>3, <2>4
<1>2. CASE k \in (Left(RoundCode) \cup Begun(RoundCode)) \ {<<>>}
  <2>1. Fine(RoundCode) /\ Steps(RoundCode) = {"release", "sti", "eflags", "xchg", "pick"}
    BY RoundFine
  <2>2. /\ k \in Code /\ Good(k) /\ k # <<>>
        /\ k \in Begun(RoundCode) => k[1][1] = "cli"
        /\ Tail(k) \in Left(RoundCode) /\ k[1] \in Instr /\ k[1][1] \in {"eflags", "cli", "xchg", "release", "sti", "pick"}
        /\ k[1][1] = "eflags" => <<<<"cli", k[1][2]>>>> \o Tail(k) \in Begun(RoundCode) \/ k \in Begun(RoundCode)
    BY <1>2, <2>1, KindFacts
  <2>3. ASSUME k[1][1] = "pick"
        PROVE  HeldBy(k) = {"ptable"} /\ Tail(k) = <<>> /\ k[1][2] \in Nat
    <3>1. Tail(k) = <<>>
      BY <2>2, <2>3 DEF Good
    <3>2. HeldBy(k) = HeldBy(Tail(k)) \cup {"ptable"}
      BY <2>2, <2>3, HeldStep
    <3> QED
      BY <2>2, <2>3, <3>1, <3>2, EmptyHolds, InstrFacts
  <2>4. ASSUME k[1][1] = "sti"
        PROVE  HeldBy(k) = {} /\ Tail(k) # <<>>
    <3>1. PICK s \in Code, t \in Code : /\ RoundCode = s \o (<<<<"sti">>>> \o t) /\ "sti" \notin Steps(s) \cup Steps(t)
                                        /\ HeldBy(t) = {} /\ t # <<>>
      BY RoundCuts
    <3> DEFINE op == <<"sti">>
    <3>2. op \in Instr /\ op[1] = "sti"
      BY SomeInstr
    <3> HIDE DEF op
    <3>3. k \in Left(s \o (<<op>> \o t)) /\ k[1][1] = op[1] /\ op[1] \notin Steps(s) /\ op[1] \notin Steps(t)
      <4>1. k \notin Begun(RoundCode)
        BY <2>2, <2>4
      <4> QED
        BY <1>2, <2>4, <3>1, <3>2, <4>1 DEF op
    <3>4. Tail(k) = t
      BY <2>2, <3>2, <3>3, OnlyAt
    <3>5. HeldBy(k) = HeldBy(Tail(k))
      BY <2>2, <2>4, HeldStep
    <3> QED
      BY <3>1, <3>4, <3>5
  <2>5. ASSUME k[1][1] = "release"
        PROVE  Tail(k) # <<>>
    <3>1. PICK t \in Code : RoundCode = <<>> \o (<<<<"release", "ptable">>>> \o t) /\ "release" \notin Steps(t) /\ t # <<>>
      BY RoundCuts
    <3> DEFINE op == <<"release", "ptable">>
    <3>2. op \in Instr /\ op[1] = "release"
      BY SomeInstr, LockNames
    <3> HIDE DEF op
    <3> DEFINE s == <<>>
    <3>3. /\ s \in Code /\ op \in Instr /\ t \in Code /\ op[1] \notin Steps(s) /\ op[1] \notin Steps(t)
          /\ k \in Left(s \o (<<op>> \o t)) /\ k # <<>> /\ k[1][1] = op[1]
      <4>1. k \notin Begun(RoundCode)
        BY <2>2, <2>5
      <4>2. Steps(<<>>) = {} /\ <<>> \in Code
        BY StepsOf
      <4>3. k \in Left(<<>> \o (<<op>> \o t))
        BY <1>2, <3>1, <4>1 DEF op
      <4> QED
        BY <2>2, <2>5, <3>1, <3>2, <4>2, <4>3
    <3>4. Tail(k) = t
      <4> HIDE DEF s
      <4> QED
        BY <3>3, OnlyAt
    <3> QED
      BY <3>1, <3>4
  <2>6. ASSUME k[1][1] # "pick"
        PROVE  Tail(k) # <<>>
    <3>1. CASE k[1][1] \in {"eflags", "cli"}
      BY <2>2, <3>1 DEF Good
    <3>2. CASE k[1][1] = "xchg"
      <4>1. k[1][2] \in HeldBy(Tail(k))
        BY <2>2, <3>2 DEF Good
      <4> QED
        BY <4>1, EmptyHolds
    <3> QED
      BY <2>2, <2>4, <2>5, <2>6, <3>1, <3>2
  <2> QED
    BY <2>2, <2>3, <2>4, <2>6 DEF LoopCodes
<1> QED
  BY <1>1, <1>2 DEF LoopCodes

-----------------------------------------------------------------------------
(* How deep a code is                                                      *)

\* The depth of a code is a number, at least that of the locks it is run with.
LEMMA DepthFacts ==
  ASSUME NEW k \in Code
  PROVE  /\ HeldBy(k) \subseteq Locks /\ IsFiniteSet(HeldBy(k)) /\ Cardinality(HeldBy(k)) \in Nat
         /\ Depth(k) \in Nat /\ Cardinality(HeldBy(k)) <= Depth(k)
         /\ Depth(k) = 0 => HeldBy(k) = {}
         /\ ~At(k, "xchg") => Depth(k) = Cardinality(HeldBy(k))
         /\ At(k, "xchg") => Depth(k) = Cardinality(HeldBy(k)) + 1
         /\ HeldBy(k) = {} /\ ~At(k, "xchg") => Depth(k) = 0
<1>1. IsFiniteSet(Locks)
  <2>1. IsFiniteSet({"ptable"})
    BY FS_Singleton
  <2>2. IsFiniteSet({"ptable"} \cup {"ticks"})
    BY <2>1, FS_AddElement
  <2>3. IsFiniteSet(({"ptable"} \cup {"ticks"}) \cup {"slk"})
    BY <2>2, FS_AddElement
  <2>4. Locks = ({"ptable"} \cup {"ticks"}) \cup {"slk"}
    BY DEF Locks
  <2> QED
    BY <2>3, <2>4
<1>2. HeldBy(k) \subseteq Locks
  BY DEF HeldBy
<1>3. IsFiniteSet(HeldBy(k))
  BY <1>1, <1>2, FS_Subset
<1>4. Cardinality(HeldBy(k)) \in Nat
  BY <1>3, FS_CardinalityType
<1>5. HeldBy(k) = {} <=> Cardinality(HeldBy(k)) = 0
  BY <1>3, FS_EmptySet
<1>6. ~At(k, "xchg") => Depth(k) = Cardinality(HeldBy(k))
  BY <1>4 DEF Depth
<1>7. At(k, "xchg") => Depth(k) = Cardinality(HeldBy(k)) + 1
  BY <1>4 DEF Depth
<1> HIDE DEF Depth, HeldBy, At
<1> QED
  BY <1>2, <1>3, <1>4, <1>5, <1>6, <1>7

\* One lock, one deep.
LEMMA DepthOne ==
  ASSUME NEW k \in Code, HeldBy(k) = {"ptable"}, ~At(k, "xchg")
  PROVE  Depth(k) = 1
<1>1. Cardinality({"ptable"}) = 1
  BY FS_Singleton
<1> QED
  BY <1>1, DepthFacts

\* What each step of a code that keeps its word does to its locks and its depth.
LEMMA DepthStep ==
  ASSUME NEW k \in Code, k # <<>>, k[1] \in Instr, Good(k)
  PROVE  /\ k[1][1] \in {"eflags", "cli"} =>
              /\ HeldBy(Tail(k)) = HeldBy(k) /\ Depth(Tail(k)) = Depth(k) + 1
              /\ k[1][2] \in Locks /\ k[1][2] \notin HeldBy(k)
         /\ k[1][1] = "xchg" =>
              /\ HeldBy(Tail(k)) = HeldBy(k) \cup {k[1][2]} /\ Depth(Tail(k)) = Depth(k)
              /\ k[1][2] \in Locks
         /\ k[1][1] = "release" =>
              /\ HeldBy(Tail(k)) = HeldBy(k) \ {k[1][2]} /\ Depth(Tail(k)) = Depth(k) - 1
              /\ Depth(k) # 0 /\ k[1][2] \in Locks /\ k[1][2] \in HeldBy(k)
         /\ k[1][1] \in {"sched", "pick"} => HeldBy(k) = {"ptable"} \cup HeldBy(Tail(k))
         /\ k[1][1] \notin {"eflags", "cli", "xchg", "release", "pick"} =>
              HeldBy(Tail(k)) = HeldBy(k) /\ Depth(Tail(k)) = Depth(k)
<1> DEFINE op == k[1]
           r == Tail(k)
<1>1. /\ r \in Code /\ op \in Instr
      /\ op[1] \in {"eflags", "cli", "xchg", "release"} => op[2] \in Locks /\ op = <<op[1], op[2]>>
  BY CodeFacts, InstrFacts
<1>2. At(k, "xchg") <=> op[1] = "xchg"
  BY DEF At
<1>3. /\ op[1] \in {"eflags", "cli"} => r # <<>> /\ r[1] = <<"xchg", op[2]>>
      /\ op[1] \notin {"eflags", "cli"} => ~At(r, "xchg")
      /\ op[1] = "xchg" => op[2] \in HeldBy(r)
      /\ op[1] = "release" => op[2] \notin HeldBy(r)
      /\ op[1] = "sched" => HeldBy(k) = {"ptable"}
  BY DEF Good
<1>4. /\ \A l \in Locks : op = <<"release", l>> => HeldBy(k) = HeldBy(r) \cup {l}
      /\ \A l \in Locks : op = <<"xchg", l>> => HeldBy(k) = HeldBy(r) \ {l}
      /\ op[1] = "pick" => HeldBy(k) = HeldBy(r) \cup {"ptable"}
      /\ op[1] \notin {"release", "xchg", "pick"} => HeldBy(k) = HeldBy(r)
  BY HeldStep
<1>5. /\ HeldBy(k) \subseteq Locks /\ IsFiniteSet(HeldBy(k)) /\ Cardinality(HeldBy(k)) \in Nat
      /\ Depth(k) \in Nat
      /\ ~At(k, "xchg") => Depth(k) = Cardinality(HeldBy(k))
      /\ At(k, "xchg") => Depth(k) = Cardinality(HeldBy(k)) + 1
  BY DepthFacts
<1>6. /\ HeldBy(r) \subseteq Locks /\ IsFiniteSet(HeldBy(r)) /\ Cardinality(HeldBy(r)) \in Nat
      /\ Depth(r) \in Nat
      /\ ~At(r, "xchg") => Depth(r) = Cardinality(HeldBy(r))
      /\ At(r, "xchg") => Depth(r) = Cardinality(HeldBy(r)) + 1
  BY <1>1, DepthFacts
<1>7. ASSUME NEW A, IsFiniteSet(A), NEW l, l \notin A
      PROVE  Cardinality(A \cup {l}) = Cardinality(A) + 1
  BY <1>7, FS_AddElement
<1> HIDE DEF op, r
<1>8. CASE op[1] \in {"eflags", "cli"}
  <2>1. HeldBy(r) = HeldBy(k)
    BY <1>4, <1>8
  <2>2. At(r, "xchg")
    <3> DEFINE x == <<"xchg", op[2]>>
    <3>1. x[1] = "xchg"
      OBVIOUS
    <3>2. r # <<>> /\ r[1] = x
      BY <1>3, <1>8
    <3> QED
      BY <3>1, <3>2 DEF At
  <2>3. op[2] \in Locks /\ op[2] \notin HeldBy(r)
    <3>1. op[2] \in Locks
      BY <1>1, <1>8
    <3>2. HeldBy(r) = HeldBy(Tail(r)) \ {op[2]}
      BY <1>1, <1>3, <1>8, <3>1, HeldStep
    <3> QED
      BY <3>1, <3>2
  <2>4. ~At(k, "xchg") /\ Depth(r) = Depth(k) + 1
    BY <1>2, <1>5, <1>6, <1>8, <2>1, <2>2
  <2> QED
    BY <1>8, <2>1, <2>3, <2>4 DEF op, r
<1>9. CASE op[1] = "xchg"
  <2>1. op[2] \in Locks /\ op[2] \in HeldBy(r) /\ HeldBy(k) = HeldBy(r) \ {op[2]}
    BY <1>1, <1>3, <1>4, <1>9
  <2>2. HeldBy(r) = HeldBy(k) \cup {op[2]} /\ op[2] \notin HeldBy(k)
    BY <2>1
  <2>3. Cardinality(HeldBy(r)) = Cardinality(HeldBy(k)) + 1
    BY <1>5, <1>7, <2>2
  <2>4. Depth(r) = Depth(k)
    BY <1>2, <1>3, <1>5, <1>6, <1>9, <2>3
  <2> QED
    BY <1>9, <2>1, <2>2, <2>4 DEF op, r
<1>10. CASE op[1] = "release"
  <2>1. op[2] \in Locks /\ op[2] \notin HeldBy(r) /\ HeldBy(k) = HeldBy(r) \cup {op[2]}
    BY <1>1, <1>3, <1>4, <1>10
  <2>2. HeldBy(r) = HeldBy(k) \ {op[2]} /\ op[2] \in HeldBy(k)
    BY <2>1
  <2>3. Cardinality(HeldBy(k)) = Cardinality(HeldBy(r)) + 1
    BY <1>6, <1>7, <2>1
  <2>4. Depth(r) = Depth(k) - 1 /\ Depth(k) # 0
    BY <1>2, <1>3, <1>5, <1>6, <1>10, <2>3
  <2> QED
    BY <1>10, <2>1, <2>2, <2>4 DEF op, r
<1>11. CASE op[1] \notin {"eflags", "cli", "xchg", "release"}
  <2>1. op[1] \in {"sched", "pick"} => HeldBy(k) = {"ptable"} \cup HeldBy(r)
    BY <1>3, <1>4, <1>11
  <2>2. op[1] # "pick" => HeldBy(r) = HeldBy(k)
    BY <1>4, <1>11
  <2>3. ~At(k, "xchg") /\ ~At(r, "xchg")
    BY <1>2, <1>3, <1>11
  <2>4. op[1] # "pick" => Depth(r) = Depth(k)
    BY <1>5, <1>6, <2>2, <2>3
  <2> QED
    BY <1>11, <2>1, <2>2, <2>4 DEF op, r
<1> QED
  BY <1>8, <1>9, <1>10, <1>11

-----------------------------------------------------------------------------
(* Codes that threads start with                                           *)

\* What a process starts with, a system call and the code of a sleep-lock.
LEMMA CallStarts ==
  /\ \A k \in {<<>>, sys_uptime, acquiresleep \o releasesleep} :
        k \in CallCodes /\ k \in Code /\ HeldBy(k) = {} /\ Depth(k) = 0
  /\ forkret \in CallCodes /\ forkret \in Code /\ HeldBy(forkret) = {"ptable"}
  /\ SleepCode \in CallCodes /\ SleepCode \in Code /\ HeldBy(SleepCode) = {"slk"} /\ ~At(SleepCode, "xchg")
  /\ "while locked" \in Steps(SleepCode)
<1>1. ASSUME NEW k, Fine(k)
      PROVE  /\ k \in Left(k) /\ <<>> \in Left(k) /\ k \in Code /\ ~At(k, "xchg")
             /\ HeldBy(k) = {} => Depth(k) = 0
  <2>1. k \in Code /\ <<>> \in Code /\ ~At(k, "xchg")
    BY <1>1, EmptyHolds DEF Fine
  <2>2. <<>> \o k = k
    BY <2>1, Alone
  <2>3. k \in Left(<<>> \o k) /\ <<>> \in Left(k)
    BY <2>1, EndLeft
  <2> QED
    BY <2>1, <2>2, <2>3, DepthFacts
<1>2. Fine(sys_uptime) /\ HeldBy(sys_uptime) = {}
  BY UptimeFine
<1>3. Fine(forkret) /\ HeldBy(forkret) = {"ptable"}
  BY ForkretFine
<1>4. Fine(SleepCode) /\ HeldBy(SleepCode) = {"slk"}
  BY SleepCuts
<1>5. TakeEnd \in Left(SleepCode) /\ TakeEnd \in Code /\ Fine(TakeEnd) /\ HeldBy(TakeEnd) = {}
  <2>1. PICK s \in Code : SleepCode = s \o TakeEnd
    BY SleepCuts
  <2>2. TakeEnd \in Code /\ Fine(TakeEnd) /\ HeldBy(TakeEnd) = {}
    BY SleepFine
  <2>3. TakeEnd \in Left(s \o TakeEnd)
    BY <2>2, EndLeft
  <2> QED
    BY <2>1, <2>2, <2>3
<1>6. acquiresleep \o releasesleep = TakeEnd
  BY SleepCuts
<1>7. "while locked" \in Steps(SleepCode)
  <2>1. Steps(SleepCode) = Steps(sleep("slk")) \cup Steps(TestEnd)
    BY SleepCuts, SleepFine, StepsCat
  <2>2. Steps(TestEnd) = {"while locked"} \cup Steps(AfterEnd)
    BY SleepFine
  <2> QED
    BY <2>1, <2>2
<1> HIDE DEF Left, SleepCode, TakeEnd
<1>8. sys_uptime \in CallCodes /\ sys_uptime \in Code /\ Depth(sys_uptime) = 0 /\ <<>> \in CallCodes
  BY <1>1, <1>2 DEF CallCodes
<1>9. TakeEnd \in CallCodes /\ Depth(TakeEnd) = 0
  BY <1>1, <1>5 DEF CallCodes
<1>10. forkret \in CallCodes /\ forkret \in Code
  BY <1>1, <1>3 DEF CallCodes
<1>11. SleepCode \in CallCodes /\ SleepCode \in Code /\ ~At(SleepCode, "xchg")
  BY <1>1, <1>4 DEF CallCodes
<1> QED
  BY <1>2, <1>3, <1>4, <1>5, <1>6, <1>7, <1>8, <1>9, <1>10, <1>11, EmptyHolds

\* What a handler starts with, and what it goes on with when it yields.
LEMMA HandlerStarts ==
  /\ \A c : timer(c) \in HandlerCodes /\ timer(c) \in Code /\ HeldBy(timer(c)) = {} /\ Depth(timer(c)) = 0
  /\ yield \in HandlerCodes /\ yield \in Code /\ HeldBy(yield) = {} /\ Depth(yield) = 0
<1>1. ASSUME NEW c
      PROVE  timer(c) \in HandlerCodes /\ timer(c) \in Code /\ HeldBy(timer(c)) = {} /\ Depth(timer(c)) = 0
  <2>1. timer(c) \in Left(TimerCode) /\ HeldBy(timer(c)) = {} /\ Fine(timer(c))
    BY TimerFine
  <2>2. timer(c) \in Code /\ ~At(timer(c), "xchg")
    BY <2>1 DEF Fine
  <2> QED
    BY <2>1, <2>2, DepthFacts DEF HandlerCodes
<1>2. yield \in HandlerCodes /\ yield \in Code /\ HeldBy(yield) = {} /\ Depth(yield) = 0
  <2>1. Fine(yield) /\ HeldBy(yield) = {}
    BY YieldFine
  <2>2. yield \in Code /\ ~At(yield, "xchg") /\ <<>> \in Code
    BY <2>1, EmptyHolds DEF Fine
  <2>3. <<>> \o yield = yield
    BY <2>2, Alone
  <2>4. yield \in Left(<<>> \o yield)
    BY <2>2, EndLeft
  <2>5. yield \in Left(yield)
    BY <2>3, <2>4
  <2> HIDE DEF yield, Left
  <2> QED
    BY <2>1, <2>2, <2>5, DepthFacts DEF HandlerCodes
<1> QED
  BY <1>1, <1>2

\* What a scheduler starts with and goes round with.
LEMMA LoopStarts ==
  /\ scheduler \in LoopCodes /\ scheduler \in Code /\ HeldBy(scheduler) = {} /\ Depth(scheduler) = 0
  /\ RoundCode \in LoopCodes /\ RoundCode \in Code /\ HeldBy(RoundCode) = {"ptable"} /\ Depth(RoundCode) = 1
  /\ \A n \in Nat : /\ <<<<"pick", n>>>> \in LoopCodes /\ <<<<"pick", n>>>> \in Code
                    /\ HeldBy(<<<<"pick", n>>>>) = {"ptable"} /\ Depth(<<<<"pick", n>>>>) = 1
                    /\ At(<<<<"pick", n>>>>, "pick") /\ Tail(<<<<"pick", n>>>>) = <<>>
<1>1. /\ Fine(RoundCode) /\ HeldBy(RoundCode) = {"ptable"}
      /\ Fine(scheduler) /\ HeldBy(scheduler) = {} /\ scheduler \in Left(RoundCode) /\ scheduler # <<>>
      /\ RoundCode \in Left(RoundCode) /\ RoundCode # <<>>
  BY RoundFine
<1>2. /\ RoundCode \in Code /\ ~At(RoundCode, "xchg")
      /\ scheduler \in Code /\ ~At(scheduler, "xchg")
  BY <1>1 DEF Fine
<1> HIDE DEF RoundCode, scheduler, Left, Begun
<1>3. scheduler \in LoopCodes /\ RoundCode \in LoopCodes
  BY <1>1 DEF LoopCodes
<1>4. ASSUME NEW n \in Nat
      PROVE  /\ <<<<"pick", n>>>> \in LoopCodes /\ <<<<"pick", n>>>> \in Code
             /\ HeldBy(<<<<"pick", n>>>>) = {"ptable"} /\ Depth(<<<<"pick", n>>>>) = 1
             /\ At(<<<<"pick", n>>>>, "pick") /\ Tail(<<<<"pick", n>>>>) = <<>>
  <2> DEFINE k == <<<<"pick", n>>>>
             op == <<"pick", n>>
  <2>1. Fine(k) /\ HeldBy(k) = {"ptable"} /\ k # <<>> /\ k[1] = op /\ Tail(k) = <<>>
    BY PickFine
  <2>2. op[1] = "pick" /\ k \in LoopCodes
    BY DEF LoopCodes
  <2> HIDE DEF k, op
  <2>3. k \in Code /\ ~At(k, "xchg") /\ At(k, "pick")
    BY <2>1, <2>2 DEF Fine, At
  <2>4. Depth(k) = 1
    BY <2>1, <2>3, DepthOne
  <2> QED
    BY <2>1, <2>2, <2>3, <2>4 DEF k
<1> QED
  BY <1>1, <1>2, <1>3, <1>4, DepthFacts, DepthOne

-----------------------------------------------------------------------------
(* Stacks                                                                  *)

Threads == 1..(NPROC + NCPU)

Frames == [code : Codes, handler : BOOLEAN, intena : BOOLEAN]

\* The code a frame of thread t can have left; a handler on a scheduler has no process to yield.
CodesOf(t, f) == IF f.handler THEN IF t \in Procs THEN HandlerCodes ELSE Left(TimerCode)
                 ELSE IF t \in Procs THEN CallCodes ELSE LoopCodes

\* What thread t has of its own: a system call, if any, or the scheduler.
Bases(t) == {z \in {<<>>} \cup {<<f>> : f \in Frames} :
               /\ z = <<>> => t \in Procs
               /\ z # <<>> => ~z[1].handler /\ z[1].code \in CodesOf(t, z[1])}

\* The interrupt it may be in, on top of a base that holds no lock.
Tops(t) == {f \in Frames : f.handler /\ f.code \in CodesOf(t, f)}
Quiet(t) == {b \in Bases(t) : b # <<>> => Depth(b[1].code) = 0}
Hits(t) == UNION {{<<f>> \o b : b \in Quiet(t)} : f \in Tops(t)}
Stacks(t) == Bases(t) \cup Hits(t)

\* One frame on a base.
LEMMA FrameCat ==
  ASSUME NEW f \in Frames, NEW b \in {<<>>} \cup {<<g>> : g \in Frames}
  PROVE  /\ <<f>> \o b \in Seq(Frames) /\ <<f>> \o b # <<>>
         /\ (<<f>> \o b)[1] = f /\ Tail(<<f>> \o b) = b /\ <<f>> \o <<>> = <<f>>
         /\ Len(<<f>> \o b) = Len(b) + 1 /\ Len(b) \in Nat
         /\ \A i \in 1..Len(b) : (<<f>> \o b)[i + 1] = b[i]
<1>1. <<f>> \in Seq(Frames) /\ Len(<<f>>) = 1 /\ <<f>>[1] = f
  OBVIOUS
<1>2. b \in Seq(Frames)
  <2>1. CASE b = <<>>
    BY <2>1
  <2>2. CASE b # <<>>
    <3>1. PICK g \in Frames : b = <<g>>
      BY <2>2
    <3>2. <<g>> \in Seq(Frames)
      OBVIOUS
    <3> QED
      BY <3>1, <3>2
  <2> QED
    BY <2>1, <2>2
<1> DEFINE z == <<f>> \o b
<1>3. /\ z \in Seq(Frames) /\ Len(z) = 1 + Len(b)
      /\ \A i \in 1..(1 + Len(b)) : z[i] = IF i <= 1 THEN f ELSE b[i - 1]
  BY <1>1, <1>2, ConcatProperties
<1>4. Len(b) \in Nat
  BY <1>2, LenProperties
<1> HIDE DEF z
<1>5. /\ z # <<>> /\ z[1] = f
      /\ \A i \in 1..Len(b) : z[i + 1] = b[i]
  BY <1>3, <1>4, EmptySeq
<1>6. /\ Tail(z) \in Seq(Frames) /\ Len(Tail(z)) = Len(b)
      /\ \A i \in 1..Len(b) : Tail(z)[i] = z[i + 1]
  BY <1>3, <1>4, <1>5, HeadTailProperties
<1>7. Tail(z) = b
  BY <1>2, <1>5, <1>6, SeqEqual
<1>8. <<f>> \o <<>> = <<f>>
  BY <1>1, ConcatEmptySeq
<1>9. Len(z) = Len(b) + 1
  BY <1>3, <1>4
<1>10. /\ z \in Seq(Frames) /\ z # <<>> /\ z[1] = f /\ Tail(z) = b /\ Len(z) = Len(b) + 1
       /\ \A i \in 1..Len(b) : z[i + 1] = b[i]
  BY <1>3, <1>5, <1>7, <1>9
<1> QED
  BY <1>4, <1>8, <1>10 DEF z

\* A stack is empty, or a frame on a base.
LEMMA StackIs ==
  ASSUME NEW t, NEW z \in Stacks(t)
  PROVE  /\ z \in Seq(Frames)
         /\ z = <<>> => t \in Procs
         /\ z # <<>> =>
              /\ z[1] \in Frames /\ z[1].code \in CodesOf(t, z[1])
              /\ Tail(z) \in Bases(t) \cup {<<>>} /\ z = <<z[1]>> \o Tail(z)
              /\ Tail(z) # <<>> => z[1].handler /\ Depth(Tail(z)[1].code) = 0
              /\ ~z[1].handler => Tail(z) = <<>> /\ z \in Bases(t)
              /\ z[1].handler => Tail(z) \in Bases(t)
<1>1. CASE z \in Bases(t)
  <2>1. CASE z = <<>>
    BY <1>1, <2>1 DEF Bases
  <2>2. CASE z # <<>>
    <3>1. PICK f \in Frames : z = <<f>>
      BY <1>1, <2>2 DEF Bases
    <3>2. ~f.handler /\ f.code \in CodesOf(t, f)
      BY <1>1, <2>2, <3>1 DEF Bases
    <3>3. <<f>> \o <<>> = <<f>> /\ (<<f>> \o <<>>)[1] = f /\ Tail(<<f>> \o <<>>) = <<>> /\ <<f>> \o <<>> \in Seq(Frames)
      BY FrameCat
    <3>4. z[1] = f /\ Tail(z) = <<>> /\ z \in Seq(Frames) /\ z = <<f>> \o Tail(z)
      BY <3>1, <3>3
    <3> QED
      BY <1>1, <2>2, <3>2, <3>4
  <2> QED
    BY <2>1, <2>2
<1>2. CASE z \in Hits(t)
  <2>1. PICK f \in Tops(t), b \in Quiet(t) : z = <<f>> \o b
    BY <1>2 DEF Hits
  <2>4. /\ f \in Frames /\ f.handler /\ f.code \in CodesOf(t, f)
        /\ b \in Bases(t) /\ (b # <<>> => Depth(b[1].code) = 0)
    BY DEF Tops, Quiet
  <2>2. b \in {<<>>} \cup {<<g>> : g \in Frames}
    BY <2>4 DEF Bases
  <2>3. z \in Seq(Frames) /\ z # <<>> /\ z[1] = f /\ Tail(z) = b
    BY <2>1, <2>2, <2>4, FrameCat
  <2> QED
    BY <2>1, <2>3, <2>4
<1> QED
  BY <1>1, <1>2 DEF Stacks

\* A base is a stack.
LEMMA BaseStack ==
  ASSUME NEW t
  PROVE  /\ \A z \in Bases(t) : z \in Stacks(t)
         /\ t \in Procs => <<>> \in Bases(t)
         /\ \A f \in Frames : ~f.handler /\ f.code \in CodesOf(t, f) => <<f>> \in Bases(t)
BY DEF Bases, Stacks

\* The top frame replaced by one of the same kind.
LEMMA StackPush ==
  ASSUME NEW t, NEW z \in Stacks(t), z # <<>>, NEW f \in Frames, f.handler = z[1].handler, f.code \in CodesOf(t, f)
  PROVE  <<f>> \o Tail(z) \in Stacks(t)
<1>1. /\ Tail(z) # <<>> => z[1].handler /\ Depth(Tail(z)[1].code) = 0
      /\ ~z[1].handler => Tail(z) = <<>>
      /\ z[1].handler => Tail(z) \in Bases(t)
  BY StackIs
<1>2. CASE f.handler
  <2>1. f \in Tops(t) /\ Tail(z) \in Quiet(t)
    BY <1>1, <1>2 DEF Tops, Quiet
  <2>2. \A b \in Quiet(t) : <<f>> \o b \in Hits(t)
    BY <2>1 DEF Hits
  <2> QED
    BY <2>1, <2>2 DEF Stacks
<1>3. CASE ~f.handler
  <2>1. Tail(z) = <<>> /\ <<f>> \o <<>> = <<f>>
    BY <1>1, <1>3, FrameCat
  <2> QED
    BY <1>3, <2>1, BaseStack
<1> QED
  BY <1>2, <1>3

\* A handler on top of a stack that is in none and holds no lock.
LEMMA StackEnter ==
  ASSUME NEW t, NEW z \in Stacks(t), NEW f \in Frames, f.handler, f.code \in CodesOf(t, f),
         z # <<>> => ~z[1].handler /\ Depth(z[1].code) = 0,
         z = <<>> => t \in Procs
  PROVE  <<f>> \o z \in Stacks(t)
<1>1. z \in Bases(t)
  <2>1. CASE z = <<>>
    BY <2>1, BaseStack
  <2>2. CASE z # <<>>
    BY <2>2, StackIs
  <2> QED
    BY <2>1, <2>2
<1>2. f \in Tops(t) /\ z \in Quiet(t)
  BY <1>1 DEF Tops, Quiet
<1> QED
  BY <1>2 DEF Stacks, Hits

-----------------------------------------------------------------------------
(* The invariant                                                           *)

\* The thread that processor c runs in state s.
On(s, c) == IF s.proc[c] = None THEN Scheduler(c) ELSE s.proc[c]

States == [flag : [Cpus -> BOOLEAN], ncli : [Cpus -> Nat], intena : [Cpus -> BOOLEAN],
           proc : [Cpus -> Procs \cup {None}], cpu : [Locks -> Cpus \cup {None}],
           locked : BOOLEAN, pid : Procs \cup {None},
           state : [Procs -> {"RUNNABLE", "RUNNING", "SLEEPING"}], panic : BOOLEAN,
           stack : [Threads -> Seq(Frames)]]

\* What processor c is while it runs a thread with stack z: it holds the locks, and is as
\* deep, as the code left to run says; with a lock held, or in a handler, interrupts are off;
\* and a system call that holds none runs with them on, or will when it has given up the last.
Runs(s, c, z) ==
    /\ s.ncli[c] # 0 => ~s.flag[c]
    /\ z = <<>> => s.ncli[c] = 0 /\ s.flag[c] /\ \A l \in Locks : s.cpu[l] # c
    /\ z # <<>> =>
         /\ \A l \in Locks : s.cpu[l] = c <=> l \in HeldBy(z[1].code)
         /\ s.ncli[c] = Depth(z[1].code)
         /\ z[1].handler => ~s.flag[c] /\ (s.ncli[c] # 0 => ~s.intena[c])
         /\ s.proc[c] # None /\ ~z[1].handler /\ z[1].code \notin {<<>>, forkret} =>
              IF s.ncli[c] = 0 THEN s.flag[c] ELSE s.intena[c]

\* A process that can be picked comes back from sched(), or starts in forkret(), with
\* ptable.lock alone to give up and the interrupts its thread had saved.
Resumable(z) ==
    /\ z # <<>> /\ z[1].code # <<>> /\ z[1].code[1] = <<"release", "ptable">>
    /\ HeldBy(z[1].code) = {"ptable"}
    /\ z[1].handler => ~z[1].intena
    /\ ~z[1].handler /\ z[1].code # forkret => z[1].intena

\* A scheduler that has switched to a process waits in the middle of its pass.
Waits(z) == \E f \in Frames : z = <<f>> /\ ~f.handler /\ f.code \in LoopCodes /\ At(f.code, "pick")

\* The steps that a stack has left, and whether they say that it owns the sleep-lock.
Names(z) == UNION {Steps(z[i].code) : i \in 1..Len(z)}
Critical(z) == "locked = 0" \in Names(z) /\ "while locked" \notin Names(z)

Placed(s) ==
    /\ \A c, d \in Cpus : s.proc[c] = s.proc[d] /\ s.proc[c] # None => c = d
    /\ \A c \in Cpus : s.proc[c] # None => s.state[s.proc[c]] = "RUNNING" /\ Waits(s.stack[Scheduler(c)])
    /\ \A p \in Procs : s.state[p] # "RUNNING" => Resumable(s.stack[p])

SleepLock(s) == \A p \in Procs : Critical(s.stack[p]) => s.locked /\ s.pid = p

Fit(s) == /\ s \in States
          /\ \A t \in Threads : s.stack[t] \in Stacks(t)
          /\ \A c \in Cpus : Runs(s, c, s.stack[On(s, c)])
          /\ Placed(s)
          /\ SleepLock(s)
          /\ ~s.panic

\* The threads of the processes and of the schedulers are apart.
LEMMA ThreadFacts ==
  ASSUME NCPU \in Nat, NPROC \in Nat
  PROVE  /\ Procs \subseteq Threads /\ None \notin Procs /\ None \notin Cpus /\ Procs \subseteq Nat
         /\ \A c \in Cpus : Scheduler(c) \in Threads /\ Scheduler(c) \notin Procs
         /\ \A c, d \in Cpus : Scheduler(c) = Scheduler(d) => c = d
BY DEF Threads, Procs, Cpus, None, Scheduler

\* The thread that a processor runs, and that no other processor does.
LEMMA OnFacts ==
  ASSUME NCPU \in Nat, NPROC \in Nat, NEW s, Fit(s), NEW c \in Cpus
  PROVE  /\ On(s, c) \in Threads /\ s.stack[On(s, c)] \in Stacks(On(s, c))
         /\ On(s, c) \in Procs <=> s.proc[c] # None
         /\ s.proc[c] # None => On(s, c) = s.proc[c]
         /\ s.proc[c] = None => On(s, c) = Scheduler(c)
         /\ Runs(s, c, s.stack[On(s, c)])
         /\ \A d \in Cpus : d # c => /\ On(s, d) # On(s, c)
                                     /\ s.proc[d] # None => Scheduler(d) # On(s, c)
         /\ \A p \in Procs : s.state[p] # "RUNNING" => p # On(s, c)
<1>1. \A d \in Cpus : s.proc[d] \in Procs \cup {None}
  BY DEF Fit, States
<1>2. \A d \in Cpus : s.proc[c] = s.proc[d] /\ s.proc[c] # None => c = d
  BY DEF Fit, Placed
<1>3. \A d \in Cpus : s.proc[d] # None => s.state[s.proc[d]] = "RUNNING"
  BY DEF Fit, Placed
<1>4. On(s, c) \in Threads
  BY <1>1, ThreadFacts DEF On
<1>5. s.stack[On(s, c)] \in Stacks(On(s, c)) /\ Runs(s, c, s.stack[On(s, c)])
  BY <1>4 DEF Fit
<1> QED
  BY <1>1, <1>2, <1>3, <1>4, <1>5, ThreadFacts DEF On

-----------------------------------------------------------------------------
(* The code on top of a stack                                              *)

\* What thread t's frame f has left, and the rest of it after one step.
LEMMA CodeNext ==
  ASSUME NEW t, NEW f \in Frames, f.code \in CodesOf(t, f)
  PROVE  LET k == f.code
         IN  /\ k \in Code /\ k \in Codes
             /\ f.handler => "locked = 0" \notin Steps(k)
             /\ k = <<>> => f.handler \/ t \in Procs
             /\ k # <<>> =>
                  /\ Good(k) /\ k[1] \in Instr
                  /\ k[1][1] # "pick" => Tail(k) \in CodesOf(t, f)
                  /\ k[1][1] \in {"cli", "sti", "pick", "while locked", "locked = 0"} => ~f.handler
                  /\ k[1][1] \in {"sti", "pick"} => t \notin Procs
                  /\ k[1][1] \in {"sched", "while locked", "locked = 0"} => t \in Procs
                  /\ k[1][1] \in {"while locked", "locked = 0"} => k \in Left(SleepCode)
                  /\ k[1][1] = "eflags" /\ ~f.handler => <<<<"cli", k[1][2]>>>> \o Tail(k) \in CodesOf(t, f)
                  /\ k[1][1] = "pick" => HeldBy(k) = {"ptable"} /\ Tail(k) = <<>> /\ k[1][2] \in Nat
                  /\ k[1][1] = "sti" => HeldBy(k) = {}
                  /\ k[1][1] = "if myproc yield" => f.handler /\ HeldBy(k) = {} /\ Tail(k) = <<>>
<1> DEFINE k == f.code
           N == {"eflags", "cli", "xchg", "release", "sched", "wakeup1", "while locked", "locked = 0"}
           M == {"eflags", "xchg", "release", "sched", "wakeup1", "if myproc yield"}
           L == {"eflags", "cli", "xchg", "release", "sti", "pick"}
<1>1. CASE f.handler /\ t \in Procs
  <2>1. k \in HandlerCodes
    BY <1>1 DEF CodesOf
  <2>2. /\ k \in Code /\ Good(k) /\ "locked = 0" \notin Steps(k)
        /\ k # <<>> =>
              /\ Tail(k) \in HandlerCodes /\ k[1] \in Instr
              /\ k[1][1] \in {"eflags", "xchg", "release", "sched", "wakeup1", "if myproc yield"}
              /\ k[1][1] = "if myproc yield" => HeldBy(k) = {} /\ Tail(k) = <<>>
    BY <2>1, HandlerNext
  <2>3. \A x \in HandlerCodes : x \in CodesOf(t, f)
    BY <1>1 DEF CodesOf
  <2>4. k \in Codes
    BY <2>1 DEF Codes
  <2> HIDE DEF k
  <2> QED
    BY <1>1, <2>2, <2>3, <2>4 DEF k
<1>2. CASE f.handler /\ t \notin Procs
  <2>1. k \in Left(TimerCode) /\ k \in HandlerCodes
    BY <1>2 DEF CodesOf, HandlerCodes
  <2>2. /\ k \in Code /\ Good(k) /\ "locked = 0" \notin Steps(k)
        /\ k # <<>> => (k[1][1] = "if myproc yield" => HeldBy(k) = {} /\ Tail(k) = <<>>)
    BY <2>1, HandlerNext
  <2>3. /\ k # <<>> => Tail(k) \in Left(TimerCode) /\ k[1] \in Instr /\ k[1][1] \in Steps(TimerCode)
    BY <2>1, TimerFine, LeftFine
  <2>4. Steps(TimerCode) = {"eflags", "xchg", "wakeup1", "release", "if myproc yield"}
    BY TimerFine
  <2>5. \A x \in Left(TimerCode) : x \in CodesOf(t, f)
    BY <1>2 DEF CodesOf
  <2>6. k \in Codes
    BY <2>1 DEF Codes
  <2> HIDE DEF k
  <2> QED
    BY <1>2, <2>2, <2>3, <2>4, <2>5, <2>6 DEF k
<1>3. CASE ~f.handler /\ t \in Procs
  <2>1. k \in CallCodes
    BY <1>3 DEF CodesOf
  <2>2. /\ k \in Code /\ Good(k)
        /\ k # <<>> =>
              /\ Tail(k) \in CallCodes /\ k[1] \in Instr
              /\ k[1][1] \in {"eflags", "cli", "xchg", "release", "sched", "wakeup1", "while locked", "locked = 0"}
              /\ k[1][1] = "eflags" => <<<<"cli", k[1][2]>>>> \o Tail(k) \in CallCodes
              /\ k[1][1] \in {"while locked", "locked = 0", "sched"} => k \in Left(SleepCode)
    BY <2>1, CallNext
  <2>3. \A x \in CallCodes : x \in CodesOf(t, f)
    BY <1>3 DEF CodesOf
  <2>4. k \in Codes
    BY <2>1 DEF Codes
  <2> HIDE DEF k
  <2> QED
    BY <1>3, <2>2, <2>3, <2>4 DEF k
<1>4. CASE ~f.handler /\ t \notin Procs
  <2>1. k \in LoopCodes
    BY <1>4 DEF CodesOf
  <2>2. /\ k \in Code /\ Good(k) /\ k # <<>> /\ k[1] \in Instr
        /\ k[1][1] \in {"eflags", "cli", "xchg", "release", "sti", "pick"}
        /\ k[1][1] # "pick" => Tail(k) \in LoopCodes
        /\ k[1][1] = "pick" => HeldBy(k) = {"ptable"} /\ Tail(k) = <<>> /\ k[1][2] \in Nat
        /\ k[1][1] = "sti" => HeldBy(k) = {}
        /\ k[1][1] = "eflags" => <<<<"cli", k[1][2]>>>> \o Tail(k) \in LoopCodes
    BY <2>1, LoopNext
  <2>3. \A x \in LoopCodes : x \in CodesOf(t, f)
    BY <1>4 DEF CodesOf
  <2>4. k \in Codes
    BY <2>1 DEF Codes
  <2> HIDE DEF k
  <2> QED
    BY <1>4, <2>2, <2>3, <2>4 DEF k
<1> QED
  BY <1>1, <1>2, <1>3, <1>4

\* A frame with other code.
With(f, x) == [f EXCEPT !.code = x]

\* It is a frame of the same kind.
LEMMA FrameWith ==
  ASSUME NEW f \in Frames, NEW x \in Codes
  PROVE  /\ With(f, x) \in Frames /\ With(f, x).code = x
         /\ With(f, x).handler = f.handler /\ With(f, x).intena = f.intena
BY DEF Frames, With

\* A frame that also saves whether interrupts were on.
LEMMA FrameSaves ==
  ASSUME NEW f \in Frames, NEW v \in BOOLEAN
  PROVE  LET g == [f EXCEPT !.intena = v]
         IN  g \in Frames /\ g.code = f.code /\ g.handler = f.handler /\ g.intena = v
BY DEF Frames

\* The same kind of frame has the same codes.
LEMMA SameKind ==
  ASSUME NEW t, NEW f, NEW g, g.handler = f.handler
  PROVE  CodesOf(t, g) = CodesOf(t, f)
BY DEF CodesOf

\* The steps of a stack are those of its top and of the rest.
LEMMA NamesCat ==
  /\ Names(<<>>) = {}
  /\ \A f \in Frames : \A b \in {<<>>} \cup {<<g>> : g \in Frames} :
        Names(<<f>> \o b) = Steps(f.code) \cup Names(b)
<1>1. Names(<<>>) = {}
  BY DEF Names
<1>2. ASSUME NEW f \in Frames, NEW b \in {<<>>} \cup {<<g>> : g \in Frames}
      PROVE  Names(<<f>> \o b) = Steps(f.code) \cup Names(b)
  <2> DEFINE z == <<f>> \o b
  <2>1. /\ z[1] = f /\ Len(z) = Len(b) + 1 /\ Len(b) \in Nat
        /\ \A i \in 1..Len(b) : z[i + 1] = b[i]
    BY FrameCat
  <2> HIDE DEF z
  <2>2. ASSUME NEW i \in 1..Len(z)
        PROVE  Steps(z[i].code) \subseteq Steps(f.code) \cup Names(b)
    <3>1. CASE i = 1
      BY <2>1, <3>1
    <3>2. CASE i # 1
      <4>1. i - 1 \in 1..Len(b) /\ (i - 1) + 1 = i
        BY <2>1, <3>2
      <4>2. z[i] = b[i - 1]
        BY <2>1, <4>1
      <4> QED
        BY <4>1, <4>2 DEF Names
    <3> QED
      BY <3>1, <3>2
  <2>3. Steps(f.code) \subseteq Names(z)
    <3>1. 1 \in 1..Len(z)
      BY <2>1
    <3> QED
      BY <2>1, <3>1 DEF Names
  <2>4. ASSUME NEW i \in 1..Len(b)
        PROVE  Steps(b[i].code) \subseteq Names(z)
    <3>1. i + 1 \in 1..Len(z) /\ z[i + 1] = b[i]
      BY <2>1
    <3> QED
      BY <3>1 DEF Names
  <2>5. Names(z) \subseteq Steps(f.code) \cup Names(b)
    BY <2>2 DEF Names
  <2>6. Names(b) \subseteq Names(z)
    BY <2>4 DEF Names
  <2> QED
    BY <2>3, <2>5, <2>6 DEF z
<1> QED
  BY <1>1, <1>2

\* A top frame that clears the lock only if it did, and tests it if it did, owns no more.
LEMMA CriticalKept ==
  ASSUME NEW t, NEW z \in Stacks(t), z # <<>>, NEW g \in Frames,
         "locked = 0" \in Steps(g.code) => "locked = 0" \in Steps(z[1].code),
         "while locked" \in Steps(z[1].code) => "while locked" \in Steps(g.code),
         Critical(<<g>> \o Tail(z))
  PROVE  Critical(z)
<1>1. /\ z[1] \in Frames /\ z = <<z[1]>> \o Tail(z)
      /\ Tail(z) \in {<<>>} \cup {<<h>> : h \in Frames}
  BY StackIs DEF Bases
<1>2. Names(z) = Steps(z[1].code) \cup Names(Tail(z))
  BY <1>1, NamesCat
<1>3. Names(<<g>> \o Tail(z)) = Steps(g.code) \cup Names(Tail(z))
  BY <1>1, NamesCat
<1> QED
  BY <1>2, <1>3 DEF Critical

-----------------------------------------------------------------------------
(* What a step may touch                                                   *)

\* A step from s to r that changes processor c, the stack of the thread it runs and, under
\* ptable.lock, processes that slept; no other processor sees a difference.
Local(s, r, c) ==
    /\ r \in States /\ r.proc = s.proc /\ ~r.panic
    /\ \A d \in Cpus : d # c => /\ r.flag[d] = s.flag[d] /\ r.ncli[d] = s.ncli[d] /\ r.intena[d] = s.intena[d]
                                /\ \A l \in Locks : r.cpu[l] = d <=> s.cpu[l] = d
    /\ \A p \in Procs : r.state[p] = s.state[p] \/ (s.state[p] = "SLEEPING" /\ r.state[p] = "RUNNABLE")

\* Such a step keeps the invariant if what it does to c, its stack and the sleep-lock fits.
LEMMA Goes ==
  ASSUME NCPU \in Nat, NPROC \in Nat, NEW s, Fit(s), NEW c \in Cpus, NEW r, Local(s, r, c),
         NEW z \in Stacks(On(s, c)), r.stack = [s.stack EXCEPT ![On(s, c)] = z],
         Runs(r, c, z), SleepLock(r)
  PROVE  Fit(r)
<1> DEFINE t == On(s, c)
<1>1. /\ t \in Threads
      /\ s.proc[c] = None => t = Scheduler(c)
      /\ \A d \in Cpus : d # c => /\ On(s, d) # t
                                  /\ s.proc[d] # None => Scheduler(d) # t
      /\ \A p \in Procs : s.state[p] # "RUNNING" => p # t
  BY OnFacts
<1>2. s.stack \in [Threads -> Seq(Frames)] /\ r \in States
  BY DEF Fit, States, Local
<1>3. r.stack[t] = z /\ \A u \in Threads : u # t => r.stack[u] = s.stack[u]
  BY <1>1, <1>2
<1>4. r.proc = s.proc /\ \A d \in Cpus : On(r, d) = On(s, d)
  BY DEF Local, On
<1>5. \A u \in Threads : r.stack[u] \in Stacks(u)
  BY <1>3 DEF Fit
<1>6. ASSUME NEW d \in Cpus
      PROVE  Runs(r, d, r.stack[On(r, d)])
  <2>1. CASE d = c
    BY <1>3, <1>4, <2>1
  <2>2. CASE d # c
    <3>1. r.stack[On(r, d)] = s.stack[On(s, d)] /\ Runs(s, d, s.stack[On(s, d)])
      BY <1>1, <1>3, <1>4, <2>2, OnFacts
    <3>2. /\ r.flag[d] = s.flag[d] /\ r.ncli[d] = s.ncli[d] /\ r.intena[d] = s.intena[d]
          /\ \A l \in Locks : r.cpu[l] = d <=> s.cpu[l] = d
      BY <2>2 DEF Local
    <3> QED
      BY <1>4, <3>1, <3>2 DEF Runs
  <2> QED
    BY <2>1, <2>2
<1>7. Placed(r)
  <2>1. \A d, e \in Cpus : r.proc[d] = r.proc[e] /\ r.proc[d] # None => d = e
    BY <1>4 DEF Fit, Placed
  <2>2. ASSUME NEW d \in Cpus, r.proc[d] # None
        PROVE  r.state[r.proc[d]] = "RUNNING" /\ Waits(r.stack[Scheduler(d)])
    <3>1. s.proc[d] # None /\ s.proc[d] \in Procs /\ r.proc[d] = s.proc[d]
      BY <1>4, <2>2 DEF Fit, States
    <3>2. s.state[s.proc[d]] = "RUNNING" /\ Waits(s.stack[Scheduler(d)])
      BY <3>1 DEF Fit, Placed
    <3>3. Scheduler(d) # t /\ Scheduler(d) \in Threads
      <4>1. CASE d = c
        BY <3>1, <4>1, OnFacts, ThreadFacts
      <4>2. CASE d # c
        BY <1>1, <3>1, <4>2, ThreadFacts
      <4> QED
        BY <4>1, <4>2
    <3>4. r.stack[Scheduler(d)] = s.stack[Scheduler(d)]
      BY <1>3, <3>3
    <3>5. r.state[s.proc[d]] = "RUNNING"
      BY <3>1, <3>2 DEF Local
    <3> QED
      BY <3>1, <3>2, <3>4, <3>5
  <2>3. ASSUME NEW p \in Procs, r.state[p] # "RUNNING"
        PROVE  Resumable(r.stack[p])
    <3>1. s.state[p] # "RUNNING"
      BY <2>3 DEF Local
    <3>2. p # t /\ p \in Threads
      BY <1>1, <3>1, ThreadFacts
    <3>3. r.stack[p] = s.stack[p] /\ Resumable(s.stack[p])
      BY <1>3, <3>1, <3>2 DEF Fit, Placed
    <3> QED
      BY <3>3
  <2> QED
    BY <2>1, <2>2, <2>3 DEF Placed
<1> QED
  BY <1>2, <1>5, <1>6, <1>7 DEF Fit, Local

\* Processor c, its thread t, the thread's stack z, the frame f on top of it and its code k.
View(s, c, t, z, f, k) ==
    /\ t = On(s, c) /\ t \in Threads /\ z = s.stack[t] /\ z \in Stacks(t) /\ z # <<>>
    /\ f = z[1] /\ f \in Frames /\ f.code \in CodesOf(t, f) /\ k = f.code /\ k \in Code
    /\ Runs(s, c, z)

\* What processor c must be like to run a thread whose top frame is g.
RunsTop(s, c, g) ==
    /\ s.ncli[c] # 0 => ~s.flag[c]
    /\ \A l \in Locks : s.cpu[l] = c <=> l \in HeldBy(g.code)
    /\ s.ncli[c] = Depth(g.code)
    /\ g.handler => ~s.flag[c] /\ (s.ncli[c] # 0 => ~s.intena[c])
    /\ s.proc[c] # None /\ ~g.handler /\ g.code \notin {<<>>, forkret} =>
         IF s.ncli[c] = 0 THEN s.flag[c] ELSE s.intena[c]

\* A step from s to r puts frame g in the place of f.
Turns(s, r, c, t, z, f, k, g) ==
    /\ Local(s, r, c) /\ View(s, c, t, z, f, k)
    /\ g \in Frames /\ g.handler = f.handler /\ g.code \in CodesOf(t, g)
    /\ r.stack = [s.stack EXCEPT ![t] = <<g>> \o Tail(z)]
    /\ RunsTop(r, c, g)

\* It leaves the sleep-lock alone, and the thread as much its owner as it was.
Spares(s, r, k, g) ==
    /\ r.locked = s.locked /\ r.pid = s.pid
    /\ "locked = 0" \in Steps(g.code) => "locked = 0" \in Steps(k)
    /\ "while locked" \in Steps(k) => "while locked" \in Steps(g.code)

\* A step that puts another frame on top keeps the invariant if the sleep-lock fits.
LEMMA Pushed ==
  ASSUME NCPU \in Nat, NPROC \in Nat, NEW s, Fit(s), NEW c \in Cpus, NEW r,
         NEW t, NEW z, NEW f, NEW k, NEW g, Turns(s, r, c, t, z, f, k, g)
  PROVE  (SleepLock(r) \/ Spares(s, r, k, g)) => Fit(r)
<1> DEFINE y == <<g>> \o Tail(z)
<1>1. /\ t = On(s, c) /\ t \in Threads /\ z = s.stack[t] /\ z \in Stacks(t) /\ z # <<>>
      /\ f = z[1] /\ f \in Frames /\ k = f.code
  BY DEF View, Turns
<1>0. /\ Local(s, r, c) /\ g \in Frames /\ g.handler = f.handler /\ g.code \in CodesOf(t, g)
      /\ r.stack = [s.stack EXCEPT ![t] = y] /\ RunsTop(r, c, g)
  BY DEF Turns
<1>2. y \in Stacks(t)
  BY <1>0, <1>1, StackPush
<1>3. y # <<>> /\ y[1] = g
  BY <1>0, <1>1, StackIs, FrameCat DEF Bases
<1> HIDE DEF y
<1>4. Runs(r, c, y)
  BY <1>0, <1>3 DEF Runs, RunsTop
<1>5. SleepLock(r) => Fit(r)
  BY <1>0, <1>1, <1>2, <1>4, Goes
<1>6. ASSUME Spares(s, r, k, g)
      PROVE  SleepLock(r)
  <2>1. Critical(y) => Critical(z)
    BY <1>0, <1>1, <1>6, CriticalKept DEF y, Spares
  <2>2. s.stack \in [Threads -> Seq(Frames)] /\ r.stack = [s.stack EXCEPT ![t] = y]
    BY <1>0 DEF Fit, States
  <2>3. \A p \in Procs : p \in Threads
    BY ThreadFacts
  <2>4. \A p \in Procs : r.stack[p] = IF p = t THEN y ELSE s.stack[p]
    BY <2>2, <2>3
  <2>5. \A p \in Procs : Critical(r.stack[p]) => Critical(s.stack[p])
    BY <1>1, <2>1, <2>4
  <2>6. SleepLock(s)
    BY DEF Fit
  <2> QED
    BY <1>6, <2>5, <2>6 DEF SleepLock, Spares
<1> QED
  BY <1>5, <1>6

\* The same, as the actions of the processor see it.
Doing(c, t, z, f, k) ==
    /\ View(sp, c, t, z, f, k) /\ z = Stack(c) /\ f = Top(c) /\ Thread(c) = t
    /\ k # <<>> => Op(c) = k[1]
    /\ \A x : Goto(c, x) = [sp.stack EXCEPT ![t] = <<With(f, x \o Tail(k))>> \o Tail(z)]
    /\ \A h, x : Push(c, h, x) = [sp.stack EXCEPT ![t] = <<With(h, x \o Tail(h.code))>> \o Tail(z)]
    /\ sp.proc[c] # None <=> t \in Procs
    /\ sp.proc[c] # None => sp.proc[c] = t

\* The running thread, if it has a frame.
LEMMA TopOf ==
  ASSUME NCPU \in Nat, NPROC \in Nat, Fit(sp), NEW c \in Cpus, Stack(c) # <<>>
  PROVE  \E t \in Threads, z \in Seq(Frames), f \in Frames, k \in Code : Doing(c, t, z, f, k)
<1> DEFINE t == On(sp, c)
           z == sp.stack[t]
           f == z[1]
           k == f.code
<1>1. Thread(c) = t
  BY DEF Thread, On
<1>2. Stack(c) = z /\ Top(c) = f
  BY <1>1 DEF Stack, Top
<1>3. /\ t \in Threads /\ z \in Stacks(t) /\ Runs(sp, c, z)
      /\ t \in Procs <=> sp.proc[c] # None
      /\ sp.proc[c] # None => t = sp.proc[c]
  BY OnFacts
<1>5. f \in Frames /\ f.code \in CodesOf(t, f) /\ z \in Seq(Frames)
  BY <1>2, <1>3, StackIs
<1>6. k \in Code
  BY <1>5, CodeNext
<1>7. View(sp, c, t, z, f, k)
  BY <1>2, <1>3, <1>5, <1>6 DEF View
<1>8. Op(c) = k[1]
  BY <1>2 DEF Op
<1>9. \A h, x : Push(c, h, x) = [sp.stack EXCEPT ![t] = <<With(h, x \o Tail(h.code))>> \o Tail(z)]
  BY <1>1, <1>2 DEF Push, With
<1>10. \A x : Goto(c, x) = [sp.stack EXCEPT ![t] = <<With(f, x \o Tail(k))>> \o Tail(z)]
  BY <1>2, <1>9 DEF Goto
<1> HIDE DEF t, z, f, k
<1>11. Doing(c, t, z, f, k)
  BY <1>1, <1>2, <1>3, <1>7, <1>8, <1>9, <1>10 DEF Doing
<1> QED
  BY <1>3, <1>5, <1>6, <1>11

\* The running thread that is at a step.
LEMMA OpOf ==
  ASSUME NCPU \in Nat, NPROC \in Nat, Fit(sp), NEW c \in Cpus, NEW name, AtOp(c, name)
  PROVE  \E t \in Threads, z \in Seq(Frames), f \in Frames, k \in Code :
            Doing(c, t, z, f, k) /\ k # <<>> /\ k[1][1] = name
<1>1. Stack(c) # <<>> /\ Top(c).code # <<>> /\ Op(c)[1] = name
  BY DEF AtOp
<1>2. PICK t \in Threads, z \in Seq(Frames), f \in Frames, k \in Code : Doing(c, t, z, f, k)
  BY <1>1, TopOf
<1>3. f = Top(c) /\ k = f.code /\ (k # <<>> => Op(c) = k[1])
  BY <1>2 DEF Doing, View
<1> QED
  BY <1>1, <1>2, <1>3

-----------------------------------------------------------------------------
(* The steps of a processor                                                *)

\* The code on top of the running thread.
LEMMA NextCode ==
  ASSUME NEW s, NEW c, NEW t, NEW z, NEW f, NEW k, View(s, c, t, z, f, k), k # <<>>
  PROVE  /\ Good(k) /\ k[1] \in Instr /\ Tail(k) \in Code
         /\ <<>> \o Tail(k) = Tail(k) /\ <<>> \in Code
         /\ Steps(k) = {k[1][1]} \cup Steps(Tail(k))
<1>1. /\ f \in Frames /\ f.code \in CodesOf(t, f) /\ k = f.code /\ k \in Code
  BY DEF View
<1>2. Good(k) /\ k[1] \in Instr
  BY <1>1, CodeNext
<1>3. Tail(k) \in Code /\ <<>> \in Code
  BY <1>1, CodeFacts, EmptyHolds
<1>4. <<>> \o Tail(k) = Tail(k) /\ Steps(k) = {k[1][1]} \cup Steps(Tail(k))
  BY <1>1, <1>3, Alone, StepsTail
<1> QED
  BY <1>2, <1>3, <1>4

\* The frame that a step leaves on top when it goes on with code y.
LEMMA NextFrame ==
  ASSUME NEW t, NEW f \in Frames, NEW y \in CodesOf(t, f)
  PROVE  /\ With(f, y) \in Frames /\ With(f, y).code = y
         /\ With(f, y).handler = f.handler /\ With(f, y).intena = f.intena
         /\ y \in CodesOf(t, With(f, y)) /\ y \in Code
<1> DEFINE g == With(f, y)
<1>1. y \in Codes
  BY DEF CodesOf, Codes, HandlerCodes
<1>2. g \in Frames /\ g.code = y /\ g.handler = f.handler /\ g.intena = f.intena
  BY <1>1, FrameWith
<1> HIDE DEF g
<1>3. CodesOf(t, g) = CodesOf(t, f)
  BY <1>2, SameKind
<1>4. y \in Code
  BY <1>2, <1>3, CodeNext
<1> QED
  BY <1>2, <1>3, <1>4 DEF g

\* The stack it leaves.
LEMMA NextStack ==
  ASSUME NEW s, NEW c, NEW t, NEW z, NEW f, NEW k, View(s, c, t, z, f, k),
         NEW g \in Frames, g.handler = f.handler, g.code \in CodesOf(t, g)
  PROVE  <<g>> \o Tail(z) \in Seq(Frames)
<1>1. f \in Frames /\ z \in Stacks(t) /\ z # <<>> /\ f = z[1]
  BY DEF View
<1>2. <<g>> \o Tail(z) \in Stacks(t)
  BY <1>1, StackPush
<1> QED
  BY <1>2, StackIs

\* A processor that reads eflags with interrupts on holds nothing, and may be interrupted before cli.
LEMMA EflagsFits ==
  ASSUME NCPU \in Nat, NPROC \in Nat, Fit(sp), NEW c \in Cpus, acquire_eflags(c)
  PROVE  Fit(sp')
<1>1. AtOp(c, "eflags") /\ sp.flag[c] /\ sp' = [sp EXCEPT !.stack = Goto(c, <<<<"cli", Op(c)[2]>>>>)]
  BY DEF acquire_eflags
<1>2. PICK t \in Threads, z \in Seq(Frames), f \in Frames, k \in Code :
        Doing(c, t, z, f, k) /\ k # <<>> /\ k[1][1] = "eflags"
  BY <1>1, OpOf
<1>3. /\ View(sp, c, t, z, f, k) /\ k = f.code /\ f.code \in CodesOf(t, f) /\ z # <<>> /\ f = z[1]
      /\ Runs(sp, c, z) /\ Op(c) = k[1]
      /\ \A x : Goto(c, x) = [sp.stack EXCEPT ![t] = <<With(f, x \o Tail(k))>> \o Tail(z)]
  BY <1>2 DEF Doing, View
<1> DEFINE x == <<<<"cli", k[1][2]>>>>
           g == With(f, x \o Tail(k))
<1>4. ~f.handler /\ sp.ncli[c] = 0 /\ (\A l \in Locks : sp.cpu[l] = c <=> l \in HeldBy(k)) /\ Depth(k) = 0
  BY <1>1, <1>3 DEF Runs
<1>5. Good(k) /\ k[1] \in Instr /\ x \o Tail(k) \in CodesOf(t, f)
  BY <1>2, <1>3, <1>4, CodeNext
<1>6. HeldBy(k) = HeldBy(Tail(k)) /\ k[1][2] \in Locks /\ Tail(k) # <<>> /\ Tail(k) \in Code
  BY <1>2, <1>5, DepthStep, CodeFacts DEF Good
<1>7. x \in Code /\ <<"cli", k[1][2]>> \in Instr
  BY <1>6, SomeInstr, StepsOf
<1> DEFINE y == x \o Tail(k)
<1>8. y \in Code /\ y # <<>> /\ y[1] = <<"cli", k[1][2]>> /\ Tail(y) = Tail(k) /\ y \in CodesOf(t, f)
  BY <1>5, <1>6, <1>7, Cons
<1>9. Goto(c, x) = [sp.stack EXCEPT ![t] = <<g>> \o Tail(z)]
  BY <1>3
<1>10. y[1] \in Instr /\ y[1][1] = "cli"
  BY <1>7, <1>8
<1> HIDE DEF x
<1>11. g = With(f, y)
  OBVIOUS
<1> HIDE DEF g, y
<1>12. g \in Frames /\ g.code = y /\ g.handler = f.handler /\ g.code \in CodesOf(t, g)
  BY <1>8, <1>11, NextFrame
<1>20. <<g>> \o Tail(z) \in Seq(Frames)
  BY <1>3, <1>12, NextStack
<1>13. HeldBy(y) = HeldBy(k) /\ Depth(y) = 0
  <2>1. Good(y)
    BY <1>8, <1>12, CodeNext
  <2>3. HeldBy(y) = HeldBy(k) /\ ~At(y, "xchg")
    BY <1>6, <1>8, <1>10, <2>1, DepthStep DEF At
  <2>4. HeldBy(k) = {}
    BY <1>4, DepthFacts
  <2> QED
    BY <1>8, <2>3, <2>4, DepthFacts
<1>14. sp' = [sp EXCEPT !.stack = [sp.stack EXCEPT ![t] = <<g>> \o Tail(z)]]
  BY <1>1, <1>3, <1>9 DEF x
<1>15. /\ sp' \in States /\ sp'.flag = sp.flag /\ sp'.ncli = sp.ncli /\ sp'.intena = sp.intena /\ sp'.proc = sp.proc
       /\ sp'.cpu = sp.cpu /\ sp'.locked = sp.locked /\ sp'.pid = sp.pid /\ sp'.state = sp.state /\ sp'.panic = sp.panic
       /\ sp'.stack = [sp.stack EXCEPT ![t] = <<g>> \o Tail(z)]
  BY <1>14, <1>20 DEF Fit, States
<1>16. Local(sp, sp', c)
  BY <1>15 DEF Fit, Local
<1>17. RunsTop(sp', c, g)
  BY <1>1, <1>4, <1>12, <1>13, <1>15 DEF RunsTop
<1>18. /\ "locked = 0" \in Steps(g.code) => "locked = 0" \in Steps(k)
       /\ "while locked" \in Steps(k) => "while locked" \in Steps(g.code)
  <2>1. Steps(y) = {"cli"} \cup Steps(Tail(k)) /\ Steps(k) = {"eflags"} \cup Steps(Tail(k))
    BY <1>2, <1>8, <1>10, StepsTail
  <2> QED
    BY <1>12, <2>1
<1>19. Turns(sp, sp', c, t, z, f, k, g) /\ Spares(sp, sp', k, g)
  BY <1>3, <1>12, <1>15, <1>16, <1>17, <1>18 DEF Turns, Spares
<1> QED
  BY <1>19, Pushed

\* The frame and the stack after one step, for a step that brings no code of its own.
Onto(c, t, z, f, k, g) ==
    /\ g.code = Tail(k) /\ g.handler = f.handler /\ g.code \in CodesOf(t, g)
    /\ <<g>> \o Tail(z) \in Seq(Frames)
    /\ Goto(c, <<>>) = [sp.stack EXCEPT ![t] = <<g>> \o Tail(z)]

\* There is such a frame.
LEMMA Onward ==
  ASSUME NEW c \in Cpus, NEW t \in Threads, NEW z \in Seq(Frames), NEW f \in Frames, NEW k \in Code,
         Doing(c, t, z, f, k), k # <<>>, k[1][1] # "pick"
  PROVE  /\ View(sp, c, t, z, f, k) /\ k = f.code /\ Op(c) = k[1] /\ f.code \in CodesOf(t, f)
         /\ Good(k) /\ k[1] \in Instr /\ Tail(k) \in Code /\ Steps(k) = {k[1][1]} \cup Steps(Tail(k))
         /\ RunsTop(sp, c, f)
         /\ \E g \in Frames : Onto(c, t, z, f, k, g)
<1>1. /\ View(sp, c, t, z, f, k) /\ Op(c) = k[1]
      /\ \A x : Goto(c, x) = [sp.stack EXCEPT ![t] = <<With(f, x \o Tail(k))>> \o Tail(z)]
  BY DEF Doing
<1>2. k = f.code /\ f.code \in CodesOf(t, f) /\ z # <<>> /\ f = z[1] /\ Runs(sp, c, z)
  BY <1>1 DEF View
<1>3. /\ Good(k) /\ k[1] \in Instr /\ Tail(k) \in Code /\ <<>> \o Tail(k) = Tail(k)
      /\ Steps(k) = {k[1][1]} \cup Steps(Tail(k))
  BY <1>1, NextCode
<1>4. RunsTop(sp, c, f)
  BY <1>2 DEF Runs, RunsTop
<1>5. Tail(k) \in CodesOf(t, f)
  BY <1>2, CodeNext
<1> DEFINE g == With(f, Tail(k))
<1>6. g \in Frames /\ g.code = Tail(k) /\ g.handler = f.handler /\ g.code \in CodesOf(t, g)
  BY <1>5, NextFrame
<1>7. Goto(c, <<>>) = [sp.stack EXCEPT ![t] = <<g>> \o Tail(z)]
  BY <1>1, <1>3
<1> HIDE DEF g
<1>8. <<g>> \o Tail(z) \in Seq(Frames)
  BY <1>1, <1>6, NextStack
<1> QED
  BY <1>1, <1>2, <1>3, <1>4, <1>6, <1>7, <1>8 DEF Onto

\* pushcli() in acquire(): one deeper, interrupts off, and eflags saved at the first level.
LEMMA CliFits ==
  ASSUME NCPU \in Nat, NPROC \in Nat, Fit(sp), NEW c \in Cpus, acquire_cli(c)
  PROVE  Fit(sp')
<1>1. PICK name \in {"cli", "eflags"} : AtOp(c, name) /\ (name = "eflags" => ~sp.flag[c])
  BY DEF acquire_cli
<1>2. PICK t \in Threads, z \in Seq(Frames), f \in Frames, k \in Code :
        Doing(c, t, z, f, k) /\ k # <<>> /\ k[1][1] = name
  BY <1>1, OpOf
<1>3. /\ View(sp, c, t, z, f, k) /\ k = f.code /\ Op(c) = k[1] /\ f.code \in CodesOf(t, f)
      /\ Good(k) /\ k[1] \in Instr /\ Tail(k) \in Code /\ Steps(k) = {k[1][1]} \cup Steps(Tail(k))
      /\ RunsTop(sp, c, f)
  <2>1. Doing(c, t, z, f, k) /\ k # <<>> /\ k[1][1] # "pick"
    BY <1>1, <1>2
  <2> QED
    BY <2>1, Onward
<1>4. PICK g \in Frames : Onto(c, t, z, f, k, g)
  <2>1. Doing(c, t, z, f, k) /\ k # <<>> /\ k[1][1] # "pick"
    BY <1>1, <1>2
  <2> QED
    BY <2>1, Onward
<1>5. /\ HeldBy(Tail(k)) = HeldBy(k) /\ Depth(Tail(k)) = Depth(k) + 1 /\ Depth(k) \in Nat
      /\ k[1][2] \in Locks /\ k[1][2] \notin HeldBy(k)
  BY <1>1, <1>2, <1>3, DepthStep, DepthFacts
<1>6. sp.cpu[k[1][2]] # c /\ sp.ncli[c] = Depth(k)
  BY <1>3, <1>5 DEF RunsTop
<1>7. sp' = pushcli(c, name = "cli")
  BY <1>1, <1>2, <1>3, <1>6 DEF acquire_cli
<1> DEFINE i == IF sp.ncli[c] = 0 THEN name = "cli" ELSE sp.intena[c]
           y == <<g>> \o Tail(z)
<1>8. y \in Seq(Frames) /\ Goto(c, <<>>) = [sp.stack EXCEPT ![t] = y]
  BY <1>4 DEF Onto
<1>9. sp' = [sp EXCEPT !.flag[c] = FALSE, !.ncli[c] = sp.ncli[c] + 1, !.intena[c] = i,
                        !.stack = [sp.stack EXCEPT ![t] = y]]
  BY <1>7, <1>8 DEF pushcli
<1>10. sp \in States
  BY DEF Fit
<1> HIDE DEF y
<1>11. i \in BOOLEAN
  BY <1>10 DEF States
<1> HIDE DEF i
<1>12. /\ sp' \in States /\ sp'.flag = [sp.flag EXCEPT ![c] = FALSE]
       /\ sp'.ncli = [sp.ncli EXCEPT ![c] = sp.ncli[c] + 1]
       /\ sp'.intena = [sp.intena EXCEPT ![c] = i] /\ sp'.proc = sp.proc
       /\ sp'.cpu = sp.cpu /\ sp'.locked = sp.locked /\ sp'.pid = sp.pid /\ sp'.state = sp.state /\ sp'.panic = sp.panic
       /\ sp'.stack = [sp.stack EXCEPT ![t] = y]
  <2> DEFINE F == [sp.flag EXCEPT ![c] = FALSE]
             N == [sp.ncli EXCEPT ![c] = sp.ncli[c] + 1]
             I == [sp.intena EXCEPT ![c] = i]
             Z == [sp.stack EXCEPT ![t] = y]
  <2>1. F \in [Cpus -> BOOLEAN] /\ I \in [Cpus -> BOOLEAN] /\ Z \in [Threads -> Seq(Frames)]
    BY <1>8, <1>10, <1>11 DEF States
  <2>2. N \in [Cpus -> Nat]
    BY <1>10 DEF States
  <2>3. sp' = [sp EXCEPT !.flag = F, !.ncli = N, !.intena = I, !.stack = Z]
    BY <1>9, <1>10 DEF States
  <2> HIDE DEF F, N, I, Z
  <2>4. /\ sp' \in States /\ sp'.flag = F /\ sp'.ncli = N /\ sp'.intena = I /\ sp'.stack = Z /\ sp'.proc = sp.proc
        /\ sp'.cpu = sp.cpu /\ sp'.locked = sp.locked /\ sp'.pid = sp.pid /\ sp'.state = sp.state /\ sp'.panic = sp.panic
    BY <1>10, <2>1, <2>2, <2>3 DEF States
  <2> QED
    BY <2>4 DEF F, N, I, Z
<1>13. Local(sp, sp', c)
  BY <1>10, <1>12 DEF Fit, Local, States
<1>14. sp'.flag[c] = FALSE /\ sp'.ncli[c] = sp.ncli[c] + 1 /\ sp'.intena[c] = i
  BY <1>10, <1>12 DEF States
<1>15. RunsTop(sp', c, g)
  <2>1. /\ g.code = Tail(k) /\ g.handler = f.handler
    BY <1>4 DEF Onto
  <2>2. /\ \A l \in Locks : sp'.cpu[l] = c <=> l \in HeldBy(g.code)
        /\ sp'.ncli[c] = Depth(g.code) /\ sp'.ncli[c] # 0
    BY <1>3, <1>5, <1>6, <1>12, <1>14, <2>1 DEF RunsTop
  <2>3. g.handler => ~sp'.intena[c]
    <3>1. g.handler => ~sp.flag[c] /\ (sp.ncli[c] # 0 => ~sp.intena[c])
      BY <1>3, <2>1 DEF RunsTop
    <3>2. g.handler => name # "cli"
      BY <1>2, <1>3, <2>1, CodeNext
    <3> QED
      BY <1>14, <3>1, <3>2 DEF i
  <2>4. sp'.proc[c] # None /\ ~g.handler => sp'.intena[c]
    <3>1. ASSUME sp.proc[c] # None, ~g.handler
          PROVE  i
      <4>1. k # forkret
        BY <1>1, <1>2, ForkretFine
      <4>2. IF sp.ncli[c] = 0 THEN sp.flag[c] ELSE sp.intena[c]
        BY <1>2, <1>3, <2>1, <3>1, <4>1 DEF RunsTop
      <4> QED
        BY <1>1, <4>2 DEF i
    <3> QED
      BY <1>12, <1>14, <3>1
  <2> QED
    BY <1>14, <2>2, <2>3, <2>4 DEF RunsTop
<1>16. Turns(sp, sp', c, t, z, f, k, g)
  BY <1>3, <1>4, <1>12, <1>13, <1>15 DEF Turns, Onto, y
<1>17. Spares(sp, sp', k, g)
  <2>1. g.code = Tail(k)
    BY <1>4 DEF Onto
  <2> QED
    BY <1>1, <1>2, <1>3, <1>12, <2>1 DEF Spares
<1> QED
  BY <1>16, <1>17, Pushed

\* xchg in acquire(): the lock is free, and the processor's.
LEMMA XchgFits ==
  ASSUME NCPU \in Nat, NPROC \in Nat, Fit(sp), NEW c \in Cpus, acquire_xchg(c)
  PROVE  Fit(sp')
<1>1. AtOp(c, "xchg") /\ sp.cpu[Op(c)[2]] = None
      /\ sp' = [sp EXCEPT !.cpu[Op(c)[2]] = c, !.stack = Goto(c, <<>>)]
  BY DEF acquire_xchg
<1>2. PICK t \in Threads, z \in Seq(Frames), f \in Frames, k \in Code :
        Doing(c, t, z, f, k) /\ k # <<>> /\ k[1][1] = "xchg"
  BY <1>1, OpOf
<1>3. /\ View(sp, c, t, z, f, k) /\ k = f.code /\ Op(c) = k[1] /\ f.code \in CodesOf(t, f)
      /\ Good(k) /\ k[1] \in Instr /\ Tail(k) \in Code /\ Steps(k) = {k[1][1]} \cup Steps(Tail(k))
      /\ RunsTop(sp, c, f)
  <2>1. Doing(c, t, z, f, k) /\ k # <<>> /\ k[1][1] # "pick"
    BY <1>2
  <2> QED
    BY <2>1, Onward
<1>4. PICK g \in Frames : Onto(c, t, z, f, k, g)
  <2>1. Doing(c, t, z, f, k) /\ k # <<>> /\ k[1][1] # "pick"
    BY <1>2
  <2> QED
    BY <2>1, Onward
<1>5. HeldBy(Tail(k)) = HeldBy(k) \cup {k[1][2]} /\ Depth(Tail(k)) = Depth(k) /\ k[1][2] \in Locks
  BY <1>2, <1>3, DepthStep
<1> DEFINE y == <<g>> \o Tail(z)
           l == k[1][2]
<1>6. y \in Seq(Frames) /\ Goto(c, <<>>) = [sp.stack EXCEPT ![t] = y]
  BY <1>4 DEF Onto
<1>7. sp \in States
  BY DEF Fit
<1> HIDE DEF y
<1>8. sp' = [sp EXCEPT !.cpu = [sp.cpu EXCEPT ![l] = c], !.stack = [sp.stack EXCEPT ![t] = y]]
  BY <1>1, <1>3, <1>6, <1>7 DEF States
<1>9. /\ sp' \in States /\ sp'.flag = sp.flag /\ sp'.ncli = sp.ncli /\ sp'.intena = sp.intena /\ sp'.proc = sp.proc
      /\ sp'.cpu = [sp.cpu EXCEPT ![l] = c] /\ sp'.locked = sp.locked /\ sp'.pid = sp.pid
      /\ sp'.state = sp.state /\ sp'.panic = sp.panic /\ sp'.stack = [sp.stack EXCEPT ![t] = y]
  <2> DEFINE Q == [sp.cpu EXCEPT ![l] = c]
             Z == [sp.stack EXCEPT ![t] = y]
  <2>1. Q \in [Locks -> Cpus \cup {None}] /\ Z \in [Threads -> Seq(Frames)]
    BY <1>6, <1>7 DEF States
  <2>2. sp' = [sp EXCEPT !.cpu = Q, !.stack = Z]
    BY <1>8
  <2> HIDE DEF Q, Z
  <2>3. /\ sp' \in States /\ sp'.cpu = Q /\ sp'.stack = Z /\ sp'.flag = sp.flag /\ sp'.ncli = sp.ncli
        /\ sp'.intena = sp.intena /\ sp'.proc = sp.proc /\ sp'.locked = sp.locked /\ sp'.pid = sp.pid
        /\ sp'.state = sp.state /\ sp'.panic = sp.panic
    BY <1>7, <2>1, <2>2 DEF States
  <2> QED
    BY <2>3 DEF Q, Z
<1>10. sp.cpu[l] = None /\ \A d \in Cpus : d # None
  BY <1>1, <1>3, ThreadFacts
<1>11. \A m \in Locks : sp'.cpu[m] = IF m = l THEN c ELSE sp.cpu[m]
  BY <1>5, <1>7, <1>9 DEF States
<1>12. Local(sp, sp', c)
  BY <1>7, <1>9, <1>10, <1>11 DEF Fit, Local
<1>13. g.code = Tail(k) /\ g.handler = f.handler
  BY <1>4 DEF Onto
<1>14. RunsTop(sp', c, g)
  <2>1. \A m \in Locks : sp'.cpu[m] = c <=> m \in HeldBy(g.code)
    BY <1>3, <1>5, <1>11, <1>13 DEF RunsTop
  <2>2. sp'.proc[c] # None /\ ~g.handler => IF sp'.ncli[c] = 0 THEN sp'.flag[c] ELSE sp'.intena[c]
    <3>1. k # forkret
      BY <1>2, ForkretFine
    <3> QED
      BY <1>2, <1>3, <1>9, <1>13, <3>1 DEF RunsTop
  <2> QED
    BY <1>3, <1>5, <1>9, <1>13, <2>1, <2>2 DEF RunsTop
<1>15. Turns(sp, sp', c, t, z, f, k, g)
  BY <1>3, <1>4, <1>9, <1>12, <1>14 DEF Turns, Onto, y
<1>16. Spares(sp, sp', k, g)
  BY <1>2, <1>3, <1>9, <1>13 DEF Spares
<1> QED
  BY <1>15, <1>16, Pushed

\* release(): it never panics; popcli() turns interrupts on when the last lock is given up,
\* if they were on when the first was taken.
LEMMA ReleaseFits ==
  ASSUME NCPU \in Nat, NPROC \in Nat, Fit(sp), NEW c \in Cpus, release_popcli(c)
  PROVE  Fit(sp')
<1>1. AtOp(c, "release")
  BY DEF release_popcli
<1>2. PICK t \in Threads, z \in Seq(Frames), f \in Frames, k \in Code :
        Doing(c, t, z, f, k) /\ k # <<>> /\ k[1][1] = "release"
  BY <1>1, OpOf
<1>3. /\ View(sp, c, t, z, f, k) /\ k = f.code /\ Op(c) = k[1] /\ f.code \in CodesOf(t, f)
      /\ Good(k) /\ k[1] \in Instr /\ Tail(k) \in Code /\ Steps(k) = {k[1][1]} \cup Steps(Tail(k))
      /\ RunsTop(sp, c, f)
  <2>1. Doing(c, t, z, f, k) /\ k # <<>> /\ k[1][1] # "pick"
    BY <1>2
  <2> QED
    BY <2>1, Onward
<1>4. PICK g \in Frames : Onto(c, t, z, f, k, g)
  <2>1. Doing(c, t, z, f, k) /\ k # <<>> /\ k[1][1] # "pick"
    BY <1>2
  <2> QED
    BY <2>1, Onward
<1>5. /\ HeldBy(Tail(k)) = HeldBy(k) \ {k[1][2]} /\ Depth(Tail(k)) = Depth(k) - 1
      /\ Depth(k) # 0 /\ k[1][2] \in Locks /\ k[1][2] \in HeldBy(k)
      /\ Depth(k) \in Nat /\ Depth(Tail(k)) \in Nat
  BY <1>2, <1>3, DepthStep, DepthFacts
<1> DEFINE y == <<g>> \o Tail(z)
           l == k[1][2]
           e == sp.ncli[c] = 1 /\ sp.intena[c]
<1>6. sp.cpu[l] = c /\ sp.ncli[c] = Depth(k) /\ ~sp.flag[c]
  BY <1>3, <1>5 DEF RunsTop
<1>7. y \in Seq(Frames) /\ Goto(c, <<>>) = [sp.stack EXCEPT ![t] = y]
  BY <1>4 DEF Onto
<1>8. sp \in States
  BY DEF Fit
<1> HIDE DEF y
<1>9. sp' = [sp EXCEPT !.cpu[l] = None, !.ncli[c] = sp.ncli[c] - 1, !.flag[c] = e, !.stack = [sp.stack EXCEPT ![t] = y]]
  BY <1>3, <1>5, <1>6, <1>7 DEF release_popcli
<1> HIDE DEF e
<1>10. e \in BOOLEAN
  BY DEF e
<1>11. /\ sp' \in States /\ sp'.flag = [sp.flag EXCEPT ![c] = e] /\ sp'.ncli = [sp.ncli EXCEPT ![c] = sp.ncli[c] - 1]
       /\ sp'.intena = sp.intena /\ sp'.proc = sp.proc /\ sp'.cpu = [sp.cpu EXCEPT ![l] = None]
       /\ sp'.locked = sp.locked /\ sp'.pid = sp.pid
       /\ sp'.state = sp.state /\ sp'.panic = sp.panic /\ sp'.stack = [sp.stack EXCEPT ![t] = y]
  <2> DEFINE F == [sp.flag EXCEPT ![c] = e]
             N == [sp.ncli EXCEPT ![c] = sp.ncli[c] - 1]
             Q == [sp.cpu EXCEPT ![l] = None]
             Z == [sp.stack EXCEPT ![t] = y]
  <2>1. F \in [Cpus -> BOOLEAN] /\ Q \in [Locks -> Cpus \cup {None}] /\ Z \in [Threads -> Seq(Frames)]
    BY <1>7, <1>8, <1>10 DEF States
  <2>2. N \in [Cpus -> Nat]
    <3>1. sp.ncli \in [Cpus -> Nat] /\ sp.ncli[c] - 1 \in Nat
      BY <1>5, <1>6, <1>8 DEF States
    <3> QED
      BY <3>1
  <2>3. sp' = [sp EXCEPT !.cpu = Q, !.ncli = N, !.flag = F, !.stack = Z]
    BY <1>8, <1>9 DEF States
  <2> HIDE DEF F, N, Q, Z
  <2>4. /\ sp' \in States /\ sp'.flag = F /\ sp'.ncli = N /\ sp'.cpu = Q /\ sp'.stack = Z /\ sp'.proc = sp.proc
        /\ sp'.intena = sp.intena /\ sp'.locked = sp.locked /\ sp'.pid = sp.pid /\ sp'.state = sp.state
        /\ sp'.panic = sp.panic
    BY <1>8, <2>1, <2>2, <2>3 DEF States
  <2> QED
    BY <2>4 DEF F, N, Q, Z
<1>12. /\ sp'.flag[c] = e /\ sp'.ncli[c] = sp.ncli[c] - 1
       /\ \A m \in Locks : sp'.cpu[m] = IF m = l THEN None ELSE sp.cpu[m]
  BY <1>5, <1>8, <1>11 DEF States
<1>13. Local(sp, sp', c)
  <2>1. \A d \in Cpus : d # None
    BY ThreadFacts
  <2>2. \A d \in Cpus : d # c => /\ sp'.flag[d] = sp.flag[d] /\ sp'.ncli[d] = sp.ncli[d] /\ sp'.intena[d] = sp.intena[d]
                                 /\ \A m \in Locks : sp'.cpu[m] = d <=> sp.cpu[m] = d
    BY <1>6, <1>8, <1>11, <1>12, <2>1 DEF States
  <2> QED
    BY <1>11, <2>2 DEF Fit, Local
<1>14. g.code = Tail(k) /\ g.handler = f.handler
  BY <1>4 DEF Onto
<1>15. RunsTop(sp', c, g)
  <2>1. \A m \in Locks : sp'.cpu[m] = c <=> m \in HeldBy(g.code)
    <3>1. c # None
      BY ThreadFacts
    <3> QED
      BY <1>3, <1>5, <1>12, <1>14, <3>1 DEF RunsTop
  <2>2. sp'.ncli[c] = Depth(g.code) /\ sp'.ncli[c] \in Nat
    BY <1>5, <1>6, <1>12, <1>14
  <2>3. sp'.ncli[c] # 0 => sp.ncli[c] # 1
    BY <1>5, <1>6, <1>12
  <2>4. sp'.ncli[c] # 0 => ~sp'.flag[c]
    BY <1>12, <2>3 DEF e
  <2>5. g.handler => ~sp'.flag[c] /\ ~sp'.intena[c]
    <3>1. g.handler => ~sp.intena[c]
      BY <1>3, <1>5, <1>6, <1>14 DEF RunsTop
    <3> QED
      BY <1>11, <1>12, <3>1 DEF e
  <2>6. ASSUME sp'.proc[c] # None, ~g.handler, g.code # <<>>
        PROVE  IF sp'.ncli[c] = 0 THEN sp'.flag[c] ELSE sp'.intena[c]
    <3>1. k # forkret
      <4>1. Tail(forkret) = <<>>
        BY ReleaseLast, LockNames DEF forkret
      <4> QED
        BY <1>14, <2>6, <4>1
    <3>2. sp.intena[c]
      BY <1>2, <1>3, <1>5, <1>6, <1>11, <1>14, <2>6, <3>1 DEF RunsTop
    <3>3. sp'.ncli[c] = 0 => sp.ncli[c] = 1
      BY <1>5, <1>6, <1>12
    <3> QED
      BY <1>11, <1>12, <3>2, <3>3 DEF e
  <2> QED
    BY <2>1, <2>2, <2>4, <2>5, <2>6 DEF RunsTop
<1>16. Turns(sp, sp', c, t, z, f, k, g)
  BY <1>3, <1>4, <1>11, <1>13, <1>15 DEF Turns, Onto, y
<1>17. Spares(sp, sp', k, g)
  BY <1>2, <1>3, <1>11, <1>14 DEF Spares
<1> QED
  BY <1>16, <1>17, Pushed

\* sti in the scheduler: it holds no lock.
LEMMA StiFits ==
  ASSUME NCPU \in Nat, NPROC \in Nat, Fit(sp), NEW c \in Cpus, scheduler_sti(c)
  PROVE  Fit(sp')
<1>1. AtOp(c, "sti") /\ sp' = [sp EXCEPT !.flag[c] = TRUE, !.stack = Goto(c, <<>>)]
  BY DEF scheduler_sti
<1>2. PICK t \in Threads, z \in Seq(Frames), f \in Frames, k \in Code :
        Doing(c, t, z, f, k) /\ k # <<>> /\ k[1][1] = "sti"
  BY <1>1, OpOf
<1>3. /\ View(sp, c, t, z, f, k) /\ k = f.code /\ Op(c) = k[1] /\ f.code \in CodesOf(t, f)
      /\ Good(k) /\ k[1] \in Instr /\ Tail(k) \in Code /\ Steps(k) = {k[1][1]} \cup Steps(Tail(k))
      /\ RunsTop(sp, c, f)
  <2>1. Doing(c, t, z, f, k) /\ k # <<>> /\ k[1][1] # "pick"
    BY <1>2
  <2> QED
    BY <2>1, Onward
<1>4. PICK g \in Frames : Onto(c, t, z, f, k, g)
  <2>1. Doing(c, t, z, f, k) /\ k # <<>> /\ k[1][1] # "pick"
    BY <1>2
  <2> QED
    BY <2>1, Onward
<1>5. HeldBy(k) = {} /\ ~f.handler /\ t \notin Procs /\ sp.proc[c] = None
  BY <1>2, <1>3, CodeNext DEF Doing
<1>6. HeldBy(Tail(k)) = {} /\ Depth(Tail(k)) = Depth(k) /\ Depth(k) = 0
  <2>1. ~At(k, "xchg")
    BY <1>2 DEF At
  <2> QED
    BY <1>2, <1>3, <1>5, <2>1, DepthStep, DepthFacts
<1> DEFINE y == <<g>> \o Tail(z)
<1>7. y \in Seq(Frames) /\ Goto(c, <<>>) = [sp.stack EXCEPT ![t] = y]
  BY <1>4 DEF Onto
<1>8. sp \in States
  BY DEF Fit
<1> HIDE DEF y
<1>9. sp' = [sp EXCEPT !.flag = [sp.flag EXCEPT ![c] = TRUE], !.stack = [sp.stack EXCEPT ![t] = y]]
  BY <1>1, <1>7, <1>8 DEF States
<1>10. /\ sp' \in States /\ sp'.flag = [sp.flag EXCEPT ![c] = TRUE] /\ sp'.ncli = sp.ncli /\ sp'.intena = sp.intena /\ sp'.proc = sp.proc
       /\ sp'.cpu = sp.cpu /\ sp'.locked = sp.locked /\ sp'.pid = sp.pid
       /\ sp'.state = sp.state /\ sp'.panic = sp.panic /\ sp'.stack = [sp.stack EXCEPT ![t] = y]
  <2> DEFINE F == [sp.flag EXCEPT ![c] = TRUE]
             Z == [sp.stack EXCEPT ![t] = y]
  <2>1. F \in [Cpus -> BOOLEAN] /\ Z \in [Threads -> Seq(Frames)]
    BY <1>7, <1>8 DEF States
  <2>2. sp' = [sp EXCEPT !.flag = F, !.stack = Z]
    BY <1>9
  <2> HIDE DEF F, Z
  <2>3. /\ sp' \in States /\ sp'.flag = F /\ sp'.stack = Z /\ sp'.ncli = sp.ncli
        /\ sp'.intena = sp.intena /\ sp'.proc = sp.proc /\ sp'.cpu = sp.cpu /\ sp'.locked = sp.locked
        /\ sp'.pid = sp.pid /\ sp'.state = sp.state /\ sp'.panic = sp.panic
    BY <1>8, <2>1, <2>2 DEF States
  <2> QED
    BY <2>3 DEF F, Z
<1>11. \A d \in Cpus : sp'.flag[d] = IF d = c THEN TRUE ELSE sp.flag[d]
  BY <1>8, <1>10 DEF States
<1>12. Local(sp, sp', c)
  BY <1>10, <1>11 DEF Fit, Local
<1>13. g.code = Tail(k) /\ g.handler = f.handler
  BY <1>4 DEF Onto
<1>14. RunsTop(sp', c, g)
  BY <1>3, <1>5, <1>6, <1>10, <1>11, <1>13 DEF RunsTop
<1>15. Turns(sp, sp', c, t, z, f, k, g)
  BY <1>3, <1>4, <1>10, <1>12, <1>14 DEF Turns, Onto, y
<1>16. Spares(sp, sp', k, g)
  BY <1>2, <1>3, <1>10, <1>13 DEF Spares
<1> QED
  BY <1>15, <1>16, Pushed

\* A step that leaves the processors and the locks alone, onto code with the same locks.
LEMMA SameRuns ==
  ASSUME NEW s, NEW r, NEW c, NEW f, NEW g, RunsTop(s, c, f), g.handler = f.handler,
         r.flag = s.flag, r.ncli = s.ncli, r.intena = s.intena, r.proc = s.proc, r.cpu = s.cpu,
         HeldBy(g.code) = HeldBy(f.code), Depth(g.code) = Depth(f.code),
         f.code \notin {<<>>, forkret} \/ f.handler
  PROVE  RunsTop(r, c, g)
BY DEF RunsTop

\* Code whose next step is no release() is not that of forkret.
LEMMA NotForkret ==
  ASSUME NEW k, k # <<>>, k[1][1] # "release"
  PROVE  k \notin {<<>>, forkret}
<1> DEFINE op == <<"release", "ptable">>
<1>1. forkret[1] = op /\ op[1] = "release"
  BY ForkretFine
<1> HIDE DEF op
<1> QED
  BY <1>1

\* wakeup1(): processes that slept can be picked; nothing else is touched.
LEMMA Wakeup1Fits ==
  ASSUME NCPU \in Nat, NPROC \in Nat, Fit(sp), NEW c \in Cpus, wakeup1(c)
  PROVE  Fit(sp')
<1> DEFINE S == [p \in Procs |-> IF sp.state[p] = "SLEEPING" /\ Op(c)[2] = "slk" THEN "RUNNABLE" ELSE sp.state[p]]
<1>1. AtOp(c, "wakeup1") /\ sp' = [sp EXCEPT !.state = S, !.stack = Goto(c, <<>>)]
  BY DEF wakeup1
<1>2. PICK t \in Threads, z \in Seq(Frames), f \in Frames, k \in Code :
        Doing(c, t, z, f, k) /\ k # <<>> /\ k[1][1] = "wakeup1"
  BY <1>1, OpOf
<1>3. /\ View(sp, c, t, z, f, k) /\ k = f.code /\ Op(c) = k[1] /\ f.code \in CodesOf(t, f)
      /\ Good(k) /\ k[1] \in Instr /\ Tail(k) \in Code /\ Steps(k) = {k[1][1]} \cup Steps(Tail(k))
      /\ RunsTop(sp, c, f)
  <2>1. Doing(c, t, z, f, k) /\ k # <<>> /\ k[1][1] # "pick"
    BY <1>2
  <2> QED
    BY <2>1, Onward
<1>4. PICK g \in Frames : Onto(c, t, z, f, k, g)
  <2>1. Doing(c, t, z, f, k) /\ k # <<>> /\ k[1][1] # "pick"
    BY <1>2
  <2> QED
    BY <2>1, Onward
<1>5. HeldBy(Tail(k)) = HeldBy(k) /\ Depth(Tail(k)) = Depth(k)
  BY <1>2, <1>3, DepthStep
<1> DEFINE y == <<g>> \o Tail(z)
           Z == [sp.stack EXCEPT ![t] = y]
<1>6. y \in Seq(Frames) /\ Goto(c, <<>>) = Z
  BY <1>4 DEF Onto
<1>7. sp \in States
  BY DEF Fit
<1>8. S \in [Procs -> {"RUNNABLE", "RUNNING", "SLEEPING"}]
  BY <1>7 DEF States
<1>9. \A p \in Procs : S[p] = sp.state[p] \/ (sp.state[p] = "SLEEPING" /\ S[p] = "RUNNABLE")
  OBVIOUS
<1> HIDE DEF y, S
<1>10. Z \in [Threads -> Seq(Frames)]
  BY <1>6, <1>7 DEF States
<1> HIDE DEF Z
<1>11. /\ sp' \in States /\ sp'.flag = sp.flag /\ sp'.ncli = sp.ncli /\ sp'.intena = sp.intena /\ sp'.proc = sp.proc
       /\ sp'.cpu = sp.cpu /\ sp'.locked = sp.locked /\ sp'.pid = sp.pid
       /\ sp'.state = S /\ sp'.panic = sp.panic /\ sp'.stack = Z
  BY <1>1, <1>6, <1>7, <1>8, <1>10 DEF States
<1>12. Local(sp, sp', c)
  BY <1>9, <1>11 DEF Fit, Local
<1>13. g.code = Tail(k) /\ g.handler = f.handler
  BY <1>4 DEF Onto
<1>14. RunsTop(sp', c, g)
  <2>1. k \notin {<<>>, forkret}
    BY <1>2, ForkretFine
  <2> QED
    BY <1>3, <1>5, <1>11, <1>13, <2>1, SameRuns
<1>15. Turns(sp, sp', c, t, z, f, k, g)
  BY <1>3, <1>4, <1>11, <1>12, <1>14 DEF Turns, Onto, y, Z
<1>16. Spares(sp, sp', k, g)
  BY <1>2, <1>3, <1>11, <1>13 DEF Spares
<1> QED
  BY <1>15, <1>16, Pushed

\* while(lk->locked) in acquiresleep(), when it is: the process goes to sleep, and tests again.
LEMMA TestFits ==
  ASSUME NCPU \in Nat, NPROC \in Nat, Fit(sp), NEW c \in Cpus, acquiresleep_test(c)
  PROVE  Fit(sp')
<1>0. "while locked" # "pick" /\ "while locked" # "release"
  OBVIOUS
<1>1. AtOp(c, "while locked") /\ sp' = [sp EXCEPT !.stack = Goto(c, sleep("slk") \o <<Op(c)>>)]
  BY DEF acquiresleep_test
<1>2. PICK t \in Threads, z \in Seq(Frames), f \in Frames, k \in Code :
        Doing(c, t, z, f, k) /\ k # <<>> /\ k[1][1] = "while locked"
  BY <1>1, OpOf
<1>3. /\ View(sp, c, t, z, f, k) /\ k = f.code /\ Op(c) = k[1] /\ f.code \in CodesOf(t, f)
      /\ Good(k) /\ k[1] \in Instr /\ Tail(k) \in Code /\ RunsTop(sp, c, f)
  <2>1. k # <<>> /\ k[1][1] # "pick" /\ Doing(c, t, z, f, k)
    BY <1>0, <1>2
  <2> QED
    BY <2>1, Onward
<1>4. ~f.handler /\ t \in Procs /\ k \in Left(SleepCode)
  BY <1>2, <1>3, CodeNext
<1>5. k = TestEnd /\ (sleep("slk") \o <<k[1]>>) \o Tail(k) = SleepCode
  BY <1>2, <1>4, SleepPlaces
<1> DEFINE x == sleep("slk") \o <<k[1]>>
           g == With(f, SleepCode)
           y == <<g>> \o Tail(z)
           Z == [sp.stack EXCEPT ![t] = y]
<1>6. SleepCode \in CodesOf(t, f)
  BY <1>4, CallStarts DEF CodesOf
<1>7. g \in Frames /\ g.code = SleepCode /\ g.handler = f.handler /\ g.code \in CodesOf(t, g)
  BY <1>6, NextFrame
<1>8. Goto(c, x) = Z
  <2>1. \A v : Goto(c, v) = [sp.stack EXCEPT ![t] = <<With(f, v \o Tail(k))>> \o Tail(z)]
    BY <1>2 DEF Doing
  <2> HIDE DEF x
  <2>2. x \o Tail(k) = SleepCode
    BY <1>5 DEF x
  <2> QED
    BY <2>1, <2>2
<1> HIDE DEF g
<1>9. y \in Seq(Frames)
  BY <1>3, <1>7, NextStack
<1>10. sp \in States
  BY DEF Fit
<1> HIDE DEF y
<1>11. Z \in [Threads -> Seq(Frames)]
  BY <1>9, <1>10 DEF States
<1>12. sp' = [sp EXCEPT !.stack = Z]
  BY <1>1, <1>3, <1>8
<1> HIDE DEF Z
<1>13. /\ sp' \in States /\ sp'.flag = sp.flag /\ sp'.ncli = sp.ncli /\ sp'.intena = sp.intena /\ sp'.proc = sp.proc
       /\ sp'.cpu = sp.cpu /\ sp'.locked = sp.locked /\ sp'.pid = sp.pid
       /\ sp'.state = sp.state /\ sp'.panic = sp.panic /\ sp'.stack = Z
  BY <1>10, <1>11, <1>12 DEF States
<1>14. Local(sp, sp', c)
  BY <1>13 DEF Fit, Local
<1>15. RunsTop(sp', c, g)
  <2>1. k \notin {<<>>, forkret}
    BY <1>0, <1>2, NotForkret
  <2>2. ~At(k, "xchg") /\ HeldBy(k) = {"slk"}
    BY <1>2, <1>5, SleepFine DEF At
  <2>3. HeldBy(g.code) = HeldBy(k) /\ Depth(g.code) = Depth(k)
    BY <1>7, <2>2, CallStarts, DepthFacts
  <2> QED
    BY <1>3, <1>7, <1>13, <2>1, <2>3, SameRuns
<1>16. Turns(sp, sp', c, t, z, f, k, g)
  BY <1>3, <1>7, <1>13, <1>14, <1>15 DEF Turns, y, Z
<1>17. Spares(sp, sp', k, g)
  <2>1. "locked = 0" \in Steps(k)
    BY <1>5, SleepFine
  <2>2. "while locked" \in Steps(g.code)
    BY <1>7, CallStarts
  <2> QED
    BY <1>13, <2>1, <2>2 DEF Spares
<1> QED
  BY <1>16, <1>17, Pushed

\* The flag was clear: nobody owned the sleep-lock, and this process does now.
LEMMA TakeFits ==
  ASSUME NCPU \in Nat, NPROC \in Nat, Fit(sp), NEW c \in Cpus, acquiresleep_take(c)
  PROVE  Fit(sp')
<1>0. "while locked" # "pick" /\ "while locked" # "release"
  OBVIOUS
<1>1. /\ AtOp(c, "while locked") /\ ~sp.locked
      /\ sp' = [sp EXCEPT !.locked = TRUE, !.pid = sp.proc[c], !.stack = Goto(c, <<>>)]
  BY DEF acquiresleep_take
<1>2. PICK t \in Threads, z \in Seq(Frames), f \in Frames, k \in Code :
        Doing(c, t, z, f, k) /\ k # <<>> /\ k[1][1] = "while locked"
  BY <1>1, OpOf
<1>3. /\ View(sp, c, t, z, f, k) /\ k = f.code /\ Op(c) = k[1] /\ f.code \in CodesOf(t, f)
      /\ Good(k) /\ k[1] \in Instr /\ Tail(k) \in Code /\ RunsTop(sp, c, f)
  <2>1. Doing(c, t, z, f, k) /\ k # <<>> /\ k[1][1] # "pick"
    BY <1>0, <1>2
  <2> QED
    BY <2>1, Onward
<1>4. PICK g \in Frames : Onto(c, t, z, f, k, g)
  <2>1. Doing(c, t, z, f, k) /\ k # <<>> /\ k[1][1] # "pick"
    BY <1>0, <1>2
  <2> QED
    BY <2>1, Onward
<1>5. HeldBy(Tail(k)) = HeldBy(k) /\ Depth(Tail(k)) = Depth(k) /\ t \in Procs
  BY <1>2, <1>3, DepthStep, CodeNext
<1> DEFINE y == <<g>> \o Tail(z)
           Z == [sp.stack EXCEPT ![t] = y]
<1>6. y \in Seq(Frames) /\ Goto(c, <<>>) = Z
  BY <1>4 DEF Onto
<1>7. sp \in States
  BY DEF Fit
<1> HIDE DEF y
<1>8. Z \in [Threads -> Seq(Frames)] /\ \A p \in Procs : p # t => Z[p] = sp.stack[p]
  BY <1>6, <1>7, ThreadFacts DEF States
<1> HIDE DEF Z
<1>9. sp.proc[c] = t
  BY <1>2, <1>5 DEF Doing
<1>10. /\ sp' \in States /\ sp'.flag = sp.flag /\ sp'.ncli = sp.ncli /\ sp'.intena = sp.intena /\ sp'.proc = sp.proc
       /\ sp'.cpu = sp.cpu /\ sp'.locked = TRUE /\ sp'.pid = t
       /\ sp'.state = sp.state /\ sp'.panic = sp.panic /\ sp'.stack = Z
  BY <1>1, <1>5, <1>6, <1>7, <1>8, <1>9 DEF States
<1>11. Local(sp, sp', c)
  BY <1>10 DEF Fit, Local
<1>12. g.code = Tail(k) /\ g.handler = f.handler
  BY <1>4 DEF Onto
<1>13. RunsTop(sp', c, g)
  <2>1. k \notin {<<>>, forkret}
    BY <1>0, <1>2, NotForkret
  <2> QED
    BY <1>3, <1>5, <1>10, <1>12, <2>1, SameRuns
<1>14. Turns(sp, sp', c, t, z, f, k, g)
  BY <1>3, <1>4, <1>10, <1>11, <1>13 DEF Turns, Onto, y, Z
<1>15. SleepLock(sp')
  <2>1. \A p \in Procs : ~Critical(sp.stack[p])
    BY <1>1 DEF Fit, SleepLock
  <2>2. \A p \in Procs : p # t => ~Critical(sp'.stack[p])
    BY <1>8, <1>10, <2>1
  <2> QED
    BY <1>10, <2>2 DEF SleepLock
<1> QED
  BY <1>14, <1>15, Pushed

\* The owner clears the flag; nobody owns the sleep-lock then.
LEMMA FreeFits ==
  ASSUME NCPU \in Nat, NPROC \in Nat, Fit(sp), NEW c \in Cpus, releasesleep_free(c)
  PROVE  Fit(sp')
<1>0. "locked = 0" # "pick" /\ "locked = 0" # "release"
  OBVIOUS
<1>1. /\ AtOp(c, "locked = 0")
      /\ sp' = [sp EXCEPT !.locked = FALSE, !.pid = None, !.stack = Goto(c, <<>>)]
  BY DEF releasesleep_free
<1>2. PICK t \in Threads, z \in Seq(Frames), f \in Frames, k \in Code :
        Doing(c, t, z, f, k) /\ k # <<>> /\ k[1][1] = "locked = 0"
  BY <1>1, OpOf
<1>3. /\ View(sp, c, t, z, f, k) /\ k = f.code /\ Op(c) = k[1] /\ f.code \in CodesOf(t, f)
      /\ Good(k) /\ k[1] \in Instr /\ Tail(k) \in Code /\ RunsTop(sp, c, f)
  <2>1. Doing(c, t, z, f, k) /\ k # <<>> /\ k[1][1] # "pick"
    BY <1>0, <1>2
  <2> QED
    BY <2>1, Onward
<1>4. PICK g \in Frames : Onto(c, t, z, f, k, g)
  <2>1. Doing(c, t, z, f, k) /\ k # <<>> /\ k[1][1] # "pick"
    BY <1>0, <1>2
  <2> QED
    BY <2>1, Onward
<1>5. HeldBy(Tail(k)) = HeldBy(k) /\ Depth(Tail(k)) = Depth(k)
  BY <1>2, <1>3, DepthStep
<1>6. ~f.handler /\ t \in Procs /\ k \in Left(SleepCode)
  BY <1>2, <1>3, CodeNext
<1>7. k = FreeEnd /\ Tail(k) = WakeEnd
  BY <1>2, <1>6, SleepPlaces
<1> DEFINE y == <<g>> \o Tail(z)
           Z == [sp.stack EXCEPT ![t] = y]
<1>8. y \in Seq(Frames) /\ Goto(c, <<>>) = Z
  BY <1>4 DEF Onto
<1>9. sp \in States
  BY DEF Fit
<1>10. g.code = Tail(k) /\ g.handler = f.handler
  BY <1>4 DEF Onto
<1>11. Critical(z) /\ ~Critical(y)
  <2>1. z = <<f>> \o <<>> /\ Tail(z) = <<>>
    BY <1>3, <1>6, StackIs DEF View
  <2>2. Names(<<>>) = {} /\ Names(<<f>> \o <<>>) = Steps(f.code) \cup Names(<<>>)
        /\ Names(<<g>> \o <<>>) = Steps(g.code) \cup Names(<<>>)
    BY NamesCat
  <2>3. Names(z) = Steps(k) /\ Names(y) = Steps(Tail(k))
    BY <1>3, <1>10, <2>1, <2>2
  <2>4. Steps(k) = {"locked = 0", "eflags", "xchg", "wakeup1", "release"}
        /\ Steps(Tail(k)) = {"eflags", "xchg", "wakeup1", "release"}
    BY <1>7, ReleasesleepFine
  <2>5. "while locked" \notin {"locked = 0", "eflags", "xchg", "wakeup1", "release"}
        /\ "locked = 0" \notin {"eflags", "xchg", "wakeup1", "release"}
    OBVIOUS
  <2> HIDE DEF y
  <2> QED
    BY <2>3, <2>4, <2>5 DEF Critical
<1> HIDE DEF y
<1>12. Z \in [Threads -> Seq(Frames)] /\ \A p \in Procs : Z[p] = IF p = t THEN y ELSE sp.stack[p]
  BY <1>8, <1>9, ThreadFacts DEF States
<1> HIDE DEF Z
<1>13. /\ sp' \in States /\ sp'.flag = sp.flag /\ sp'.ncli = sp.ncli /\ sp'.intena = sp.intena /\ sp'.proc = sp.proc
       /\ sp'.cpu = sp.cpu /\ sp'.locked = FALSE /\ sp'.pid = None
       /\ sp'.state = sp.state /\ sp'.panic = sp.panic /\ sp'.stack = Z
  BY <1>1, <1>8, <1>9, <1>12 DEF States
<1>14. Local(sp, sp', c)
  BY <1>13 DEF Fit, Local
<1>15. RunsTop(sp', c, g)
  <2>1. k \notin {<<>>, forkret}
    BY <1>0, <1>2, NotForkret
  <2> QED
    BY <1>3, <1>5, <1>10, <1>13, <2>1, SameRuns
<1>16. Turns(sp, sp', c, t, z, f, k, g)
  BY <1>3, <1>4, <1>13, <1>14, <1>15 DEF Turns, Onto, y, Z
<1>17. SleepLock(sp')
  <2>1. z = sp.stack[t]
    BY <1>3 DEF View
  <2>2. sp.pid = t
    BY <1>6, <1>11, <2>1 DEF Fit, SleepLock
  <2>3. \A p \in Procs : p # t => ~Critical(sp.stack[p])
    BY <2>2 DEF Fit, SleepLock
  <2>4. \A p \in Procs : ~Critical(sp'.stack[p])
    BY <1>11, <1>12, <1>13, <2>3
  <2> QED
    BY <2>4 DEF SleepLock
<1> QED
  BY <1>16, <1>17, Pushed

\* The end of the timer's handler: the interrupted process yields, a scheduler goes on.
LEMMA TrapYieldFits ==
  ASSUME NCPU \in Nat, NPROC \in Nat, Fit(sp), NEW c \in Cpus, trap_yield(c)
  PROVE  Fit(sp')
<1> DEFINE x == IF sp.proc[c] = None THEN <<>> ELSE yield
<1>0. "if myproc yield" \notin {"pick", "release", "while locked"}
  OBVIOUS
<1>1. AtOp(c, "if myproc yield") /\ sp' = [sp EXCEPT !.stack = Goto(c, x)]
  BY DEF trap_yield
<1>2. PICK t \in Threads, z \in Seq(Frames), f \in Frames, k \in Code :
        Doing(c, t, z, f, k) /\ k # <<>> /\ k[1][1] = "if myproc yield"
  BY <1>1, OpOf
<1>3. /\ View(sp, c, t, z, f, k) /\ k = f.code /\ Op(c) = k[1] /\ f.code \in CodesOf(t, f)
      /\ Good(k) /\ k[1] \in Instr /\ Tail(k) \in Code /\ RunsTop(sp, c, f)
  <2>1. Doing(c, t, z, f, k) /\ k # <<>> /\ k[1][1] # "pick"
    BY <1>0, <1>2
  <2> QED
    BY <2>1, Onward
<1>4. f.handler /\ HeldBy(k) = {} /\ Tail(k) = <<>> /\ Tail(k) \in CodesOf(t, f)
  BY <1>2, <1>3, CodeNext
<1>5. x \in CodesOf(t, f) /\ x \in Code /\ HeldBy(x) = {} /\ Depth(x) = 0 /\ "locked = 0" \notin Steps(x)
  <2>1. CASE sp.proc[c] = None
    <3>1. Steps(<<>>) = {} /\ <<>> \in Code /\ HeldBy(<<>>) = {} /\ Depth(<<>>) = 0
      BY StepsOf, EmptyHolds
    <3> QED
      BY <1>4, <2>1, <3>1
  <2>2. CASE sp.proc[c] # None
    <3>1. t \in Procs
      BY <1>2, <2>2 DEF Doing
    <3>2. yield \in HandlerCodes /\ yield \in Code /\ HeldBy(yield) = {} /\ Depth(yield) = 0
      BY HandlerStarts
    <3>3. "locked = 0" \notin Steps(yield)
      BY YieldFine
    <3> HIDE DEF yield
    <3> QED
      BY <1>4, <2>2, <3>1, <3>2, <3>3 DEF CodesOf
  <2> QED
    BY <2>1, <2>2
<1> HIDE DEF x
<1> DEFINE g == With(f, x)
           y == <<g>> \o Tail(z)
           Z == [sp.stack EXCEPT ![t] = y]
<1>6. g \in Frames /\ g.code = x /\ g.handler = f.handler /\ g.code \in CodesOf(t, g)
  <2>1. x \in CodesOf(t, f)
    BY <1>5
  <2> QED
    BY <2>1, NextFrame
<1>7. Goto(c, x) = Z
  <2>1. \A v : Goto(c, v) = [sp.stack EXCEPT ![t] = <<With(f, v \o Tail(k))>> \o Tail(z)]
    BY <1>2 DEF Doing
  <2>2. x \o Tail(k) = x
    BY <1>4, <1>5, Alone
  <2> QED
    BY <2>1, <2>2
<1> HIDE DEF g
<1>8. y \in Seq(Frames)
  BY <1>3, <1>6, NextStack
<1>9. sp \in States
  BY DEF Fit
<1> HIDE DEF y
<1>10. Z \in [Threads -> Seq(Frames)]
  BY <1>8, <1>9 DEF States
<1> HIDE DEF Z
<1>11. /\ sp' \in States /\ sp'.flag = sp.flag /\ sp'.ncli = sp.ncli /\ sp'.intena = sp.intena /\ sp'.proc = sp.proc
       /\ sp'.cpu = sp.cpu /\ sp'.locked = sp.locked /\ sp'.pid = sp.pid
       /\ sp'.state = sp.state /\ sp'.panic = sp.panic /\ sp'.stack = Z
  BY <1>1, <1>7, <1>9, <1>10 DEF States
<1>12. Local(sp, sp', c)
  BY <1>11 DEF Fit, Local
<1>13. RunsTop(sp', c, g)
  <2>1. ~At(k, "xchg")
    BY <1>2 DEF At
  <2>2. HeldBy(g.code) = HeldBy(k) /\ Depth(g.code) = Depth(k)
    BY <1>4, <1>5, <1>6, <2>1, DepthFacts
  <2> QED
    BY <1>3, <1>4, <1>6, <1>11, <2>2, SameRuns
<1>14. Turns(sp, sp', c, t, z, f, k, g)
  BY <1>3, <1>6, <1>11, <1>12, <1>13 DEF Turns, y, Z
<1>15. Spares(sp, sp', k, g)
  <2>1. "while locked" \notin Steps(k)
    <3>1. Steps(Tail(k)) = {}
      BY <1>4, StepsOf
    <3> QED
      BY <1>0, <1>2, <3>1, StepsTail
  <2> QED
    BY <1>5, <1>6, <1>11, <2>1 DEF Spares
<1> QED
  BY <1>14, <1>15, Pushed

\* A stack that owns the sleep-lock only if it did.
LEMMA SleepKept ==
  ASSUME NCPU \in Nat, NPROC \in Nat, NEW s, Fit(s), NEW r, r.locked = s.locked, r.pid = s.pid,
         NEW t \in Threads, NEW y, r.stack = [s.stack EXCEPT ![t] = y],
         Critical(y) => Critical(s.stack[t])
  PROVE  SleepLock(r)
<1>1. s.stack \in [Threads -> Seq(Frames)]
  BY DEF Fit, States
<1>2. \A p \in Procs : r.stack[p] = IF p = t THEN y ELSE s.stack[p]
  BY <1>1, ThreadFacts
<1>3. \A p \in Procs : Critical(r.stack[p]) => Critical(s.stack[p])
  BY <1>2
<1> QED
  BY <1>3 DEF Fit, SleepLock

\* A frame that starts.
LEMMA NewFrame ==
  ASSUME NEW x \in Codes, NEW h \in BOOLEAN
  PROVE  /\ Frame(x, h) \in Frames /\ Frame(x, h).code = x /\ Frame(x, h).handler = h
         /\ Frame(x, h).intena = FALSE
BY DEF Frame, Frames

\* A system call starts with no lock, interrupts on and the sleep-lock not its own.
LEMMA SyscallFits ==
  ASSUME NCPU \in Nat, NPROC \in Nat, Fit(sp), NEW c \in Cpus, syscall(c)
  PROVE  Fit(sp')
<1>1. sp.proc[c] # None /\ Stack(c) = <<>>
  BY DEF syscall
<1>2. PICK code \in {sys_uptime, acquiresleep \o releasesleep} :
        sp' = [sp EXCEPT !.stack[sp.proc[c]] = <<Frame(code, FALSE)>>]
  BY DEF syscall
<1>3. code \in CallCodes /\ code \in Code /\ HeldBy(code) = {} /\ Depth(code) = 0
  BY CallStarts
<1>4. "locked = 0" \notin Steps(code) \/ "while locked" \in Steps(code)
  <2>1. "locked = 0" \notin Steps(sys_uptime)
    <3>1. "locked = 0" \notin {"eflags", "xchg", "release"}
      OBVIOUS
    <3> QED
      BY <3>1, UptimeFine
  <2>2. "while locked" \in Steps(acquiresleep \o releasesleep)
    <3>1. acquiresleep \o releasesleep = TakeEnd
      BY SleepCuts
    <3>2. Steps(TakeEnd) = {"while locked"} \cup Steps(AfterEnd)
      BY SleepFine
    <3> QED
      BY <3>1, <3>2
  <2> QED
    BY <2>1, <2>2
<1> DEFINE t == On(sp, c)
           h == Frame(code, FALSE)
           y == <<h>>
<1>5. /\ t \in Threads /\ t \in Procs /\ t = sp.proc[c] /\ Runs(sp, c, sp.stack[t]) /\ sp.stack[t] = <<>>
  BY <1>1, OnFacts DEF Stack, Thread, On
<1>6. h \in Frames /\ h.code = code /\ h.handler = FALSE
  BY <1>3, NewFrame DEF Codes
<1> HIDE DEF t, h
<1>7. y \in Stacks(t) /\ y # <<>> /\ y[1] = h
  BY <1>3, <1>5, <1>6, BaseStack DEF CodesOf
<1>8. Names(y) = Steps(code)
  <2>1. y = <<h>> \o <<>>
    BY <1>6, FrameCat
  <2>2. Names(<<h>> \o <<>>) = Steps(h.code) \cup Names(<<>>) /\ Names(<<>>) = {}
    BY <1>6, NamesCat
  <2> QED
    BY <1>6, <2>1, <2>2
<1>9. sp \in States /\ y \in Seq(Frames)
  BY <1>7, StackIs DEF Fit
<1>10. ~Critical(y)
  BY <1>4, <1>8 DEF Critical
<1>11. sp' = [sp EXCEPT !.stack = [sp.stack EXCEPT ![t] = y]]
  BY <1>2, <1>5, <1>9 DEF States, h
<1> HIDE DEF y
<1> DEFINE Z == [sp.stack EXCEPT ![t] = y]
<1>12. Z \in [Threads -> Seq(Frames)]
  BY <1>9 DEF States
<1> HIDE DEF Z
<1>13. /\ sp' \in States /\ sp'.flag = sp.flag /\ sp'.ncli = sp.ncli /\ sp'.intena = sp.intena /\ sp'.proc = sp.proc
       /\ sp'.cpu = sp.cpu /\ sp'.locked = sp.locked /\ sp'.pid = sp.pid
       /\ sp'.state = sp.state /\ sp'.panic = sp.panic /\ sp'.stack = Z
  BY <1>9, <1>11, <1>12 DEF States, Z
<1>14. Local(sp, sp', c)
  BY <1>13 DEF Fit, Local
<1>15. Runs(sp', c, y)
  BY <1>3, <1>5, <1>6, <1>7, <1>13 DEF Runs
<1>16. SleepLock(sp')
  BY <1>5, <1>10, <1>13, SleepKept DEF Z
<1> QED
  BY <1>5, <1>7, <1>13, <1>14, <1>15, <1>16, Goes DEF Z, t

\* The timer strikes a thread that has interrupts on, so holds no lock and is in no handler.
LEMMA InterruptFits ==
  ASSUME NCPU \in Nat, NPROC \in Nat, Fit(sp), NEW c \in Cpus, interrupt(c)
  PROVE  Fit(sp')
<1> DEFINE t == On(sp, c)
           z == sp.stack[t]
           h == Frame(timer(c), TRUE)
           y == <<h>> \o z
<1>1. /\ t \in Threads /\ z \in Stacks(t) /\ Runs(sp, c, z) /\ Thread(c) = t
  BY OnFacts DEF Thread, On
<1>2. sp.flag[c] /\ sp' = [sp EXCEPT !.flag[c] = FALSE, !.stack[t] = y]
  BY <1>1 DEF interrupt
<1>3. /\ timer(c) \in HandlerCodes /\ timer(c) \in Left(TimerCode) /\ timer(c) \in Code
      /\ HeldBy(timer(c)) = {} /\ Depth(timer(c)) = 0
  BY HandlerStarts, TimerFine
<1>4. h \in Frames /\ h.code = timer(c) /\ h.handler = TRUE
  BY <1>3, NewFrame DEF Codes
<1>5. sp \in States
  BY DEF Fit
<1> HIDE DEF h, z, t
<1>6. h.code \in CodesOf(t, h)
  BY <1>3, <1>4 DEF CodesOf
<1>7. /\ z # <<>> => ~z[1].handler /\ Depth(z[1].code) = 0 /\ z[1] \in Frames /\ z[1].code \in Code
      /\ z = <<>> => t \in Procs
      /\ sp.ncli[c] = 0 /\ \A l \in Locks : sp.cpu[l] # c
  <2>1. /\ z # <<>> => z[1] \in Frames /\ z[1].code \in CodesOf(t, z[1])
        /\ z = <<>> => t \in Procs
    BY <1>1, StackIs
  <2>2. z # <<>> => z[1].code \in Code
    BY <2>1, CodeNext
  <2>3. sp.ncli[c] = 0
    BY <1>1, <1>2 DEF Runs
  <2>4. z # <<>> => ~z[1].handler /\ Depth(z[1].code) = 0
    BY <1>1, <1>2, <2>3 DEF Runs
  <2>5. z # <<>> => HeldBy(z[1].code) = {}
    BY <2>2, <2>4, DepthFacts
  <2>6. \A l \in Locks : sp.cpu[l] # c
    BY <1>1, <2>5 DEF Runs
  <2> QED
    BY <2>1, <2>2, <2>3, <2>4, <2>6
<1>8. y \in Stacks(t)
  BY <1>1, <1>4, <1>6, <1>7, StackEnter
<1>9. z \in {<<>>} \cup {<<g>> : g \in Frames}
  <2>1. z # <<>> => z \in Bases(t)
    BY <1>1, <1>7, StackIs
  <2> QED
    BY <2>1 DEF Bases
<1>10. y # <<>> /\ y[1] = h /\ y \in Seq(Frames)
  <2>1. y # <<>> /\ y[1] = h
    BY <1>4, <1>9, FrameCat
  <2>2. y \in Seq(Frames)
    BY <1>8, StackIs
  <2> QED
    BY <2>1, <2>2
<1>11. Critical(y) => Critical(z)
  <2>1. Names(y) = Steps(h.code) \cup Names(z)
    BY <1>4, <1>9, NamesCat
  <2>2. "locked = 0" \notin Steps(h.code)
    BY <1>4, <1>6, CodeNext
  <2> HIDE DEF y
  <2> QED
    BY <2>1, <2>2 DEF Critical
<1> HIDE DEF y
<1> DEFINE Z == [sp.stack EXCEPT ![t] = y]
           F == [sp.flag EXCEPT ![c] = FALSE]
<1>12. Z \in [Threads -> Seq(Frames)] /\ F \in [Cpus -> BOOLEAN] /\ F[c] = FALSE /\ \A d \in Cpus : d # c => F[d] = sp.flag[d]
  BY <1>5, <1>10 DEF States
<1>13. sp' = [sp EXCEPT !.flag = F, !.stack = Z]
  BY <1>2, <1>5 DEF States
<1> HIDE DEF Z, F
<1>14. /\ sp' \in States /\ sp'.flag = F /\ sp'.ncli = sp.ncli /\ sp'.intena = sp.intena /\ sp'.proc = sp.proc
       /\ sp'.cpu = sp.cpu /\ sp'.locked = sp.locked /\ sp'.pid = sp.pid
       /\ sp'.state = sp.state /\ sp'.panic = sp.panic /\ sp'.stack = Z
  BY <1>5, <1>12, <1>13 DEF States
<1>15. Local(sp, sp', c)
  BY <1>12, <1>14 DEF Fit, Local
<1>16. Runs(sp', c, y)
  BY <1>3, <1>4, <1>7, <1>10, <1>12, <1>14 DEF Runs
<1>17. SleepLock(sp')
  BY <1>1, <1>11, <1>14, SleepKept DEF Z, z
<1> QED
  BY <1>1, <1>8, <1>14, <1>15, <1>16, <1>17, Goes DEF Z, t

\* iret: interrupts are on again, and what was interrupted goes on.
LEMMA IretFits ==
  ASSUME NCPU \in Nat, NPROC \in Nat, Fit(sp), NEW c \in Cpus, iret(c)
  PROVE  Fit(sp')
<1> DEFINE t == On(sp, c)
           z == sp.stack[t]
           y == Tail(z)
           f == z[1]
<1>1. /\ t \in Threads /\ z \in Stacks(t) /\ Runs(sp, c, z) /\ Thread(c) = t
  BY OnFacts DEF Thread, On
<1>2. z # <<>> /\ f.code = <<>> /\ sp' = [sp EXCEPT !.flag[c] = TRUE, !.stack[t] = y]
  BY <1>1 DEF iret, Stack, Top
<1>3. sp \in States
  BY DEF Fit
<1> HIDE DEF t
<1>4. /\ f \in Frames /\ f.code \in CodesOf(t, f)
      /\ y \in Bases(t) \cup {<<>>} /\ z = <<f>> \o y
      /\ y # <<>> => f.handler /\ Depth(y[1].code) = 0
      /\ ~f.handler => y = <<>>
      /\ f.handler => y \in Bases(t)
  BY <1>1, <1>2, StackIs
<1> HIDE DEF z, f, y
<1>5. f.handler \/ t \in Procs
  BY <1>2, <1>4, CodeNext
<1>6. y \in Bases(t) /\ y \in Stacks(t)
  BY <1>4, <1>5, BaseStack
<1>7. y # <<>> => y[1] \in Frames /\ ~y[1].handler /\ HeldBy(y[1].code) = {} /\ Depth(y[1].code) = 0
  <2>1. y # <<>> => y[1] \in Frames /\ y[1].code \in CodesOf(t, y[1])
    BY <1>6, StackIs
  <2>2. y # <<>> => y[1].code \in Code
    BY <2>1, CodeNext
  <2>3. y # <<>> => ~y[1].handler
    BY <1>6 DEF Bases
  <2> QED
    BY <1>4, <2>1, <2>2, <2>3, DepthFacts
<1>8. sp.ncli[c] = 0 /\ \A l \in Locks : sp.cpu[l] # c
  <2>1. HeldBy(<<>>) = {} /\ Depth(<<>>) = 0
    BY EmptyHolds
  <2> QED
    BY <1>1, <1>2, <2>1 DEF Runs, f
<1>9. Critical(y) => Critical(z)
  <2>1. y \in {<<>>} \cup {<<g>> : g \in Frames}
    BY <1>6 DEF Bases
  <2>2. Names(z) = Steps(f.code) \cup Names(y)
    BY <1>4, <2>1, NamesCat
  <2>3. Steps(<<>>) = {}
    BY StepsOf
  <2> QED
    BY <1>2, <2>2, <2>3 DEF Critical
<1>10. y \in Seq(Frames)
  BY <1>6, StackIs
<1> DEFINE Z == [sp.stack EXCEPT ![t] = y]
           F == [sp.flag EXCEPT ![c] = TRUE]
<1>11. Z \in [Threads -> Seq(Frames)] /\ F \in [Cpus -> BOOLEAN] /\ F[c] = TRUE /\ \A d \in Cpus : d # c => F[d] = sp.flag[d]
  BY <1>3, <1>10 DEF States
<1>12. sp' = [sp EXCEPT !.flag = F, !.stack = Z]
  BY <1>2, <1>3 DEF States
<1> HIDE DEF Z, F
<1>13. /\ sp' \in States /\ sp'.flag = F /\ sp'.ncli = sp.ncli /\ sp'.intena = sp.intena /\ sp'.proc = sp.proc
       /\ sp'.cpu = sp.cpu /\ sp'.locked = sp.locked /\ sp'.pid = sp.pid
       /\ sp'.state = sp.state /\ sp'.panic = sp.panic /\ sp'.stack = Z
  BY <1>3, <1>11, <1>12 DEF States
<1>14. Local(sp, sp', c)
  BY <1>11, <1>13 DEF Fit, Local
<1>15. Runs(sp', c, y)
  BY <1>7, <1>8, <1>11, <1>13 DEF Runs
<1>16. SleepLock(sp')
  BY <1>1, <1>9, <1>13, SleepKept DEF Z, z
<1> QED
  BY <1>1, <1>6, <1>13, <1>14, <1>15, <1>16, Goes DEF Z, t

\* sched(): it never panics; the process leaves with ptable.lock held and the flag of its first
\* pushcli() saved in its frame, and the scheduler goes on holding the lock in its turn.
LEMMA SchedFits ==
  ASSUME NCPU \in Nat, NPROC \in Nat, Fit(sp), NEW c \in Cpus, sched_leave(c)
  PROVE  Fit(sp')
<1>1. AtOp(c, "sched")
  BY DEF sched_leave
<1>2. PICK t \in Threads, z \in Seq(Frames), f \in Frames, k \in Code :
        Doing(c, t, z, f, k) /\ k # <<>> /\ k[1][1] = "sched"
  BY <1>1, OpOf
<1>3. /\ View(sp, c, t, z, f, k) /\ k = f.code /\ Op(c) = k[1] /\ f.code \in CodesOf(t, f)
      /\ Good(k) /\ k[1] \in Instr /\ Tail(k) \in Code /\ Steps(k) = {k[1][1]} \cup Steps(Tail(k))
      /\ RunsTop(sp, c, f)
  <2>1. Doing(c, t, z, f, k) /\ k # <<>> /\ k[1][1] # "pick"
    BY <1>2
  <2> QED
    BY <2>1, Onward
<1>4. PICK g0 \in Frames : Onto(c, t, z, f, k, g0)
  <2>1. Doing(c, t, z, f, k) /\ k # <<>> /\ k[1][1] # "pick"
    BY <1>2
  <2> QED
    BY <2>1, Onward
<1>5. /\ HeldBy(k) = {"ptable"} /\ HeldBy(Tail(k)) = {"ptable"} /\ Tail(k) # <<>>
      /\ Tail(k)[1] = <<"release", "ptable">> /\ Depth(k) = 1 /\ k[1][2] \in {"SLEEPING", "RUNNABLE"}
  <2>1. HeldBy(k) = {"ptable"} /\ Tail(k) # <<>> /\ Tail(k)[1] = <<"release", "ptable">>
    BY <1>2, <1>3 DEF Good
  <2>2. HeldBy(Tail(k)) = HeldBy(k)
    BY <1>2, <1>3, DepthStep
  <2>3. ~At(k, "xchg")
    BY <1>2 DEF At
  <2>4. Depth(k) = 1
    BY <2>1, <2>3, DepthOne
  <2>5. k[1][2] \in {"SLEEPING", "RUNNABLE"}
    BY <1>2, <1>3, InstrFacts
  <2> QED
    BY <2>1, <2>2, <2>4, <2>5
<1>6. t \in Procs /\ sp.proc[c] = t /\ sp.proc[c] # None /\ t = On(sp, c) /\ z = sp.stack[t] /\ z \in Stacks(t)
      /\ z # <<>> /\ f = z[1]
  BY <1>2, <1>3, CodeNext DEF Doing, View
<1>7. sp.cpu["ptable"] = c /\ sp.ncli[c] = 1 /\ ~sp.flag[c]
  BY <1>3, <1>5, LockNames DEF RunsTop
<1> DEFINE h == [f EXCEPT !.intena = sp.intena[c]]
<1>8. sp \in States
  BY DEF Fit
<1>9. h \in Frames /\ h.code = k /\ h.handler = f.handler /\ h.intena = sp.intena[c]
  <2>1. sp.intena[c] \in BOOLEAN
    BY <1>8 DEF States
  <2> QED
    BY <1>3, <2>1, FrameSaves
<1> DEFINE g == With(h, Tail(k))
<1>10. sp' = [sp EXCEPT !.state[t] = k[1][2], !.proc[c] = None, !.stack = [sp.stack EXCEPT ![t] = <<g>> \o Tail(z)]]
  <2>1. \A v : Push(c, v, <<>>) = [sp.stack EXCEPT ![t] = <<With(v, <<>> \o Tail(v.code))>> \o Tail(z)]
    BY <1>2 DEF Doing
  <2>2. <<>> \o Tail(k) = Tail(k)
    BY <1>2, <1>3, NextCode
  <2>3. Top(c) = f
    BY <1>2 DEF Doing
  <2> HIDE DEF h
  <2>4. Push(c, h, <<>>) = [sp.stack EXCEPT ![t] = <<g>> \o Tail(z)]
    BY <1>9, <2>1, <2>2
  <2>5. sp' = [sp EXCEPT !.state[t] = k[1][2], !.proc[c] = None, !.stack = Push(c, h, <<>>)]
    BY <1>3, <1>6, <1>7, <2>3 DEF sched_leave, h
  <2> QED
    BY <2>4, <2>5
<1> HIDE DEF h
<1>11. Tail(k) \in CodesOf(t, h)
  <2>1. Tail(k) \in CodesOf(t, f)
    BY <1>2, <1>3, CodeNext
  <2> QED
    BY <1>9, <2>1, SameKind
<1>12. g \in Frames /\ g.code = Tail(k) /\ g.handler = f.handler /\ g.code \in CodesOf(t, g) /\ g.intena = sp.intena[c]
  <2> DEFINE v == Tail(k)
  <2>1. h \in Frames /\ v \in CodesOf(t, h)
    BY <1>9, <1>11
  <2> HIDE DEF v
  <2>2. /\ With(h, v) \in Frames /\ With(h, v).code = v
        /\ With(h, v).handler = h.handler /\ With(h, v).intena = h.intena
        /\ v \in CodesOf(t, With(h, v))
    BY <2>1, NextFrame
  <2> QED
    BY <1>9, <2>2 DEF v
<1> HIDE DEF g
<1> DEFINE y == <<g>> \o Tail(z)
<1>13. y \in Stacks(t) /\ y \in Seq(Frames) /\ y # <<>> /\ y[1] = g
  <2>1. y \in Stacks(t)
    BY <1>6, <1>12, StackPush
  <2>2. Tail(z) \in {<<>>} \cup {<<v>> : v \in Frames}
    BY <1>6, StackIs DEF Bases
  <2>3. y # <<>> /\ y[1] = g
    BY <1>12, <2>2, FrameCat
  <2> QED
    BY <2>1, <2>3, StackIs
<1>14. Critical(y) => Critical(z)
  <2>1. g.code = Tail(k) /\ Steps(k) = {"sched"} \cup Steps(Tail(k))
    BY <1>2, <1>3, <1>12
  <2>2. "while locked" # "sched"
    OBVIOUS
  <2> QED
    BY <1>3, <1>6, <1>12, <2>1, <2>2, CriticalKept
<1> HIDE DEF y
<1> DEFINE Z == [sp.stack EXCEPT ![t] = y]
           P == [sp.proc EXCEPT ![c] = None]
           S == [sp.state EXCEPT ![t] = k[1][2]]
<1>15. /\ Z \in [Threads -> Seq(Frames)] /\ Z[t] = y /\ \A u \in Threads : u # t => Z[u] = sp.stack[u]
       /\ P \in [Cpus -> Procs \cup {None}] /\ P[c] = None /\ \A d \in Cpus : d # c => P[d] = sp.proc[d]
       /\ S \in [Procs -> {"RUNNABLE", "RUNNING", "SLEEPING"}] /\ \A p \in Procs : p # t => S[p] = sp.state[p]
  BY <1>5, <1>6, <1>8, <1>13 DEF States
<1>16. sp' = [sp EXCEPT !.state = S, !.proc = P, !.stack = Z]
  BY <1>8, <1>10 DEF States, y
<1> HIDE DEF Z, P, S
<1>17. /\ sp' \in States /\ sp'.flag = sp.flag /\ sp'.ncli = sp.ncli /\ sp'.intena = sp.intena /\ sp'.proc = P
       /\ sp'.cpu = sp.cpu /\ sp'.locked = sp.locked /\ sp'.pid = sp.pid
       /\ sp'.state = S /\ sp'.panic = sp.panic /\ sp'.stack = Z
  BY <1>8, <1>15, <1>16 DEF States
<1>18. Waits(sp.stack[Scheduler(c)]) /\ Scheduler(c) # t /\ Scheduler(c) \in Threads
  BY <1>6, ThreadFacts DEF Fit, Placed
<1>19. /\ \A u \in Threads : sp'.stack[u] \in Stacks(u)
       /\ On(sp', c) = Scheduler(c) /\ \A d \in Cpus : d # c => On(sp', d) = On(sp, d)
  BY <1>13, <1>15, <1>17 DEF Fit, On
<1>20. ASSUME NEW d \in Cpus
       PROVE  Runs(sp', d, sp'.stack[On(sp', d)])
  <2>1. CASE d = c
    <3> DEFINE w == sp.stack[Scheduler(c)]
    <3>1. sp'.stack[On(sp', d)] = w
      BY <1>15, <1>17, <1>18, <1>19, <2>1
    <3>2. PICK v \in Frames : w = <<v>> /\ ~v.handler /\ v.code \in LoopCodes /\ At(v.code, "pick")
      BY <1>18 DEF Waits
    <3>3. w # <<>> /\ w[1] = v
      BY <3>2
    <3>4. HeldBy(v.code) = {"ptable"} /\ Depth(v.code) = 1
      <4>1. v.code \in Code /\ HeldBy(v.code) = {"ptable"}
        BY <3>2, LoopNext DEF At
      <4>2. ~At(v.code, "xchg")
        BY <3>2 DEF At
      <4> QED
        BY <4>1, <4>2, DepthOne
    <3>5. \A l \in Locks : sp.cpu[l] = c <=> l \in {"ptable"}
      BY <1>3, <1>5 DEF RunsTop
    <3> HIDE DEF w
    <3>6. Runs(sp', c, w)
      BY <1>7, <1>15, <1>17, <3>2, <3>3, <3>4, <3>5 DEF Runs
    <3> QED
      BY <2>1, <3>1, <3>6
  <2>2. CASE d # c
    <3>1. On(sp, d) # t /\ On(sp, d) \in Threads /\ Runs(sp, d, sp.stack[On(sp, d)])
      BY <1>6, <2>2, OnFacts
    <3>2. sp'.stack[On(sp', d)] = sp.stack[On(sp, d)] /\ sp'.proc[d] = sp.proc[d]
      BY <1>15, <1>17, <1>19, <2>2, <3>1
    <3> QED
      BY <1>17, <3>1, <3>2 DEF Runs
  <2> QED
    BY <2>1, <2>2
<1>21. Resumable(y)
  <2>1. f.handler => ~sp.intena[c]
    BY <1>3, <1>7 DEF RunsTop
  <2>2. ~f.handler => sp.intena[c]
    <3>1. k \notin {<<>>, forkret}
      BY <1>2, NotForkret
    <3> QED
      BY <1>3, <1>6, <1>7, <3>1 DEF RunsTop
  <2> QED
    BY <1>5, <1>12, <1>13, <2>1, <2>2 DEF Resumable
<1>22. Placed(sp')
  <2>1. \A d, e \in Cpus : sp'.proc[d] = sp'.proc[e] /\ sp'.proc[d] # None => d = e
    BY <1>15, <1>17 DEF Fit, Placed
  <2>2. ASSUME NEW d \in Cpus, sp'.proc[d] # None
        PROVE  sp'.state[sp'.proc[d]] = "RUNNING" /\ Waits(sp'.stack[Scheduler(d)])
    <3>1. d # c /\ sp'.proc[d] = sp.proc[d] /\ sp.proc[d] # None /\ sp.proc[d] \in Procs
      BY <1>8, <1>15, <1>17, <2>2 DEF States
    <3>2. sp.proc[d] # t /\ Scheduler(d) # t /\ Scheduler(d) \in Threads
      BY <1>6, <3>1, ThreadFacts DEF Fit, Placed
    <3>3. sp.state[sp.proc[d]] = "RUNNING" /\ Waits(sp.stack[Scheduler(d)])
      BY <3>1 DEF Fit, Placed
    <3> QED
      BY <1>15, <1>17, <3>1, <3>2, <3>3
  <2>3. ASSUME NEW p \in Procs, sp'.state[p] # "RUNNING"
        PROVE  Resumable(sp'.stack[p])
    <3>1. CASE p = t
      BY <1>15, <1>17, <1>21, <3>1
    <3>2. CASE p # t
      BY <1>15, <1>17, <2>3, <3>2, ThreadFacts DEF Fit, Placed
    <3> QED
      BY <3>1, <3>2
  <2> QED
    BY <2>1, <2>2, <2>3 DEF Placed
<1>23. SleepLock(sp')
  <2>1. t \in Threads /\ (Critical(y) => Critical(sp.stack[t]))
    BY <1>6, <1>14
  <2> QED
    BY <1>17, <2>1, SleepKept DEF Z
<1> QED
  BY <1>17, <1>19, <1>20, <1>22, <1>23 DEF Fit

\* The lowest slot.
LEMMA MinIs ==
  ASSUME NEW S \in SUBSET Nat, S # {}
  PROVE  Min(S) \in S
<1> DEFINE R == StrictSubsetOrdering(Nat)
           F == FiniteSubsetsOf(Nat)
           T == {1..x : x \in S}
<1>1. IsWellFoundedOn(R, F)
  BY FS_StrictSubsetOrderingWellFounded
<1>2. T \subseteq F /\ T # {}
  <2>1. \A x \in Nat : IsFiniteSet(1..x) /\ 1..x \in SUBSET Nat
    BY FS_Interval
  <2> QED
    BY <2>1 DEF FiniteSubsetsOf
<1>3. PICK t \in T : \A u \in T : ~ (<<u, t>> \in R)
  <2> HIDE DEF R, F, T
  <2> QED
    BY <1>1, <1>2, WFMin
<1>4. PICK x \in S : t = 1..x
  OBVIOUS
<1>5. ASSUME NEW y \in S, y < x
      PROVE  FALSE
  <2>1. 1..y \in SUBSET (1..x) /\ x \in 1..x /\ x \notin 1..y
    BY <1>5
  <2>2. 1..y \in F /\ 1..x \in F
    BY <1>2
  <2>3. <<1..y, 1..x>> \in R
    BY <2>1, <2>2 DEF StrictSubsetOrdering, FiniteSubsetsOf
  <2> QED
    BY <1>3, <1>4, <2>3
<1>6. \A y \in S : x <= y
  BY <1>5
<1> QED
  BY <1>6 DEF Min

\* The scheduler at its pick: no process of its own, ptable.lock held.
LEMMA AtPick ==
  ASSUME NCPU \in Nat, NPROC \in Nat, Fit(sp), NEW c \in Cpus, AtOp(c, "pick")
  PROVE  \E z \in Seq(Frames), f \in Frames, k \in Code :
            /\ Doing(c, Scheduler(c), z, f, k) /\ View(sp, c, Scheduler(c), z, f, k)
            /\ sp.proc[c] = None /\ k # <<>> /\ k[1][1] = "pick" /\ k = f.code /\ Op(c) = k[1] /\ k[1][2] \in Nat
            /\ z # <<>> /\ f = z[1] /\ ~f.handler /\ Tail(z) = <<>> /\ f.code \in CodesOf(Scheduler(c), f)
            /\ Tail(k) = <<>> /\ HeldBy(k) = {"ptable"} /\ Depth(k) = 1 /\ RunsTop(sp, c, f)
<1>1. PICK t \in Threads, z \in Seq(Frames), f \in Frames, k \in Code :
        Doing(c, t, z, f, k) /\ k # <<>> /\ k[1][1] = "pick"
  BY OpOf
<1>2. View(sp, c, t, z, f, k) /\ Op(c) = k[1]
  BY <1>1 DEF Doing
<1>3. k = f.code /\ f.code \in CodesOf(t, f) /\ z # <<>> /\ f = z[1] /\ z \in Stacks(t) /\ Runs(sp, c, z)
  BY <1>2 DEF View
<1>4. t \notin Procs /\ ~f.handler /\ Tail(k) = <<>> /\ HeldBy(k) = {"ptable"} /\ k[1][2] \in Nat
  BY <1>1, <1>3, CodeNext
<1>5. sp.proc[c] = None /\ t = Scheduler(c)
  <2>1. sp.proc[c] = None
    BY <1>1, <1>4 DEF Doing
  <2>2. t = On(sp, c)
    BY <1>2 DEF View
  <2> QED
    BY <2>1, <2>2 DEF On
<1>6. Tail(z) = <<>>
  BY <1>3, <1>4, StackIs
<1>7. Depth(k) = 1
  <2>1. ~At(k, "xchg")
    BY <1>1 DEF At
  <2> QED
    BY <1>4, <2>1, DepthOne
<1>8. RunsTop(sp, c, f)
  BY <1>3 DEF Runs, RunsTop
<1> QED
  BY <1>1, <1>2, <1>3, <1>4, <1>5, <1>6, <1>7, <1>8

\* Nothing left to pick: the scheduler gives the table up and goes round again.
LEMMA RoundFits ==
  ASSUME NCPU \in Nat, NPROC \in Nat, Fit(sp), NEW c \in Cpus, AtOp(c, "pick"),
         sp' = [sp EXCEPT !.stack = Goto(c, release("ptable") \o scheduler)]
  PROVE  Fit(sp')
<1> DEFINE t == Scheduler(c)
<1>1. PICK z \in Seq(Frames), f \in Frames, k \in Code :
        /\ Doing(c, t, z, f, k) /\ View(sp, c, t, z, f, k)
        /\ sp.proc[c] = None /\ k # <<>> /\ k[1][1] = "pick" /\ k = f.code /\ Op(c) = k[1] /\ k[1][2] \in Nat
        /\ z # <<>> /\ f = z[1] /\ ~f.handler /\ Tail(z) = <<>> /\ f.code \in CodesOf(t, f)
        /\ Tail(k) = <<>> /\ HeldBy(k) = {"ptable"} /\ Depth(k) = 1 /\ RunsTop(sp, c, f)
  BY AtPick
<1>2. t \notin Procs
  BY ThreadFacts
<1>3. RoundCode \in LoopCodes /\ RoundCode \in Code /\ HeldBy(RoundCode) = {"ptable"} /\ Depth(RoundCode) = 1
  BY LoopStarts
<1>4. sp' = [sp EXCEPT !.stack = Goto(c, RoundCode)]
  BY DEF RoundCode
<1> HIDE DEF t, RoundCode
<1> DEFINE g == With(f, RoundCode)
           y == <<g>> \o Tail(z)
           Z == [sp.stack EXCEPT ![t] = y]
<1>5. RoundCode \in CodesOf(t, f)
  BY <1>1, <1>2, <1>3 DEF CodesOf
<1>6. g \in Frames /\ g.code = RoundCode /\ g.handler = f.handler /\ g.code \in CodesOf(t, g)
  BY <1>5, NextFrame
<1>7. Goto(c, RoundCode) = Z
  <2>1. \A v : Goto(c, v) = [sp.stack EXCEPT ![t] = <<With(f, v \o Tail(k))>> \o Tail(z)]
    BY <1>1 DEF Doing
  <2>2. RoundCode \o Tail(k) = RoundCode
    BY <1>1, <1>3, Alone
  <2> QED
    BY <2>1, <2>2
<1> HIDE DEF g
<1>8. y \in Seq(Frames)
  BY <1>1, <1>6, NextStack
<1>9. sp \in States
  BY DEF Fit
<1> HIDE DEF y
<1>10. Z \in [Threads -> Seq(Frames)]
  BY <1>8, <1>9 DEF States
<1> HIDE DEF Z
<1>11. /\ sp' \in States /\ sp'.flag = sp.flag /\ sp'.ncli = sp.ncli /\ sp'.intena = sp.intena /\ sp'.proc = sp.proc
       /\ sp'.cpu = sp.cpu /\ sp'.locked = sp.locked /\ sp'.pid = sp.pid
       /\ sp'.state = sp.state /\ sp'.panic = sp.panic /\ sp'.stack = Z
  BY <1>4, <1>7, <1>9, <1>10 DEF States
<1>12. Local(sp, sp', c)
  BY <1>11 DEF Fit, Local
<1>13. RunsTop(sp', c, g)
  <2>1. k \notin {<<>>, forkret}
    BY <1>1, NotForkret
  <2>2. HeldBy(g.code) = HeldBy(f.code) /\ Depth(g.code) = Depth(f.code) /\ RunsTop(sp, c, f)
        /\ f.code \notin {<<>>, forkret}
    BY <1>1, <1>3, <1>6, <2>1
  <2> QED
    BY <1>6, <1>11, <2>2, SameRuns
<1>14. Turns(sp, sp', c, t, z, f, k, g)
  BY <1>1, <1>6, <1>11, <1>12, <1>13 DEF Turns, y, Z
<1>15. Spares(sp, sp', k, g)
  <2>1. "locked = 0" \notin {"release", "sti", "eflags", "xchg", "pick"} /\ "while locked" # "pick"
    OBVIOUS
  <2>2. Steps(RoundCode) = {"release", "sti", "eflags", "xchg", "pick"}
    BY RoundFine
  <2>3. Steps(k) = {"pick"}
    <3>1. Steps(k) = {k[1][1]} \cup Steps(Tail(k))
      BY <1>1, NextCode
    <3>2. Steps(<<>>) = {}
      BY StepsOf
    <3> QED
      BY <1>1, <3>1, <3>2
  <2> QED
    BY <1>6, <1>11, <2>1, <2>2, <2>3 DEF Spares
<1> QED
  BY <1>14, <1>15, Pushed

\* A process is picked: it comes back from sched() on this processor, with the flag it had
\* saved; the scheduler waits where it is.
LEMMA SwtchFits ==
  ASSUME NCPU \in Nat, NPROC \in Nat, Fit(sp), NEW c \in Cpus, AtOp(c, "pick"),
         NEW p \in Procs, sp.state[p] = "RUNNABLE",
         sp' = [sp EXCEPT !.proc[c] = p, !.state[p] = "RUNNING",
                          !.intena[c] = sched_intena(c, sp.stack[p][1]),
                          !.stack = [Goto(c, <<<<"pick", p + 1>>>>) EXCEPT ![p][1].intena = FALSE]]
  PROVE  Fit(sp')
<1> DEFINE t == Scheduler(c)
           w == sp.stack[p]
           q == w[1]
           i == sched_intena(c, q)
           x == <<<<"pick", p + 1>>>>
<1>1. PICK z \in Seq(Frames), f \in Frames, k \in Code :
        /\ Doing(c, t, z, f, k) /\ View(sp, c, t, z, f, k)
        /\ sp.proc[c] = None /\ k # <<>> /\ k[1][1] = "pick" /\ k = f.code /\ Op(c) = k[1] /\ k[1][2] \in Nat
        /\ z # <<>> /\ f = z[1] /\ ~f.handler /\ Tail(z) = <<>> /\ f.code \in CodesOf(t, f)
        /\ Tail(k) = <<>> /\ HeldBy(k) = {"ptable"} /\ Depth(k) = 1 /\ RunsTop(sp, c, f)
  BY AtPick
<1>2. /\ t \notin Procs /\ t \in Threads /\ p \in Threads /\ p # t /\ p \in Nat /\ p # None
      /\ \A d \in Cpus : Scheduler(d) \notin Procs /\ Scheduler(d) \in Threads /\ (d # c => Scheduler(d) # t)
  BY ThreadFacts
<1>3. sp \in States
  BY DEF Fit
<1>4. w \in Stacks(p) /\ Resumable(w) /\ w # <<>> /\ w \in Seq(Frames) /\ q \in Frames /\ q.code \in CodesOf(p, q)
      /\ w = <<q>> \o Tail(w) /\ Tail(w) \in {<<>>} \cup {<<v>> : v \in Frames}
  <2>1. w \in Stacks(p) /\ Resumable(w)
    BY <1>2 DEF Fit, Placed
  <2>2. w # <<>>
    BY <2>1 DEF Resumable
  <2> QED
    BY <2>1, <2>2, StackIs DEF Bases
<1>5. /\ x \in LoopCodes /\ x \in Code /\ At(x, "pick") /\ Tail(x) = <<>>
  <2>1. p + 1 \in Nat
    BY <1>2
  <2>2. \A n \in Nat : /\ <<<<"pick", n>>>> \in LoopCodes /\ <<<<"pick", n>>>> \in Code
                      /\ At(<<<<"pick", n>>>>, "pick") /\ Tail(<<<<"pick", n>>>>) = <<>>
    BY LoopStarts
  <2> DEFINE m == p + 1
  <2> HIDE DEF m
  <2>3. <<<<"pick", m>>>> \in LoopCodes /\ <<<<"pick", m>>>> \in Code /\ At(<<<<"pick", m>>>>, "pick")
        /\ Tail(<<<<"pick", m>>>>) = <<>>
    BY <2>1, <2>2 DEF m
  <2> QED
    BY <2>3 DEF m
<1> HIDE DEF x, t
<1>6. i \in BOOLEAN /\ (q.handler => ~i) /\ (~q.handler /\ q.code # forkret => i)
  <2>1. sp.intena[c] \in BOOLEAN /\ q.intena \in BOOLEAN
    BY <1>3, <1>4 DEF States, Frames
  <2>2. (q.handler => ~q.intena) /\ (~q.handler /\ q.code # forkret => q.intena)
    BY <1>4 DEF Resumable
  <2> QED
    BY <2>1, <2>2 DEF sched_intena
<1> DEFINE h == [q EXCEPT !.intena = FALSE]
           g == With(f, x)
           Z == [[sp.stack EXCEPT ![t] = <<g>> \o Tail(z)] EXCEPT ![p] = [w EXCEPT ![1] = h]]
<1>7. h \in Frames /\ h.code = q.code /\ h.handler = q.handler
  BY <1>4, FrameSaves
<1>8. x \in CodesOf(t, f)
  BY <1>1, <1>2, <1>5 DEF CodesOf
<1>9. g \in Frames /\ g.code = x /\ g.handler = f.handler /\ g.code \in CodesOf(t, g)
  BY <1>8, NextFrame
<1>10. Goto(c, x) = [sp.stack EXCEPT ![t] = <<g>> \o Tail(z)]
  <2>1. \A v : Goto(c, v) = [sp.stack EXCEPT ![t] = <<With(f, v \o Tail(k))>> \o Tail(z)]
    BY <1>1 DEF Doing
  <2>2. x \o Tail(k) = x
    BY <1>1, <1>5, Alone
  <2> QED
    BY <2>1, <2>2
<1>11. <<g>> \o Tail(z) = <<g>> /\ <<g>> \in Seq(Frames) /\ <<g>> \in Bases(t)
  <2> HIDE DEF g
  <2>1. <<g>> \o <<>> = <<g>> /\ <<g>> \o <<>> \in Seq(Frames)
    BY <1>9, FrameCat
  <2>2. <<g>> \in Bases(t)
    BY <1>1, <1>9, BaseStack
  <2> QED
    BY <1>1, <2>1, <2>2
<1>12. [Goto(c, x) EXCEPT ![p][1].intena = FALSE] = Z
  <2> DEFINE G == Goto(c, x)
  <2>1. G = [sp.stack EXCEPT ![t] = <<g>> \o Tail(z)]
    BY <1>10
  <2>2. G[p] = w
    <3> HIDE DEF g
    <3>1. sp.stack \in [Threads -> Seq(Frames)]
      BY <1>3 DEF States
    <3> QED
      BY <1>2, <2>1, <3>1
  <2> HIDE DEF G
  <2>3. [G EXCEPT ![p][1].intena = FALSE] = [G EXCEPT ![p] = [w EXCEPT ![1] = h]]
    BY <2>2
  <2> QED
    BY <2>1, <2>3 DEF G
<1> DEFINE y == [w EXCEPT ![1] = h]
<1>13. y = <<h>> \o Tail(w)
  <2>1. Len(w) \in Nat /\ Len(w) # 0
    BY <1>4, EmptySeq, LenProperties
  <2>2. 1 \in 1..Len(w) /\ w \in Seq(Frames) /\ h \in Frames
    BY <1>4, <1>7, <2>1
  <2> HIDE DEF h, q, w
  <2>3. /\ [w EXCEPT ![1] = h] \in Seq(Frames) /\ Len([w EXCEPT ![1] = h]) = Len(w)
        /\ \A j \in 1..Len(w) : [w EXCEPT ![1] = h][j] = IF j = 1 THEN h ELSE w[j]
    BY <2>2, ExceptSeq
  <2>4. /\ y \in Seq(Frames) /\ Len(y) = Len(w)
        /\ y[1] = h /\ \A j \in 1..Len(w) : j # 1 => y[j] = w[j]
    BY <2>2, <2>3
  <2>5. /\ Len(<<h>> \o Tail(w)) = Len(Tail(w)) + 1 /\ <<h>> \o Tail(w) \in Seq(Frames)
        /\ (<<h>> \o Tail(w))[1] = h /\ \A j \in 1..Len(Tail(w)) : (<<h>> \o Tail(w))[j + 1] = Tail(w)[j]
    BY <1>4, <1>7, FrameCat
  <2>6. Len(Tail(w)) = Len(w) - 1 /\ \A j \in 1..Len(Tail(w)) : Tail(w)[j] = w[j + 1]
    BY <1>4, HeadTailProperties
  <2>7. ASSUME NEW j \in 1..Len(w), j # 1
        PROVE  (<<h>> \o Tail(w))[j] = w[j]
    <3>1. j - 1 \in 1..Len(Tail(w)) /\ (j - 1) + 1 = j
      BY <2>1, <2>6, <2>7
    <3> QED
      BY <2>5, <2>6, <3>1
  <2>8. Len(<<h>> \o Tail(w)) = Len(w)
    BY <2>1, <2>5, <2>6
  <2> DEFINE v == <<h>> \o Tail(w)
  <2>9. v \in Seq(Frames) /\ Len(v) = Len(w) /\ v[1] = h /\ \A j \in 1..Len(w) : j # 1 => v[j] = w[j]
    BY <2>5, <2>7, <2>8
  <2> HIDE DEF y, v
  <2>10. \A j \in 1..Len(y) : y[j] = v[j]
    BY <2>4, <2>9
  <2>11. y = v
    BY <2>4, <2>9, <2>10, SeqEqual
  <2> QED
    BY <2>11 DEF v
<1> HIDE DEF h, g, q, i, w
<1>14. /\ y \in Stacks(p) /\ y \in Seq(Frames) /\ y # <<>> /\ y[1] = h
  <2>1. CodesOf(p, h) = CodesOf(p, q)
    BY <1>7, SameKind
  <2>2. <<h>> \o Tail(w) \in Stacks(p)
    BY <1>4, <1>7, <2>1, StackPush DEF q
  <2>3. <<h>> \o Tail(w) # <<>> /\ (<<h>> \o Tail(w))[1] = h
    BY <1>4, <1>7, FrameCat
  <2> HIDE DEF y
  <2> QED
    BY <1>13, <2>2, <2>3, StackIs
<1>15. Critical(y) => Critical(w)
  <2>1. Names(w) = Steps(q.code) \cup Names(Tail(w)) /\ Names(<<h>> \o Tail(w)) = Steps(h.code) \cup Names(Tail(w))
    BY <1>4, <1>7, NamesCat
  <2>2. Names(y) = Names(w)
    BY <1>7, <1>13, <2>1
  <2> QED
    BY <2>2 DEF Critical
<1> HIDE DEF y
<1> DEFINE e == <<g>>
<1>16. e \in Stacks(t) /\ e \in Seq(Frames) /\ Waits(e)
  <2>1. <<g>> \in Stacks(t) /\ <<g>> \in Seq(Frames)
    BY <1>11, BaseStack
  <2>2. ~g.handler /\ g.code \in LoopCodes /\ At(g.code, "pick")
    BY <1>1, <1>5, <1>9
  <2> QED
    BY <1>9, <2>1, <2>2 DEF Waits
<1> HIDE DEF e
<1> DEFINE W == [[sp.stack EXCEPT ![t] = e] EXCEPT ![p] = y]
           P == [sp.proc EXCEPT ![c] = p]
           S == [sp.state EXCEPT ![p] = "RUNNING"]
           I == [sp.intena EXCEPT ![c] = i]
<1>17. /\ W \in [Threads -> Seq(Frames)] /\ W[t] = e /\ W[p] = y
       /\ \A u \in Threads : u # t /\ u # p => W[u] = sp.stack[u]
  BY <1>2, <1>3, <1>14, <1>16 DEF States
<1>18. /\ P \in [Cpus -> Procs \cup {None}] /\ P[c] = p /\ \A d \in Cpus : d # c => P[d] = sp.proc[d]
       /\ S \in [Procs -> {"RUNNABLE", "RUNNING", "SLEEPING"}] /\ S[p] = "RUNNING"
       /\ \A r \in Procs : r # p => S[r] = sp.state[r]
       /\ I \in [Cpus -> BOOLEAN] /\ I[c] = i /\ \A d \in Cpus : d # c => I[d] = sp.intena[d]
  BY <1>3, <1>6 DEF States
<1>19. sp' = [sp EXCEPT !.proc = P, !.state = S, !.intena = I, !.stack = W]
  <2>1. [Goto(c, x) EXCEPT ![p][1].intena = FALSE] = W
    BY <1>11, <1>12 DEF y, e
  <2>2. sp' = [sp EXCEPT !.proc[c] = p, !.state[p] = "RUNNING", !.intena[c] = i,
                         !.stack = [Goto(c, x) EXCEPT ![p][1].intena = FALSE]]
    BY DEF i, x, q, w
  <2> HIDE DEF W
  <2> QED
    BY <1>3, <2>1, <2>2 DEF States
<1> HIDE DEF W, P, S, I
<1>20. /\ sp' \in States /\ sp'.flag = sp.flag /\ sp'.ncli = sp.ncli /\ sp'.intena = I /\ sp'.proc = P
       /\ sp'.cpu = sp.cpu /\ sp'.locked = sp.locked /\ sp'.pid = sp.pid
       /\ sp'.state = S /\ sp'.panic = sp.panic /\ sp'.stack = W
  <2>1. /\ W \in [Threads -> Seq(Frames)] /\ P \in [Cpus -> Procs \cup {None}] /\ I \in [Cpus -> BOOLEAN]
        /\ S \in [Procs -> {"RUNNABLE", "RUNNING", "SLEEPING"}]
    BY <1>17, <1>18
  <2> DEFINE r == [sp EXCEPT !.proc = P, !.state = S, !.intena = I, !.stack = W]
  <2>2. /\ r.flag = sp.flag /\ r.ncli = sp.ncli /\ r.intena = I /\ r.proc = P
        /\ r.cpu = sp.cpu /\ r.locked = sp.locked /\ r.pid = sp.pid
        /\ r.state = S /\ r.panic = sp.panic /\ r.stack = W
    BY <1>3 DEF States
  <2>3. r \in States
    BY <1>3, <2>1 DEF States
  <2> HIDE DEF r
  <2>4. sp' = r
    BY <1>19 DEF r
  <2> QED
    BY <2>2, <2>3, <2>4
<1>21. /\ \A u \in Threads : sp'.stack[u] \in Stacks(u)
       /\ On(sp', c) = p /\ \A d \in Cpus : d # c => On(sp', d) = On(sp, d)
  <2>1. \A u \in Threads : sp'.stack[u] \in Stacks(u)
    BY <1>14, <1>16, <1>17, <1>20 DEF Fit
  <2>2. On(sp', c) = p
    <3>1. sp'.proc[c] = p /\ p # None
      BY <1>2, <1>18, <1>20
    <3> QED
      BY <3>1 DEF On
  <2>3. ASSUME NEW d \in Cpus, d # c
        PROVE  On(sp', d) = On(sp, d)
    <3>1. sp'.proc[d] = sp.proc[d]
      BY <1>18, <1>20, <2>3
    <3> QED
      BY <3>1 DEF On
  <2> QED
    BY <2>1, <2>2, <2>3
<1>22. \A d \in Cpus : d # c => /\ On(sp, d) # t /\ On(sp, d) # p /\ On(sp, d) \in Threads
                                /\ Runs(sp, d, sp.stack[On(sp, d)])
  <2>1. On(sp, c) = t
    BY <1>1 DEF View
  <2>2. sp.state[p] # "RUNNING"
    OBVIOUS
  <2> QED
    BY <2>1, <2>2, OnFacts
<1>23. Runs(sp', c, y)
  <2>1. h.code \in Code /\ HeldBy(h.code) = {"ptable"} /\ h.code # <<>> /\ h.code[1] = <<"release", "ptable">>
    BY <1>4, <1>7, CodeNext DEF Resumable, q
  <2>2. ~At(h.code, "xchg")
    BY <2>1 DEF At
  <2>3. Depth(h.code) = 1
    BY <2>1, <2>2, DepthOne
  <2>4. /\ sp.ncli[c] = 1 /\ ~sp.flag[c] /\ \A l \in Locks : sp.cpu[l] = c <=> l \in {"ptable"}
    BY <1>1 DEF RunsTop
  <2>5. h.handler => ~sp'.intena[c]
    BY <1>6, <1>7, <1>18, <1>20
  <2>6. ~h.handler /\ h.code # forkret => sp'.intena[c]
    BY <1>6, <1>7, <1>18, <1>20
  <2> QED
    BY <1>14, <1>20, <2>1, <2>3, <2>4, <2>5, <2>6 DEF Runs
<1>24. ASSUME NEW d \in Cpus
       PROVE  Runs(sp', d, sp'.stack[On(sp', d)])
  <2>1. CASE d = c
    BY <1>17, <1>20, <1>21, <1>23, <2>1
  <2>2. CASE d # c
    <3>1. sp'.stack[On(sp', d)] = sp.stack[On(sp, d)] /\ Runs(sp, d, sp.stack[On(sp, d)])
      BY <1>17, <1>20, <1>21, <1>22, <2>2
    <3>2. sp'.proc[d] = sp.proc[d] /\ sp'.intena[d] = sp.intena[d]
      BY <1>18, <1>20, <2>2
    <3> QED
      BY <1>20, <3>1, <3>2 DEF Runs
  <2> QED
    BY <2>1, <2>2
<1>25. Placed(sp')
  <2>1. \A d \in Cpus : d # c => sp.proc[d] # p
    BY <1>2 DEF Fit, Placed
  <2>2. \A d, v \in Cpus : sp'.proc[d] = sp'.proc[v] /\ sp'.proc[d] # None => d = v
    BY <1>18, <1>20, <2>1 DEF Fit, Placed
  <2>3. ASSUME NEW d \in Cpus, sp'.proc[d] # None
        PROVE  sp'.state[sp'.proc[d]] = "RUNNING" /\ Waits(sp'.stack[Scheduler(d)])
    <3>1. CASE d = c
      BY <1>16, <1>17, <1>18, <1>20, <3>1 DEF t
    <3>2. CASE d # c
      <4>1. sp'.proc[d] = sp.proc[d] /\ sp.proc[d] # None /\ sp.proc[d] \in Procs /\ sp.proc[d] # p
        BY <1>3, <1>18, <1>20, <2>1, <2>3, <3>2 DEF States
      <4>2. Scheduler(d) # t /\ Scheduler(d) # p /\ Scheduler(d) \in Threads
        BY <1>2, <3>2
      <4>3. sp.state[sp.proc[d]] = "RUNNING" /\ Waits(sp.stack[Scheduler(d)])
        BY <4>1 DEF Fit, Placed
      <4>4. sp'.stack[Scheduler(d)] = sp.stack[Scheduler(d)]
        BY <1>17, <1>20, <4>2
      <4>5. sp'.state[sp.proc[d]] = sp.state[sp.proc[d]]
        BY <1>18, <1>20, <4>1
      <4> QED
        BY <4>1, <4>3, <4>4, <4>5
    <3> QED
      BY <3>1, <3>2
  <2>4. ASSUME NEW r \in Procs, sp'.state[r] # "RUNNING"
        PROVE  Resumable(sp'.stack[r])
    <3>1. r # p /\ sp.state[r] # "RUNNING"
      BY <1>18, <1>20, <2>4
    <3>2. r \in Threads /\ r # t
      BY <1>2, ThreadFacts
    <3>3. Resumable(sp.stack[r])
      BY <3>1 DEF Fit, Placed
    <3> QED
      BY <1>17, <1>20, <3>1, <3>2, <3>3
  <2> QED
    BY <2>2, <2>3, <2>4 DEF Placed
<1>26. SleepLock(sp')
  <2>1. \A r \in Procs : r \in Threads /\ r # t
    BY <1>2, ThreadFacts
  <2>2. ASSUME NEW r \in Procs
        PROVE  Critical(sp'.stack[r]) => Critical(sp.stack[r])
    <3>1. CASE r = p
      BY <1>15, <1>17, <1>20, <3>1 DEF w
    <3>2. CASE r # p
      BY <1>17, <1>20, <2>1, <3>2
    <3> QED
      BY <3>1, <3>2
  <2>3. \A r \in Procs : Critical(sp'.stack[r]) => Critical(sp.stack[r])
    BY <2>2
  <2> QED
    BY <1>20, <2>3 DEF Fit, SleepLock
<1> QED
  BY <1>20, <1>21, <1>24, <1>25, <1>26 DEF Fit

\* The scheduler's pass: it switches to the next process that can run, or goes round.
LEMMA PickFits ==
  ASSUME NCPU \in Nat, NPROC \in Nat, Fit(sp), NEW c \in Cpus, scheduler_pick(c)
  PROVE  Fit(sp')
<1> DEFINE left == {p \in Procs : p >= Op(c)[2] /\ sp.state[p] = "RUNNABLE"}
           p == Min(left)
<1>1. AtOp(c, "pick")
  BY DEF scheduler_pick
<1>2. CASE left = {}
  <2>1. sp' = [sp EXCEPT !.stack = Goto(c, release("ptable") \o scheduler)]
    BY <1>2 DEF scheduler_pick
  <2> QED
    BY <1>1, <2>1, RoundFits
<1>3. CASE left # {}
  <2>1. sp' = [sp EXCEPT !.proc[c] = p, !.state[p] = "RUNNING",
                         !.intena[c] = sched_intena(c, sp.stack[p][1]),
                         !.stack = [Goto(c, <<<<"pick", p + 1>>>>) EXCEPT ![p][1].intena = FALSE]]
    BY <1>3 DEF scheduler_pick
  <2>2. p \in left
    <3>1. left \in SUBSET Nat
      BY ThreadFacts
    <3> HIDE DEF left
    <3> QED
      BY <1>3, <3>1, MinIs
  <2>3. p \in Procs /\ sp.state[p] = "RUNNABLE"
    BY <2>2
  <2> HIDE DEF p
  <2> QED
    BY <1>1, <2>1, <2>3, SwtchFits
<1> QED
  BY <1>2, <1>3

-----------------------------------------------------------------------------
(* The theorems                                                            *)

\* Every step of every processor keeps the invariant.
LEMMA StepFits ==
  ASSUME NCPU \in Nat, NPROC \in Nat, Fit(sp), [Next]_sp
  PROVE  Fit(sp')
<1>1. CASE UNCHANGED sp
  BY <1>1
<1>2. CASE Next
  <2>1. PICK c \in Cpus : Step(c)
    BY <1>2 DEF Next
  <2>2. CASE acquire_eflags(c)
    BY <2>2, EflagsFits
  <2>3. CASE acquire_cli(c)
    BY <2>3, CliFits
  <2>4. CASE acquire_xchg(c)
    BY <2>4, XchgFits
  <2>5. CASE release_popcli(c)
    BY <2>5, ReleaseFits
  <2>6. CASE sched_leave(c)
    BY <2>6, SchedFits
  <2>7. CASE scheduler_sti(c)
    BY <2>7, StiFits
  <2>8. CASE scheduler_pick(c)
    BY <2>8, PickFits
  <2>9. CASE wakeup1(c)
    BY <2>9, Wakeup1Fits
  <2>10. CASE acquiresleep_test(c)
    BY <2>10, TestFits
  <2>11. CASE acquiresleep_take(c)
    BY <2>11, TakeFits
  <2>12. CASE releasesleep_free(c)
    BY <2>12, FreeFits
  <2>13. CASE trap_yield(c)
    BY <2>13, TrapYieldFits
  <2>14. CASE syscall(c)
    BY <2>14, SyscallFits
  <2>15. CASE interrupt(c)
    BY <2>15, InterruptFits
  <2>16. CASE iret(c)
    BY <2>16, IretFits
  <2> QED
    BY <2>1, <2>2, <2>3, <2>4, <2>5, <2>6, <2>7, <2>8, <2>9, <2>10, <2>11, <2>12, <2>13, <2>14,
       <2>15, <2>16 DEF Step
<1> QED
  BY <1>1, <1>2

\* Every processor starts in its scheduler, every process can be picked and is in forkret().
LEMMA InitFits ==
  ASSUME NCPU \in Nat, NPROC \in Nat, Init
  PROVE  Fit(sp)
<1> DEFINE kind(t) == IF t \in Procs THEN forkret ELSE scheduler
           Y == [t \in Threads |-> <<Frame(kind(t), FALSE)>>]
<1>1. /\ sp.flag = [c \in Cpus |-> FALSE] /\ sp.ncli = [c \in Cpus |-> 0]
      /\ sp.intena = [c \in Cpus |-> FALSE] /\ sp.proc = [c \in Cpus |-> None]
      /\ sp.cpu = [l \in Locks |-> None] /\ sp.locked = FALSE /\ sp.pid = None
      /\ sp.state = [p \in Procs |-> "RUNNABLE"] /\ sp.panic = FALSE /\ sp.stack = Y
      /\ sp = [flag |-> sp.flag, ncli |-> sp.ncli, intena |-> sp.intena, proc |-> sp.proc,
               cpu |-> sp.cpu, locked |-> sp.locked, pid |-> sp.pid,
               state |-> sp.state, panic |-> sp.panic, stack |-> sp.stack]
  BY DEF Init, Threads
<1>2. /\ forkret \in CallCodes /\ forkret \in Code /\ HeldBy(forkret) = {"ptable"}
      /\ scheduler \in LoopCodes /\ scheduler \in Code /\ HeldBy(scheduler) = {} /\ Depth(scheduler) = 0
  BY CallStarts, LoopStarts
<1>3. Steps(forkret) = {"release"} /\ forkret # <<>> /\ forkret[1] = <<"release", "ptable">>
  BY ForkretFine
<1> HIDE DEF kind
<1>4. \A t \in Threads : Frame(kind(t), FALSE) \in Frames /\ Frame(kind(t), FALSE).code = kind(t)
                         /\ ~Frame(kind(t), FALSE).handler /\ kind(t) \in CodesOf(t, Frame(kind(t), FALSE))
  <2>1. ASSUME NEW t \in Threads
        PROVE  Frame(kind(t), FALSE) \in Frames /\ Frame(kind(t), FALSE).code = kind(t)
               /\ ~Frame(kind(t), FALSE).handler /\ kind(t) \in CodesOf(t, Frame(kind(t), FALSE))
    <3>1. kind(t) \in Codes /\ kind(t) \in IF t \in Procs THEN CallCodes ELSE LoopCodes
      BY <1>2 DEF kind, Codes
    <3> DEFINE h == Frame(kind(t), FALSE)
    <3>2. h \in Frames /\ h.code = kind(t) /\ h.handler = FALSE
      BY <3>1, NewFrame
    <3> HIDE DEF h
    <3>3. kind(t) \in CodesOf(t, h)
      BY <3>1, <3>2 DEF CodesOf
    <3> QED
      BY <3>2, <3>3 DEF h
  <2> QED
    BY <2>1
<1>5. ASSUME NEW t \in Threads
      PROVE  /\ sp.stack[t] \in Stacks(t) /\ sp.stack[t] \in Seq(Frames) /\ sp.stack[t] # <<>>
             /\ sp.stack[t][1].code = kind(t) /\ ~sp.stack[t][1].handler /\ Names(sp.stack[t]) = Steps(kind(t))
  <2> DEFINE h == Frame(kind(t), FALSE)
  <2>1. h \in Frames /\ h.code = kind(t) /\ ~h.handler /\ kind(t) \in CodesOf(t, h)
    BY <1>4
  <2>2. sp.stack[t] = <<h>>
    BY <1>1
  <2> HIDE DEF h
  <2>3. <<h>> \in Stacks(t)
    BY <2>1, BaseStack
  <2>4. <<h>> \o <<>> = <<h>>
    BY <2>1, FrameCat
  <2>5. Names(<<h>> \o <<>>) = Steps(h.code) \cup Names(<<>>) /\ Names(<<>>) = {}
    BY <2>1, NamesCat
  <2>6. Names(<<h>>) = Steps(kind(t))
    BY <2>1, <2>4, <2>5
  <2>7. <<h>> \in Seq(Frames) /\ <<h>> # <<>> /\ <<h>>[1] = h
    BY <2>1
  <2> QED
    BY <2>1, <2>2, <2>3, <2>6, <2>7
<1>6. sp \in States
  <2> DEFINE Z == sp.stack
  <2>1. Z \in [Threads -> Seq(Frames)]
    BY <1>1, <1>5
  <2> HIDE DEF Y
  <2>2. /\ sp.flag \in [Cpus -> BOOLEAN] /\ sp.ncli \in [Cpus -> Nat] /\ sp.intena \in [Cpus -> BOOLEAN]
        /\ sp.proc \in [Cpus -> Procs \cup {None}] /\ sp.cpu \in [Locks -> Cpus \cup {None}]
        /\ sp.pid \in Procs \cup {None} /\ sp.state \in [Procs -> {"RUNNABLE", "RUNNING", "SLEEPING"}]
    BY <1>1
  <2>3. sp.locked \in BOOLEAN /\ sp.panic \in BOOLEAN
    BY <1>1
  <2> QED
    BY <1>1, <2>1, <2>2, <2>3 DEF States
<1> HIDE DEF Y
<1>7. ASSUME NEW c \in Cpus
      PROVE  Runs(sp, c, sp.stack[On(sp, c)])
  <2>1. On(sp, c) = Scheduler(c) /\ On(sp, c) \in Threads /\ On(sp, c) \notin Procs
    BY <1>1, ThreadFacts DEF On
  <2>2. kind(On(sp, c)) = scheduler
    BY <2>1 DEF kind
  <2> DEFINE z == sp.stack[On(sp, c)]
  <2>3. z # <<>> /\ z[1].code = scheduler /\ ~z[1].handler
    BY <1>5, <2>1, <2>2
  <2> HIDE DEF z
  <2>4. /\ sp.ncli[c] = 0 /\ sp.proc[c] = None /\ \A l \in Locks : sp.cpu[l] # c
    BY <1>1, ThreadFacts
  <2> QED
    BY <1>2, <2>3, <2>4 DEF Runs, z
<1>8. Placed(sp)
  <2>1. \A c \in Cpus : sp.proc[c] = None
    BY <1>1
  <2>2. ASSUME NEW p \in Procs
        PROVE  Resumable(sp.stack[p])
    <3>1. p \in Threads /\ kind(p) = forkret
      BY ThreadFacts DEF kind
    <3>2. sp.stack[p] # <<>> /\ sp.stack[p][1].code = forkret /\ ~sp.stack[p][1].handler
      BY <1>5, <3>1
    <3> QED
      BY <1>2, <1>3, <3>2 DEF Resumable
  <2> QED
    BY <2>1, <2>2 DEF Placed
<1>9. SleepLock(sp)
  <2>1. ASSUME NEW p \in Procs
        PROVE  ~Critical(sp.stack[p])
    <3>1. p \in Threads /\ kind(p) = forkret
      BY ThreadFacts DEF kind
    <3>2. Names(sp.stack[p]) = {"release"}
      BY <1>3, <1>5, <3>1
    <3>3. "locked = 0" # "release"
      OBVIOUS
    <3> QED
      BY <3>2, <3>3 DEF Critical
  <2> QED
    BY <2>1 DEF SleepLock
<1> QED
  BY <1>1, <1>5, <1>6, <1>7, <1>8, <1>9 DEF Fit

\* What the invariant says in the words of SpinSafe.
LEMMA FitSafe ==
  ASSUME NCPU \in Nat, NPROC \in Nat, Fit(sp)
  PROVE  SpinSafe
<1>1. ASSUME NEW c \in Cpus
      PROVE  /\ Cardinality(Held(c)) <= sp.ncli[c]
             /\ sp.flag[c] => sp.ncli[c] = 0
             /\ Stack(c) # <<>> /\ Top(c).handler => ~sp.flag[c]
             /\ Unlocked(c) => sp.flag[c]
             /\ sp.proc[c] # None => sp.state[sp.proc[c]] = "RUNNING"
  <2> DEFINE z == Stack(c)
  <2>1. z = sp.stack[On(sp, c)] /\ z \in Stacks(On(sp, c)) /\ Runs(sp, c, z)
    <3>1. z = sp.stack[On(sp, c)]
      BY DEF Stack, Thread, On
    <3> QED
      BY <3>1, OnFacts
  <2>2. Top(c) = z[1]
    BY DEF Top
  <2> HIDE DEF z
  <2>3. z # <<>> => z[1].code \in Code
    BY <2>1, StackIs, CodeNext
  <2>4. sp.ncli[c] \in Nat /\ (sp.flag[c] => sp.ncli[c] = 0)
    BY <2>1 DEF Fit, States, Runs
  <2>5. Cardinality(Held(c)) <= sp.ncli[c]
    <3>1. CASE z = <<>>
      <4>1. Held(c) = {}
        BY <2>1, <3>1 DEF Held, Runs
      <4>2. Cardinality(Held(c)) = 0
        BY <4>1, FS_EmptySet
      <4> QED
        BY <2>4, <4>2
    <3>2. CASE z # <<>>
      <4>1. HeldBy(z[1].code) \subseteq Locks /\ Cardinality(HeldBy(z[1].code)) <= Depth(z[1].code)
        BY <2>3, <3>2, DepthFacts
      <4>2. Held(c) = HeldBy(z[1].code) /\ sp.ncli[c] = Depth(z[1].code)
        BY <2>1, <3>2, <4>1 DEF Held, Runs
      <4> QED
        BY <4>1, <4>2
    <3> QED
      BY <3>1, <3>2
  <2>6. z # <<>> /\ Top(c).handler => ~sp.flag[c]
    BY <2>1, <2>2 DEF Runs
  <2>7. ASSUME Unlocked(c)
        PROVE  sp.flag[c]
    <3>1. sp.proc[c] # None /\ sp.ncli[c] = 0 /\ (z # <<>> => ~z[1].handler /\ z[1].code # <<>>)
      BY <2>2, <2>7 DEF Unlocked, z
    <3>2. CASE z = <<>>
      BY <2>1, <3>2 DEF Runs
    <3>3. CASE z # <<>>
      <4>1. z[1].code # forkret
        <5>1. forkret \in Code /\ HeldBy(forkret) = {"ptable"}
          BY CallStarts
        <5>2. Depth(forkret) # 0
          BY <5>1, DepthFacts
        <5>3. Depth(z[1].code) = 0
          BY <2>1, <3>1, <3>3 DEF Runs
        <5> QED
          BY <5>2, <5>3
      <4> QED
        BY <2>1, <3>1, <3>3, <4>1 DEF Runs
    <3> QED
      BY <3>2, <3>3
  <2>8. sp.proc[c] # None => sp.state[sp.proc[c]] = "RUNNING"
    BY DEF Fit, Placed
  <2> QED
    BY <2>4, <2>5, <2>6, <2>7, <2>8 DEF z
<1>2. ASSUME NEW p \in Procs, InCritical(p)
      PROVE  sp.pid = p
  <2>1. ASSUME NEW n
        PROVE  After(p, n) <=> n \notin Names(sp.stack[p])
    <3> DEFINE z == sp.stack[p]
    <3>1. \A j \in 1..Len(z) : n \notin Steps(z[j].code) <=> \A i \in 1..Len(z[j].code) : z[j].code[i][1] # n
      BY DEF Steps
    <3>2. After(p, n) <=> \A j \in 1..Len(z) : \A i \in 1..Len(z[j].code) : z[j].code[i][1] # n
      BY DEF After
    <3> HIDE DEF z
    <3>3. n \notin Names(z) <=> \A j \in 1..Len(z) : n \notin Steps(z[j].code)
      BY DEF Names
    <3>4. After(p, n) <=> \A j \in 1..Len(z) : n \notin Steps(z[j].code)
      BY <3>1, <3>2
    <3> QED
      BY <3>3, <3>4 DEF z
  <2>2. Critical(sp.stack[p])
    BY <1>2, <2>1 DEF InCritical, Critical
  <2> QED
    BY <2>2 DEF Fit, SleepLock
<1> QED
  BY <1>1, <1>2 DEF SpinSafe, Fit

\* The invariant holds in every reachable state, for every number of processors and processes.
\* (types: what each field of the state can be, and that every stack has the shape that the
\* kernel code gives it: at most one interrupt, on code that holds no lock.)
THEOREM FitInvariant == Spec => []Fit(sp)
<1>1. Init => Fit(sp)
  BY SpinAssumption, InitFits
<1>2. Fit(sp) /\ [Next]_sp => Fit(sp')
  BY SpinAssumption, StepFits
<1>3. Fit(sp') <=> (Fit(sp))'
  BY DEF Fit
<1> QED
  BY <1>1, <1>2, <1>3, PTL DEF Spec

\* acquire(), release(), popcli() and sched() never panic, no processor holds more locks than it
\* is deep in pushcli(), a lock or a handler keeps interrupts off and a process without either
\* has them on wherever it resumed, and the sleep-lock has the owner it names.
THEOREM SpinSafeInvariant == Spec => []SpinSafe
<1>1. Fit(sp) => SpinSafe
  BY SpinAssumption, FitSafe
<1> QED
  BY <1>1, FitInvariant, PTL
=============================================================================
