------------------------------- MODULE Memory -------------------------------
(***************************************************************************)
(* Processes and their memory in the kernel with lazy allocation: fork and *)
(* wait, sbrk, ssualloc, page faults and exec over a bounded kalloc().     *)
(*                                                                         *)
(* Physical pages are counted, not named.  An address space is the pages   *)
(* its page directory takes (KVM), the page tables it has, and a state for *)
(* each virtual page.  Sizes are in units of which PGSIZE make a page, so  *)
(* that sizes off a page boundary exist.  Loops over pages are one step    *)
(* per page: other processes allocate in between.                          *)
(***************************************************************************)
EXTENDS Proc

CONSTANTS NPAGES,     \* physical pages
          PGSIZE,     \* units of a page
          MAXPG,      \* user pages below KERNBASE
          PTSPAN,     \* pages one page table maps
          KVM,        \* pages setupkvm takes
          ExecPages   \* pages of a program's segments

ASSUME MemoryAssumption ==
    /\ NPAGES \in Nat /\ KVM \in Nat \ {0} /\ ExecPages \in Nat \ {0}
    /\ PGSIZE \in Nat \ {0} /\ MAXPG \in Nat \ {0} /\ PTSPAN \in Nat \ {0}
    /\ ExecPages + 2 <= MAXPG       \* a program fits below KERNBASE
    /\ KVM + 3 <= NPAGES            \* userinit finds its pages

Page == 0..(MAXPG - 1)
KERNBASE == MAXPG * PGSIZE

VARIABLES
    nfree,     \* pages on kmem.freelist
    kstack,    \* processes that have a kernel stack
    vm, sz,    \* address space and size of each process
    spare      \* the address space exec() is building

memVars == <<nfree, kstack, vm, sz, spare>>

PGROUNDUP(x) == ((x + PGSIZE - 1) \div PGSIZE) * PGSIZE
FirstPage(x) == PGROUNDUP(x) \div PGSIZE      \* first page at or above x
Region(g) == g \div PTSPAN

\* A page is absent, reserved (PTE_SSU), present, or present without PTE_U.
NoSpace == [dir |-> FALSE, pt |-> {}, pte |-> [g \in Page |-> "none"]]
setupkvm == [NoSpace EXCEPT !.dir = TRUE]
IsMapped(s, g) == s.pte[g] \in {"present", "guard"}

\* The physical pages freevm() gives back.
Pages(s) == (IF s.dir THEN KVM ELSE 0) + Cardinality(s.pt)
            + Cardinality({g \in Page : IsMapped(s, g)})

\* walkpgdir: page tables to allocate before page g has an entry.
PtNeeded(s, g) == IF Region(g) \in s.pt THEN 0 ELSE 1
Map(s, g, v) == [s EXCEPT !.pt = @ \cup {Region(g)}, !.pte[g] = v]

countphyspages(s, size) == Cardinality({g \in Page : g * PGSIZE < size /\ IsMapped(s, g)})

\* Seeded fault: reserved pages are left behind.
deallocuvm_Reserved(s, oldsz, newsz) ==
    [s EXCEPT !.pte = [g \in Page |->
        IF g >= FirstPage(newsz) /\ g * PGSIZE < oldsz /\ IsMapped(s, g) THEN "none" ELSE s.pte[g]]]

deallocuvm(s, oldsz, newsz) ==
    [s EXCEPT !.pte = [g \in Page |->
        IF g >= FirstPage(newsz) /\ g * PGSIZE < oldsz THEN "none" ELSE s.pte[g]]]

MemInit ==
    /\ kstack = {initproc}
    /\ vm = [p \in Slot |-> IF p = initproc THEN Map(setupkvm, 0, "present") ELSE NoSpace]
    /\ sz = [p \in Slot |-> IF p = initproc THEN PGSIZE ELSE 0]
    /\ spare = [p \in Slot |-> NoSpace]
    /\ nfree = NPAGES - (KVM + 3)

-----------------------------------------------------------------------------
(* fork                                                                    *)

\* Seeded fault: the kernel stack of the child is forgotten.
Owned_NoStack(q) == Pages(vm[q])

Owned(q) == (IF q \in kstack THEN 1 ELSE 0) + Pages(vm[q])

\* fork() fails: the child's slot goes back, with all it owns; its pid stays in it.
Abandon(p) ==
    /\ state' = [state EXCEPT ![loc[p].np] = "UNUSED"]
    /\ nfree' = nfree + Owned(loc[p].np)
    /\ kstack' = kstack \ {loc[p].np}
    /\ vm' = [vm EXCEPT ![loc[p].np] = NoSpace]
    /\ Return(p)
    /\ UNCHANGED <<pid, parent, killed, chan, nextpid, ofile, panicked, sz, spare>>

\* allocproc, under ptable.lock.
fork(p) ==
    /\ InUser(p)
    /\ nextpid <= MaxPid
    /\ LET unused == {q \in Slot : state[q] = "UNUSED"}
           np == Min(unused)
       IN  /\ unused # {}
           /\ state' = [state EXCEPT ![np] = "EMBRYO"]
           /\ pid' = [pid EXCEPT ![np] = nextpid]
           /\ nextpid' = nextpid + 1
           /\ loc' = [loc EXCEPT ![p] = [NoLoc EXCEPT !.np = np]]
    /\ Goto(p, "fork_kstack")
    /\ UNCHANGED <<parent, killed, chan, ofile, panicked, memVars>>

fork_kstack(p) ==
    /\ Running(p)
    /\ pc[p] = "fork_kstack"
    /\ IF nfree = 0 THEN Abandon(p)
       ELSE /\ nfree' = nfree - 1
            /\ kstack' = kstack \cup {loc[p].np}
            /\ Goto(p, "fork_setupkvm")
            /\ UNCHANGED <<ptable, ofile, loc, panicked, vm, sz, spare>>

fork_setupkvm(p) ==
    /\ Running(p)
    /\ pc[p] = "fork_setupkvm"
    /\ IF nfree < KVM THEN Abandon(p)
       ELSE /\ nfree' = nfree - KVM
            /\ vm' = [vm EXCEPT ![loc[p].np] = setupkvm]
            /\ Goto(p, "copyuvm")
            /\ UNCHANGED <<ptable, ofile, loc, panicked, kstack, sz, spare>>

\* One page of copyuvm; when memory runs out freevm() undoes all of it.
copyuvm(p) ==
    /\ Running(p)
    /\ pc[p] = "copyuvm"
    /\ loc[p].i * PGSIZE < sz[p]
    /\ LET np == loc[p].np
           g == loc[p].i
           v == vm[p].pte[g]
           cost == (IF v = "ssu" THEN 0 ELSE 1) + PtNeeded(vm[np], g)
       IN  IF v = "none" \/ cost <= nfree
           THEN /\ vm' = IF v = "none" THEN vm ELSE [vm EXCEPT ![np] = Map(@, g, v)]
                /\ nfree' = IF v = "none" THEN nfree ELSE nfree - cost
                /\ loc' = [loc EXCEPT ![p].i = @ + 1]
                /\ UNCHANGED <<ptable, ofile, pc, panicked, kstack, sz, spare>>
           ELSE Abandon(p)

\* The rest of fork: nobody looks at an EMBRYO but kill().
fork_return(p) ==
    /\ Running(p)
    /\ pc[p] = "copyuvm"
    /\ loc[p].i * PGSIZE >= sz[p]
    /\ LET np == loc[p].np
       IN  /\ sz' = [sz EXCEPT ![np] = sz[p]]
           /\ parent' = [parent EXCEPT ![np] = p]
           /\ ofile' = [ofile EXCEPT ![np] = ofile[p]]
           /\ state' = [state EXCEPT ![np] = "RUNNABLE"]
           /\ pc' = [pc EXCEPT ![p] = "user", ![np] = "user"]
           /\ loc' = [loc EXCEPT ![p] = NoLoc, ![np] = NoLoc]
    /\ UNCHANGED <<pid, killed, chan, nextpid, panicked, nfree, kstack, vm, spare>>

-----------------------------------------------------------------------------
(* wait                                                                    *)

Children(p) == {q \in Slot : parent[q] = p}
Zombies(p) == {q \in Children(p) : state[q] = "ZOMBIE"}

\* One round of the loop, under ptable.lock.
wait(p) ==
    /\ Running(p)
    /\ pc[p] = "wait" \/ InUser(p)
    /\ \/ /\ Zombies(p) # {}
          /\ LET q == Min(Zombies(p))
             IN  /\ nfree' = nfree + Owned(q)
                 /\ kstack' = kstack \ {q}
                 /\ vm' = [vm EXCEPT ![q] = NoSpace]
                 /\ sz' = [sz EXCEPT ![q] = 0]
                 /\ pid' = [pid EXCEPT ![q] = 0]
                 /\ parent' = [parent EXCEPT ![q] = 0]
                 /\ killed' = [killed EXCEPT ![q] = FALSE]
                 /\ state' = [state EXCEPT ![q] = "UNUSED"]
          /\ Return(p)
          /\ UNCHANGED <<chan, nextpid, ofile, panicked, spare>>
       \/ /\ Zombies(p) = {}
          /\ Children(p) = {} \/ killed[p]
          /\ Return(p)
          /\ UNCHANGED <<ptable, ofile, panicked, memVars>>
       \/ /\ Zombies(p) = {}
          /\ Children(p) # {} /\ ~killed[p]
          /\ sleep(p, <<"wait", p>>)
          /\ Goto(p, "wait")
          /\ UNCHANGED <<pid, parent, killed, nextpid, ofile, loc, panicked, memVars>>

-----------------------------------------------------------------------------
(* sbrk                                                                    *)

\* growproc with n > 0: allocuvm, page by page.
sbrk_grow(p, n) ==
    /\ InUser(p)
    /\ sz[p] + n < KERNBASE
    /\ loc' = [loc EXCEPT ![p] = [NoLoc EXCEPT !.i = FirstPage(sz[p]), !.n = sz[p] + n]]
    /\ Goto(p, "allocuvm")
    /\ UNCHANGED <<ptable, ofile, panicked, memVars>>

allocuvm(p) ==
    /\ Running(p)
    /\ pc[p] = "allocuvm"
    /\ LET g == loc[p].i
           newsz == loc[p].n
           cost == 1 + PtNeeded(vm[p], g)
           undone == deallocuvm(vm[p], newsz, sz[p])
       IN  \/ /\ g * PGSIZE >= newsz
              /\ sz' = [sz EXCEPT ![p] = newsz]
              /\ Return(p)
              /\ UNCHANGED <<nfree, vm>>
           \/ /\ g * PGSIZE < newsz
              /\ cost <= nfree
              /\ vm' = [vm EXCEPT ![p] = Map(@, g, "present")]
              /\ nfree' = nfree - cost
              /\ loc' = [loc EXCEPT ![p].i = @ + 1]
              /\ UNCHANGED <<pc, sz>>
           \/ /\ g * PGSIZE < newsz
              /\ cost > nfree
              /\ vm' = [vm EXCEPT ![p] = undone]
              /\ nfree' = nfree + Pages(vm[p]) - Pages(undone)
              /\ Return(p)
              /\ UNCHANGED sz
    /\ UNCHANGED <<ptable, ofile, panicked, kstack, spare>>

\* growproc with n < 0: a new size of 0 frees everything and is then taken for
\* a failure of deallocuvm; one below 0 wraps around and changes nothing.
sbrk_shrink(p, n) ==
    /\ InUser(p)
    /\ n <= sz[p]
    /\ LET newsz == sz[p] - n
           freed == deallocuvm(vm[p], sz[p], newsz)
       IN  /\ vm' = [vm EXCEPT ![p] = freed]
           /\ nfree' = nfree + Pages(vm[p]) - Pages(freed)
           /\ sz' = IF newsz = 0 THEN sz ELSE [sz EXCEPT ![p] = newsz]
    /\ UNCHANGED <<procVars, kstack, spare>>

-----------------------------------------------------------------------------
(* ssualloc and page faults                                                *)

\* reservessuvm: page tables that were allocated before memory ran out stay.
sys_ssualloc(p, n) ==
    /\ InUser(p)
    /\ LET base == PGROUNDUP(sz[p])
           newsz == base + n * PGSIZE
           pages == {g \in Page : base <= g * PGSIZE /\ g * PGSIZE < newsz}
           tables == {Region(g) : g \in pages} \ vm[p].pt
           got == {r \in tables : Cardinality({t \in tables : t < r}) < nfree}
           ok == tables = got /\ \A g \in pages : vm[p].pte[g] = "none"
       IN  /\ newsz < KERNBASE
           /\ nfree' = nfree - Cardinality(got)
           /\ vm' = [vm EXCEPT ![p] = [@ EXCEPT
                        !.pt = vm[p].pt \cup got,
                        !.pte = [g \in Page |-> IF ok /\ g \in pages THEN "ssu" ELSE vm[p].pte[g]]]]
           /\ sz' = IF ok THEN [sz EXCEPT ![p] = newsz] ELSE sz
    /\ UNCHANGED <<procVars, kstack, spare>>

allocssupage(p, g) ==
    /\ vm[p].pte[g] = "ssu"
    /\ nfree > 0
    /\ nfree' = nfree - 1
    /\ vm' = [vm EXCEPT ![p].pte[g] = "present"]

\* T_PGFLT from user space: any page, also beyond the size.
trap_user(p, g) ==
    /\ InUser(p)
    /\ vm[p].pte[g] # "present"
    /\ \/ allocssupage(p, g) /\ UNCHANGED killed
       \/ /\ vm[p].pte[g] # "ssu" \/ nfree = 0
          /\ killed' = [killed EXCEPT ![p] = TRUE]
          /\ UNCHANGED <<nfree, vm>>
    /\ UNCHANGED <<state, pid, parent, chan, nextpid, ofile, pc, loc, panicked,
                   kstack, sz, spare>>

\* T_PGFLT in a system call that copies to or from a buffer argptr() accepts.
trap_kernel(p, g) ==
    /\ InUser(p)
    /\ g * PGSIZE < sz[p]
    /\ vm[p].pte[g] \in {"none", "ssu"}
    /\ \/ allocssupage(p, g) /\ UNCHANGED panicked
       \/ /\ vm[p].pte[g] # "ssu" \/ nfree = 0
          /\ panicked' = TRUE
          /\ UNCHANGED <<nfree, vm>>
    /\ UNCHANGED <<ptable, ofile, pc, loc, kstack, sz, spare>>

-----------------------------------------------------------------------------
(* exec                                                                    *)

exec(p) ==
    /\ InUser(p)
    /\ KVM <= nfree
    /\ nfree' = nfree - KVM
    /\ spare' = [spare EXCEPT ![p] = setupkvm]
    /\ Goto(p, "exec")
    /\ UNCHANGED <<ptable, ofile, loc, panicked, kstack, vm, sz>>

\* One page of the program, then of the guard and the stack.
exec_page(p) ==
    /\ Running(p)
    /\ pc[p] = "exec"
    /\ LET g == loc[p].i
           cost == 1 + PtNeeded(spare[p], g)
       IN  /\ g < ExecPages + 2
           /\ cost <= nfree
           /\ nfree' = nfree - cost
           /\ spare' = [spare EXCEPT ![p] = Map(@, g, IF g = ExecPages THEN "guard" ELSE "present")]
           /\ loc' = [loc EXCEPT ![p].i = @ + 1]
    /\ UNCHANGED <<ptable, ofile, pc, panicked, kstack, vm, sz>>

\* Out of memory, or a bad file.
exec_bad(p) ==
    /\ Running(p)
    /\ pc[p] = "exec"
    /\ nfree' = nfree + Pages(spare[p])
    /\ spare' = [spare EXCEPT ![p] = NoSpace]
    /\ Return(p)
    /\ UNCHANGED <<ptable, ofile, panicked, kstack, vm, sz>>

exec_commit(p) ==
    /\ Running(p)
    /\ pc[p] = "exec"
    /\ loc[p].i = ExecPages + 2
    /\ nfree' = nfree + Pages(vm[p])
    /\ vm' = [vm EXCEPT ![p] = spare[p]]
    /\ spare' = [spare EXCEPT ![p] = NoSpace]
    /\ sz' = [sz EXCEPT ![p] = (ExecPages + 2) * PGSIZE]
    /\ Return(p)
    /\ UNCHANGED <<ptable, ofile, panicked, kstack>>
=============================================================================
