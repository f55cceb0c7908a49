------------------------------- MODULE Malloc -------------------------------
(***************************************************************************)
(* malloc() and free() of the user library: a circular list of free blocks *)
(* in address order, first fit from freep, the tail of a larger block is   *)
(* handed out, neighbours are joined again.  Addresses count headers; the  *)
(* static `base' is address 0 and the heap starts at 2, above a gap.       *)
(***************************************************************************)
EXTENDS Integers, FiniteSets, FiniteSetsExt

CONSTANTS MinUnits,     \* units asked of sbrk at least (4096 in the code)
          HeapUnits,    \* bound: units sbrk can give
          Payloads      \* bound: payloads asked for, in units

VARIABLES heap     \* freep (-1: never called), free list, sizes, end, blocks handed out

Base == 0
HeapStart == 2

Init == heap = [freep |-> -1, ptr |-> <<>>, size |-> <<>>, brk |-> HeapStart, live |-> <<>>]

OnList(h) == DOMAIN h.ptr
With(f, a, v) == [x \in DOMAIN f \cup {a} |-> IF x = a THEN v ELSE f[x]]
Without(f, a) == [x \in DOMAIN f \ {a} |-> f[x]]

\* The list from a block on.
Walk(h, from) ==
    LET nth[k \in Nat] == IF k = 0 THEN from ELSE h.ptr[nth[k - 1]]
    IN  [k \in 0..(Cardinality(OnList(h)) - 1) |-> nth[k]]

\* Seeded fault: a block that ends where a free one starts is not joined to it.
JoinsNext_Never(h, bp, n, p) == FALSE

JoinsNext(h, bp, n, p) == bp + n = h.ptr[p]

\* free() of the block bp of n units: the list element it goes after, then the neighbours.
free(h, bp, n) ==
    LET fits(p) == \/ bp > p /\ bp < h.ptr[p]
                   \/ p >= h.ptr[p] /\ (bp > p \/ bp < h.ptr[p])
        order == Walk(h, h.freep)
        p == order[Min({k \in DOMAIN order : fits(order[k])})]
        next == h.ptr[p]
        up == JoinsNext(h, bp, n, p)
        down == p + h.size[p] = bp
        size == IF up THEN n + h.size[next] ELSE n
        after == IF up THEN h.ptr[next] ELSE next
        left == IF up THEN [h EXCEPT !.ptr = Without(@, next), !.size = Without(@, next)] ELSE h
    IN  IF down THEN [left EXCEPT !.size = With(@, p, h.size[p] + size), !.ptr = With(@, p, after),
                                  !.freep = p]
        ELSE [left EXCEPT !.size = With(@, bp, size),
                          !.ptr = With(With(@, bp, after), p, bp), !.freep = p]

\* sbrk() and free() of what it gave.
morecore(h, nu) ==
    LET n == IF nu < MinUnits THEN MinUnits ELSE nu
    IN  free([h EXCEPT !.brk = @ + n], h.brk, n)
CanGrow(h, nu) == h.brk + (IF nu < MinUnits THEN MinUnits ELSE nu) <= HeapStart + HeapUnits

\* The first call makes a list of the base alone.
Started(h) == IF h.freep = -1 THEN [h EXCEPT !.freep = Base, !.ptr = [a \in {Base} |-> Base],
                                             !.size = [a \in {Base} |-> 0]] ELSE h

\* First fit, from the element after freep round to freep itself.
Fit(h, nunits) ==
    LET order == Walk(h, h.ptr[h.freep])
        ks == {k \in DOMAIN order : h.size[order[k]] >= nunits}
    IN  IF ks = {} THEN [found |-> FALSE]
        ELSE LET k == Min(ks) IN [found |-> TRUE, p |-> order[k],
                                  prevp |-> IF k = 0 THEN h.freep ELSE order[k - 1]]

Take(h, fit, nunits) ==
    IF h.size[fit.p] = nunits
    THEN [h EXCEPT !.ptr = With(Without(@, fit.p), fit.prevp, h.ptr[fit.p]), !.size = Without(@, fit.p),
                   !.freep = fit.prevp, !.live = With(@, fit.p, nunits)]
    ELSE [h EXCEPT !.size[fit.p] = @ - nunits, !.freep = fit.prevp,
                   !.live = With(@, fit.p + h.size[fit.p] - nunits, nunits)]

malloc(payload) ==
    LET nunits == payload + 1
        h == Started(heap)
        grown == morecore(h, nunits)
    IN  heap' = CASE Fit(h, nunits).found -> Take(h, Fit(h, nunits), nunits)
                  [] ~Fit(h, nunits).found /\ CanGrow(h, nunits) -> Take(grown, Fit(grown, nunits), nunits)
                  [] OTHER -> h

free_block(bp) ==
    /\ bp \in DOMAIN heap.live
    /\ heap' = free([heap EXCEPT !.live = Without(@, bp)], bp, heap.live[bp])

Next == \/ \E n \in Payloads : malloc(n)
        \/ \E bp \in DOMAIN heap.live : free_block(bp)

-----------------------------------------------------------------------------

\* Blocks handed out and free blocks tile the heap without overlap or gap, whatever the
\* order of calls, the list is in address order, and no two free blocks touch.
HeapTiled ==
    LET blocks == {<<a, heap.size[a]>> : a \in OnList(heap) \ {Base}}
                    \cup {<<a, heap.live[a]>> : a \in DOMAIN heap.live}
        units(b) == b[1]..(b[1] + b[2] - 1)
    IN  /\ UNION {units(b) : b \in blocks} = HeapStart..(heap.brk - 1)
        /\ \A b, c \in blocks : b # c => units(b) \cap units(c) = {}
        /\ \A a \in OnList(heap) :
              \/ a < heap.ptr[a] /\ a + heap.size[a] # heap.ptr[a] /\ ~\E c \in OnList(heap) : a < c /\ c < heap.ptr[a]
              \/ a = Max(OnList(heap)) /\ heap.ptr[a] = Base
=============================================================================
