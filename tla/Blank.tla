------------------------------- MODULE Blank --------------------------------
(***************************************************************************)
(* The comparison of a blank answer with the answer key: make_tree() turns *)
(* tokens into a tree of nodes linked by parent (of the first child only), *)
(* child_head, prev and next; compare_tree() compares two trees, turning   *)
(* comparisons round and trying operands in another order.  A heap is a    *)
(* sequence of nodes, 0 the null pointer.  make_tokens() is not modelled:  *)
(* a line is its tokens.                                                   *)
(***************************************************************************)
EXTENDS Integers, Sequences, FiniteSets, FiniteSetsExt, SequencesExt

CONSTANTS Pairs,      \* bound: <<student's line, candidates of the key>> to compare
          Valuations  \* bound: values of the operands

VARIABLES bl    \* phase, the lines, the candidate looked at, and what was found

-----------------------------------------------------------------------------
(* Nodes                                                                   *)

get_precedence(op) ==
    CASE op = "->" -> 1 [] op = "%" -> 2 [] op = "/" -> 3 [] op = "*" -> 4 [] op = "-" -> 5 [] op = "+" -> 6
      [] op \in {"<", "<=", ">", ">="} -> 7 [] op \in {"==", "!="} -> 8
      [] op = "&" -> 9 [] op = "^" -> 10 [] op = "|" -> 11 [] op = "&&" -> 12 [] op = "||" -> 13
      [] op \in {"=", "+=", "-=", "&=", "|="} -> 14
      [] OTHER -> 0
is_operator(op) == op \in {"(", ")"} \/ get_precedence(op) > 0

Associative == {"||", "&&", "|", "&", "+", "*"}

create_node(name, par) == [name |-> name, par |-> par, parent |-> 0, child |-> 0, prev |-> 0, next |-> 0]

RECURSIVE First(_, _)
First(h, n) == IF h[n].prev = 0 THEN n ELSE First(h, h[n].prev)
RECURSIVE LastNode(_, _)
LastNode(h, n) == IF h[n].next = 0 THEN n ELSE LastNode(h, h[n].next)

\* The nearest node of a name, from n to the left, or the first.
RECURSIVE Leftward(_, _, _)
Leftward(h, n, name) == IF h[n].name = name \/ h[n].prev = 0 THEN n ELSE Leftward(h, h[n].prev, name)

RECURSIVE get_root(_, _)
get_root(h, n) ==
    IF n = 0 THEN 0
    ELSE LET f == First(h, n) IN IF h[f].parent = 0 THEN f ELSE get_root(h, h[f].parent)

get_last_child(h, n) == LastNode(h, IF h[n].child # 0 THEN h[n].child ELSE n)
get_operator(h, n) == h[First(h, n)].parent

RECURSIVE Siblings(_, _)
Siblings(h, n) == IF n = 0 THEN <<>> ELSE <<n>> \o Siblings(h, h[n].next)
get_sibling_cnt(h, n) == Len(Siblings(h, First(h, n)))

\* The nearest operator, to the left and up, that binds tighter than a precedence, or
\* the place where the walk ends.
RECURSIVE get_high_precedence_node(_, _, _)
get_high_precedence_node(h, n, p) ==
    IF is_operator(h[n].name) /\ get_precedence(h[n].name) < p THEN n
    ELSE IF h[n].prev # 0 THEN get_high_precedence_node(h, h[n].prev, p)
    ELSE IF h[n].parent = 0 THEN n
    ELSE get_high_precedence_node(h, h[n].parent, p)

RECURSIVE MostHighFrom(_, _, _)
MostHighFrom(h, n, p) ==
    IF h[n].parent = 0 THEN n
    ELSE MostHighFrom(h, get_high_precedence_node(h, IF h[n].prev # 0 THEN h[n].prev ELSE h[n].parent, p), p)
get_most_high_precedence_node(h, n, p) == MostHighFrom(h, get_high_precedence_node(h, n, p), p)

\* new takes the place of old and has it as its child.
insert_node(h, old, new) ==
    LET left == h[old].prev
        g == IF left = 0 THEN h
             ELSE [h EXCEPT ![new].prev = left, ![left].next = new, ![old].prev = 0]
    IN  [g EXCEPT ![new].child = old, ![old].parent = new]

\* A sibling after the last child of n.
Chain(h, last, new) == [h EXCEPT ![last].next = new, ![new].prev = last]

-----------------------------------------------------------------------------
(* make_tree                                                               *)

\* s has the heap, the index into the tokens and the current node.  The end of the
\* tokens is an empty one.
Tok(toks, i) == IF i \in DOMAIN toks THEN toks[i] ELSE ""

\* The search of `case +, *' for the operator after the parentheses.
RECURSIVE OperatorAfter(_, _)
OperatorAfter(toks, i) ==
    IF Tok(toks, i) = "" \/ (is_operator(toks[i]) /\ toks[i] # ")") THEN Tok(toks, i)
    ELSE OperatorAfter(toks, i + 1)

\* A parenthesized tree `new' after the current node.
Attach(s, new, toks) ==
    LET h == s.h
        name == h[new].name
        last == get_last_child(h, s.cur)
        kids == h[new].child
        beside == [s EXCEPT !.h = Chain(h, last, new), !.cur = new]
        merged == IF kids = 0 THEN [s EXCEPT !.cur = last]
                  ELSE [s EXCEPT !.h = [Chain(h, last, kids) EXCEPT ![new].child = 0, ![kids].parent = 0],
                                 !.cur = last]
    IN  IF s.cur = 0 THEN [s EXCEPT !.cur = new]
        ELSE IF name # h[s.cur].name THEN beside
        ELSE IF name \in {"|", "||", "&", "&&"} THEN merged
        ELSE IF name \in {"+", "*"}
             THEN IF get_precedence(OperatorAfter(toks, s.idx)) < get_precedence(name) THEN beside ELSE merged
        ELSE beside

\* An operator that joins more than two operands.
AddAssociative(s, name, par) ==
    LET new == Len(s.h) + 1
        h == Append(s.h, create_node(name, par))
        p == get_precedence(name)
        op == get_most_high_precedence_node(h, s.cur, p)
        pop == get_precedence(h[op].name)
        last == get_last_child(h, op)
        \* the same operator to the left of the current node, or above
        left == Leftward(h, s.cur, name)
        same == IF h[left].name = name THEN left ELSE h[left].parent
        into(old) == [s EXCEPT !.h = insert_node(h, old, new), !.cur = new]
    IN  IF h[s.cur].name = name THEN s
        ELSE IF h[op].parent # 0 \/ h[op].prev # 0 THEN into(op)
        ELSE IF pop < p THEN into(op)
        ELSE IF pop > p THEN IF h[op].child # 0 THEN into(last) ELSE [s EXCEPT !.h = h]
        ELSE IF same = 0 THEN [s EXCEPT !.h = h]
        ELSE [s EXCEPT !.h = h, !.cur = IF h[same].name = name THEN same ELSE @]

AddBinary(s, name, par) ==
    LET new == Len(s.h) + 1
        h == Append(s.h, create_node(name, par))
        p == get_precedence(name)
        op == get_most_high_precedence_node(h, s.cur, p)
        into(old) == [s EXCEPT !.h = insert_node(h, old, new), !.cur = new]
    IN  IF s.cur = 0 THEN [s EXCEPT !.h = h, !.cur = new]
        ELSE IF h[op].par > par THEN into(op)
        ELSE IF h[op].parent = 0 /\ h[op].prev = 0 /\ get_precedence(h[op].name) > p
             THEN IF h[op].child # 0 THEN into(get_last_child(h, op)) ELSE [s EXCEPT !.h = h]
        ELSE into(op)

AddOperand(s, name, par) ==
    LET new == Len(s.h) + 1
        h == Append(s.h, create_node(name, par))
        last == get_last_child(h, s.cur)
    IN  IF s.cur = 0 THEN [s EXCEPT !.h = h, !.cur = new]
        ELSE IF h[s.cur].child = 0
             THEN [s EXCEPT !.h = [h EXCEPT ![s.cur].child = new, ![new].parent = s.cur], !.cur = new]
        ELSE [s EXCEPT !.h = Chain(h, last, new), !.cur = new]

RECURSIVE make_tree(_, _, _)
RECURSIVE Arguments(_, _, _, _)

\* The arguments of a call, from the opening parenthesis or a comma on.
Arguments(s, toks, par, first) ==
    LET in == make_tree([h |-> s.h, idx |-> s.idx + 1, cur |-> 0], toks, par + 1)
        new == in.cur
        t == [s EXCEPT !.h = IF new = 0 THEN in.h
                             ELSE IF first THEN [in.h EXCEPT ![s.cur].child = new, ![new].parent = s.cur]
                             ELSE Chain(in.h, s.cur, new),
                       !.idx = in.idx, !.cur = IF new = 0 THEN s.cur ELSE new]
    IN  IF Tok(toks, s.idx + 1) = ")" THEN [s EXCEPT !.idx = @ + 1]
        ELSE IF Tok(toks, t.idx) = ")" THEN t
        ELSE Arguments(t, toks, par, IF new = 0 THEN first ELSE FALSE)

make_tree(s, toks, par) ==
    LET tok == Tok(toks, s.idx)
        before == Tok(toks, s.idx - 1)
        call == s.idx > 1 /\ ~is_operator(before) /\ before # ","
        inner == make_tree([h |-> s.h, idx |-> s.idx + 1, cur |-> 0], toks, par + 1)
        step == CASE tok = "(" /\ call -> Arguments(s, toks, par, TRUE)
                  [] tok = "(" /\ ~call -> Attach([s EXCEPT !.h = inner.h, !.idx = inner.idx], inner.cur, toks)
                  [] tok \in Associative -> AddAssociative(s, tok, par)
                  [] tok # "(" /\ is_operator(tok) /\ tok \notin Associative -> AddBinary(s, tok, par)
                  [] OTHER -> AddOperand(s, tok, par)
    IN  IF tok \in {"", ")", ","} THEN [s EXCEPT !.cur = get_root(s.h, s.cur)]
        ELSE make_tree([step EXCEPT !.idx = @ + 1], toks, par)

Tree(toks) == make_tree([h |-> <<>>, idx |-> 1, cur |-> 0], toks, 0)

-----------------------------------------------------------------------------
(* compare_tree                                                            *)

Comparisons == {"<", ">", "<=", ">="}
Flip(op) == CASE op = "<" -> ">" [] op = ">" -> "<" [] op = "<=" -> ">=" [] op = ">=" -> "<=" [] OTHER -> op

\* The first two children change places; a node without two is a fault of the program.
change_sibling(s, n) ==
    LET h == s.h
        c == h[n].child
        d == h[c].next
    IN  IF c = 0 THEN [s EXCEPT !.crash = TRUE]
        ELSE IF d = 0 THEN [s EXCEPT !.crash = TRUE]
        ELSE [s EXCEPT !.h = [h EXCEPT ![n].child = d, ![d].parent = n, ![d].prev = 0, ![d].next = c,
                                       ![c].prev = d, ![c].next = 0, ![c].parent = 0]]

RECURSIVE compare_tree(_, _, _, _)
RECURSIVE TryEach(_, _, _, _)

\* Seeded fault: the first child of an associative operator is compared with the first only.
TryEach_First(g, a, s, b) == compare_tree(g, a, s, b)

\* Seeded fault: the verdict is reset after the last try too.
TryEach_Reset(g, a, s, b) ==
    LET r == compare_tree(g, a, s, b)
    IN  IF b = 0 \/ r.crash \/ r.result THEN r
        ELSE IF r.h[b].next = 0 THEN [r EXCEPT !.result = TRUE]
        ELSE compare_tree(g, a, [r EXCEPT !.result = TRUE], r.h[b].next)

\* One of the nodes from b on compares equal to a; the last result stands.
TryEach(g, a, s, b) ==
    LET r == compare_tree(g, a, s, b)
    IN  IF b = 0 \/ r.crash \/ r.result THEN r
        ELSE IF r.h[b].next = 0 THEN r
        ELSE TryEach(g, a, [r EXCEPT !.result = TRUE], r.h[b].next)

\* g is the student's heap; s has the key's, which the comparison rearranges, the result
\* and whether a null pointer was followed.
compare_tree(g, a, s, b) ==
    LET no(t) == [t EXCEPT !.result = FALSE]
        turn == g[a].name \in Comparisons /\ g[a].name # s.h[b].name
        t == IF turn THEN change_sibling([s EXCEPT !.h[b].name = Flip(@)], b) ELSE s
        name == g[a].name
        kids(u) ==
            LET c == g[a].child
                d == u.h[b].child
                r == compare_tree(g, c, u, d)
                w == change_sibling([r EXCEPT !.result = TRUE], b)
            IN  CASE name \in {"==", "!="} ->
                        IF r.crash \/ r.result THEN r
                        ELSE IF w.crash THEN w ELSE compare_tree(g, c, w, w.h[b].child)
                  [] name \in Associative -> TryEach(g, c, u, First(u.h, d))
                  [] OTHER -> r
        below == IF g[a].child = 0 THEN t ELSE kids(t)
    IN  IF s.crash THEN s
        ELSE IF a = 0 \/ b = 0 THEN no(s)
        ELSE IF t.crash THEN t
        ELSE IF name # t.h[b].name THEN no(t)
        ELSE IF (g[a].child = 0) # (t.h[b].child = 0) THEN no(t)
        ELSE IF g[a].child # 0 /\ get_sibling_cnt(g, g[a].child) # get_sibling_cnt(t.h, t.h[b].child) THEN no(t)
        ELSE IF below.crash \/ g[a].next = 0 THEN below
        ELSE IF get_sibling_cnt(g, a) # get_sibling_cnt(below.h, b) THEN no(below)
        ELSE IF ~below.result THEN below
        ELSE IF g[get_operator(g, a)].name \in Associative THEN TryEach(g, g[a].next, below, First(below.h, b))
        ELSE compare_tree(g, g[a].next, below, below.h[b].next)

-----------------------------------------------------------------------------
(* blank_answer_matches.  A line is [toks, semi]: its tokens and whether   *)
(* it ended with a semicolon.                                              *)

Init == \E p \in Pairs :
    bl = [phase |-> "parse", student |-> p[1], cands |-> p[2], k |-> 1, tree |-> <<>>]

parse_blank_tree ==
    /\ bl.phase = "parse"
    /\ bl' = IF bl.student.toks = <<>> THEN [bl EXCEPT !.phase = "unmatched"]
             ELSE [bl EXCEPT !.phase = "compare", !.tree = Tree(bl.student.toks)]

Against(c) ==
    LET kt == Tree(c.toks)
    IN  compare_tree(bl.tree.h, bl.tree.cur, [h |-> kt.h, result |-> TRUE, crash |-> FALSE], kt.cur)

\* One candidate: skipped when it is empty or differs in the semicolon.
compare_candidate ==
    LET c == bl.cands[bl.k]
        r == Against(c)
        skip == c.toks = <<>> \/ c.semi # bl.student.semi
    IN  /\ bl.phase = "compare" /\ bl.k <= Len(bl.cands)
        /\ bl' = IF skip THEN [bl EXCEPT !.k = @ + 1]
                 ELSE IF r.crash THEN [bl EXCEPT !.phase = "fault"]
                 ELSE IF r.result THEN [bl EXCEPT !.phase = "matched"]
                 ELSE [bl EXCEPT !.k = @ + 1]

no_candidate ==
    /\ bl.phase = "compare" /\ bl.k > Len(bl.cands)
    /\ bl' = [bl EXCEPT !.phase = "unmatched"]

Next == parse_blank_tree \/ compare_candidate \/ no_candidate

-----------------------------------------------------------------------------
(* What an expression without parentheses means                            *)

\* The loosest operator, the last of equals, is the root.
RECURSIVE Parse(_)
Parse(toks) ==
    LET ops == {i \in DOMAIN toks : get_precedence(toks[i]) > 0}
        looser(i, j) == \/ get_precedence(toks[i]) < get_precedence(toks[j])
                        \/ get_precedence(toks[i]) = get_precedence(toks[j]) /\ i <= j
        root == CHOOSE j \in ops : \A i \in ops : looser(i, j)
    IN  IF ops = {} THEN <<toks[1]>>
        ELSE <<toks[root], Parse(SubSeq(toks, 1, root - 1)), Parse(SubSeq(toks, root + 1, Len(toks)))>>

\* The tree as it was built.
RECURSIVE TreeOf(_, _)
TreeOf(h, n) == <<h[n].name>> \o [k \in DOMAIN Siblings(h, h[n].child) |-> TreeOf(h, Siblings(h, h[n].child)[k])]

Bit(P) == IF P THEN 1 ELSE 0
RECURSIVE Value(_, _)
Value(t, val) ==
    LET v == [k \in 1..(Len(t) - 1) |-> Value(t[k + 1], val)]
    IN  CASE Len(t) = 1 -> val[t[1]]
          [] t[1] = "+" -> FoldLeft(LAMBDA x, y : x + y, 0, v)
          [] t[1] = "*" -> FoldLeft(LAMBDA x, y : x * y, 1, v)
          [] t[1] = "-" -> v[1] - v[2]
          [] t[1] = "<" -> Bit(v[1] < v[2])
          [] t[1] = ">" -> Bit(v[1] > v[2])
          [] t[1] = "<=" -> Bit(v[1] <= v[2])
          [] t[1] = "==" -> Bit(v[1] = v[2])
Same(t, u) == \A val \in Valuations : Value(t, val) = Value(u, val)

\* The operands of the root exchanged.
Turned(t) == IF Len(t) = 3 /\ (t[1] \in Comparisons \cup {"=="} \cup Associative) THEN <<Flip(t[1]), t[3], t[2]>> ELSE t

Has(toks, S) == \E k \in DOMAIN toks : toks[k] \in S

\* Which operand of u each of t's may be held against: those of an associative operator
\* against any, several against the same one too; of an operator in swap, in order or
\* exchanged; of a comparison turned round, exchanged; of any other, in order.
Orders(t, u, swap) ==
    LET straight == [i \in 2..Len(t) |-> i]
        crossed == [i \in 2..Len(t) |-> Len(t) + 2 - i]
    IN  CASE Len(t) # Len(u) -> {}
          [] Len(t) = Len(u) /\ t[1] = u[1] /\ t[1] \in Associative -> [2..Len(t) -> 2..Len(t)]
          [] Len(t) = Len(u) /\ t[1] = u[1] /\ t[1] \in swap -> {straight, crossed}
          [] Len(t) = Len(u) /\ t[1] = u[1] /\ t[1] \notin Associative \cup swap -> {straight}
          [] Len(t) = 3 /\ Len(u) = 3 /\ t[1] # u[1] /\ t[1] \in Comparisons /\ Flip(t[1]) = u[1] -> {crossed}
          [] OTHER -> {}

RECURSIVE Covers(_, _, _)
Covers(t, u, swap) == \E f \in Orders(t, u, swap) : \A i \in DOMAIN f : Covers(t[i], u[f[i]], swap)

\* Two operands of one associative operator are the same.
RECURSIVE Repeats(_)
Repeats(t) == \/ t[1] \in Associative /\ \E i, j \in 2..Len(t) : i # j /\ Covers(t[i], t[j], {"==", "!="})
              \/ \E i \in 2..Len(t) : Repeats(t[i])

\* A comparison of t may be held against a node of u that has no two operands to turn.
RECURSIVE MeetsNull(_, _, _)
MeetsNull(t, u, swap) ==
    \/ t[1] \in Comparisons /\ t[1] # u[1] /\ Len(u) < 3
    \/ \E f \in Orders(t, u, swap) : \E i \in DOMAIN f : MeetsNull(t[i], u[f[i]], swap)

\* README, 7: a blank is right when it equals a candidate, but for the order of the operands
\* of + * | & || && == != and comparisons turned round.  For expressions without parentheses
\* (up to three operands, some of four) the tree of the student's line has the value of the
\* line, and the verdict is: an answer is accepted if and only if the tree of a candidate
\* with the same semicolon covers it.  Then it has the candidate's value; and a candidate's
\* own line, or one with its outermost operands exchanged, is accepted.  Three exceptions,
\* in all of which the code departs from the README:
\*  - an answer that repeats an operand of an associative operator: a + a is accepted for
\*    a + b, since the key's operand is not used up;
\*  - an answer with a comparison against a candidate with a subtraction under == (or under
\*    an associative operator): held against the subtraction, the comparison turns it, and
\*    it stays turned, so that b - a is taken for a - b and a - b is not;
\*  - a comparison held against a single operand: a null pointer, and the grading ends.
BlankFair ==
    LET mine == bl.student
        tree == TreeOf(bl.tree.h, bl.tree.cur)
        key(k) == LET kt == Tree(bl.cands[k].toks) IN TreeOf(kt.h, kt.cur)
        means(k) == Parse(bl.cands[k].toks)
        open(k) == bl.cands[k].toks # <<>> /\ bl.cands[k].semi = mine.semi
        fits(k) == Parse(mine.toks) \in {means(k), Turned(means(k))}
        turns(k) == /\ Has(mine.toks, Comparisons) /\ Has(bl.cands[k].toks, {"-"})
                    /\ Has(bl.cands[k].toks, Associative \cup {"==", "!="})
        swap(k) == {"==", "!="} \cup IF turns(k) THEN {"-"} ELSE {}
    IN  /\ bl.phase = "compare" => Same(tree, Parse(mine.toks))
        /\ bl.phase = "unmatched" /\ mine.toks # <<>> =>
              \A k \in DOMAIN bl.cands : open(k) /\ ~turns(k) => ~fits(k) /\ ~Covers(tree, key(k), swap(k))
        /\ bl.phase = "matched" =>
              /\ open(bl.k) /\ Covers(tree, key(bl.k), swap(bl.k))
              /\ Repeats(tree) \/ turns(bl.k) \/ Same(tree, means(bl.k))
        /\ bl.phase = "fault" => open(bl.k) /\ MeetsNull(tree, key(bl.k), swap(bl.k))
=============================================================================
