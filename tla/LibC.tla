-------------------------------- MODULE LibC --------------------------------
(***************************************************************************)
(* The string and memory functions of kernel and user library and the      *)
(* printing of numbers and formats, each as the code computes it: byte by  *)
(* byte, on one small memory in which the arguments may overlap.           *)
(***************************************************************************)
EXTENDS Integers, Sequences, FiniteSets, SequencesExt

CONSTANTS MemSize,      \* bound: bytes of memory
          Byte,         \* bound: values of a byte, 0 among them
          Width,        \* bits of an int (32 in the code)
          Formats,      \* bound: formats, as sequences of characters
          Inputs        \* bound: what gets() reads

VARIABLES lc     \* the memory and the call with its arguments, then its result

Addr == 0..(MemSize - 1)
IntMin == -(2 ^ (Width - 1))
IntMax == 2 ^ (Width - 1) - 1

-----------------------------------------------------------------------------
(* string.c                                                                *)

\* Bytes i = order[1], order[2], ... copied in that order.
Copied(mem, dst, src, order) ==
    LET after[k \in 0..Len(order)] ==
            IF k = 0 THEN mem
            ELSE [after[k - 1] EXCEPT ![dst + order[k]] = after[k - 1][src + order[k]]]
    IN  after[Len(order)]

Upward(n) == [k \in 1..n |-> k - 1]
Downward(n) == [k \in 1..n |-> n - k]

\* Seeded fault: overlapping areas are copied upward too.
Overlaps_Never(dst, src, n) == FALSE

Overlaps(dst, src, n) == src < dst /\ src + n > dst

memmove(mem, dst, src, n) == Copied(mem, dst, src, IF Overlaps(dst, src, n) THEN Downward(n) ELSE Upward(n))

\* ulib.c's own copies upward whatever the areas.
ulib_memmove(mem, dst, src, n) == Copied(mem, dst, src, Upward(n))

\* Both copies of memset store n bytes; the kernel's by words where it can.
memset(mem, dst, c, n) == [a \in Addr |-> IF a \in dst..(dst + n - 1) THEN c ELSE mem[a]]

\* The first place from a on, at most n further, that the loop stops at.
Stop(a, n, Ends(_)) == Min({a + n} \cup {x \in a..(a + n - 1) : Ends(x)})

memcmp(mem, p, q, n) ==
    LET x == Stop(p, n, LAMBDA y : mem[y] # mem[q + y - p])
    IN  IF x = p + n THEN 0 ELSE mem[x] - mem[q + x - p]

strncmp(mem, p, q, n) ==
    LET x == Stop(p, n, LAMBDA y : mem[y] = 0 \/ mem[y] # mem[q + y - p])
    IN  IF x = p + n THEN 0 ELSE mem[x] - mem[q + x - p]

strlen(mem, s) == Stop(s, MemSize - s, LAMBDA y : mem[y] = 0) - s

strcmp(mem, p, q) == strncmp(mem, p, q, MemSize - (IF p > q THEN p ELSE q))

strchr(mem, s, c) ==
    LET x == Stop(s, strlen(mem, s), LAMBDA y : mem[y] = c)
    IN  IF x = s + strlen(mem, s) THEN -1 ELSE x

strcpy(mem, s, t) == Copied(mem, s, t, Upward(strlen(mem, t) + 1))

\* Copied up to the terminator or n bytes, then zeros up to n.
strncpy(mem, s, t, n) ==
    LET len == Stop(t, n, LAMBDA y : mem[y] = 0) - t
        m == IF len < n THEN len + 1 ELSE n
    IN  memset(Copied(mem, s, t, Upward(m)), s + m, 0, n - m)

\* At most n - 1 bytes, the terminator among them if the loop comes to it, and a zero
\* where s stands then.
safestrcpy(mem, s, t, n) ==
    IF n <= 0 THEN mem
    ELSE LET len == Stop(t, n - 1, LAMBDA y : mem[y] = 0) - t
             m == IF len < n - 1 THEN len + 1 ELSE len
         IN  [Copied(mem, s, t, Upward(m)) EXCEPT ![s + m] = 0]

-----------------------------------------------------------------------------
(* Numbers and formats.                                                    *)

Numeral == <<"0", "1", "2", "3", "4", "5", "6", "7", "8", "9", "a", "b", "c", "d", "e", "f">>
Value(d) == CHOOSE v \in 0..15 : Numeral[v + 1] = d

\* The digits of x, most significant first: buf is filled from the low end.
Digits(x, base) ==
    LET quotient[i \in Nat] == IF i = 0 THEN x ELSE quotient[i - 1] \div base
        n == CHOOSE i \in 1..Width : quotient[i] = 0 /\ \A j \in 1..(i - 1) : quotient[j] # 0
    IN  [k \in 1..n |-> Numeral[(quotient[n - k] % base) + 1]]

\* The sign comes off before the digits; -xx of the least int is itself, and x is unsigned.
printint(xx, base, sgn) ==
    LET neg == sgn /\ xx < 0
        x == (IF neg THEN -xx ELSE xx) % 2 ^ Width
    IN  (IF neg THEN <<"-">> ELSE <<>>) \o Digits(x, base)

\* atoi() takes no sign.
atoi(digits) ==
    LET value[k \in 0..Len(digits)] == IF k = 0 THEN 0 ELSE (value[k - 1] * 10 + Value(digits[k])) % 2 ^ Width
    IN  value[Len(digits)]

\* What one directive prints of the argument arg (strings and characters by number).
Directive(c, arg) ==
    CASE c = "d" -> printint(arg, 10, TRUE)
      [] c \in {"x", "p"} -> printint(arg, 16, FALSE)
      [] c \in {"s", "c"} -> <<c, Numeral[arg + 1]>>

\* Seeded fault: %% takes an argument with it.
Takes_Percent(c, known) == c \in known \cup {"%"}

\* The directives that take an argument.
Takes(c, known) == c \in known

\* printf() of ulib (known: with %c) and cprintf() of the kernel (without).
Printed(fmt, args, known) ==
    LET at[i \in 0..Len(fmt)] ==       \* <<output, arguments used, in a directive>>
            IF i = 0 THEN <<<<>>, 0, FALSE>>
            ELSE LET s == at[i - 1]
                     c == fmt[i]
                     n == IF Takes(c, known) THEN s[2] + 1 ELSE s[2]
                 IN  IF ~s[3] THEN IF c = "%" THEN <<s[1], s[2], TRUE>> ELSE <<Append(s[1], c), s[2], FALSE>>
                     ELSE IF c \in known THEN <<s[1] \o Directive(c, args[n]), n, FALSE>>
                     ELSE IF c = "%" THEN <<Append(s[1], "%"), n, FALSE>>
                     ELSE <<s[1] \o <<"%", c>>, s[2], FALSE>>
    IN  at[Len(fmt)][1]

printf(fmt, args) == Printed(fmt, args, {"d", "x", "p", "s", "c"})
cprintf(fmt, args) == Printed(fmt, args, {"d", "x", "p", "s"})

\* gets(): up to a newline, the end of the input or max - 1 characters.
gets(in, max) ==
    LET ends == {i \in 1..Len(in) : in[i] = "nl"} \cup {Len(in), max - 1}
    IN  SubSeq(in, 1, Min(ends))
-----------------------------------------------------------------------------

Terminated(mem, s) == \E a \in s..(MemSize - 1) : mem[a] = 0

\* The calls of the programs: two areas of n bytes inside the memory, strings with an end.
MemCall == [fn : {"memmove", "ulib_memmove", "memset", "memcmp", "strncmp", "strncpy", "safestrcpy"},
            dst : Addr, src : Addr, n : 0..MemSize]
StrCall == [fn : {"strlen", "strcmp", "strchr", "strcpy"}, dst : Addr, src : Addr, n : {0}]

InMemory(mem, c) ==
    /\ c.dst + c.n <= MemSize /\ c.src + c.n <= MemSize
    /\ c.fn \in {"strlen", "strcmp", "strchr", "strcpy"} => Terminated(mem, c.dst) /\ Terminated(mem, c.src)
    /\ c.fn = "strcpy" => c.dst + strlen(mem, c.src) < MemSize
    \* The copies of strings do not overlap.
    /\ c.fn \in {"strncpy", "safestrcpy"} => c.dst + c.n <= c.src \/ c.src + c.n <= c.dst
    /\ c.fn = "strcpy" => c.dst + strlen(mem, c.src) < c.src \/ c.src + strlen(mem, c.src) < c.dst

Init == \/ \E mem \in [Addr -> Byte], c \in MemCall \cup StrCall :
              InMemory(mem, c) /\ lc = [mem |-> mem, call |-> c, done |-> FALSE, res |-> 0, after |-> mem]
        \/ \E x \in IntMin..IntMax, b \in {10, 16}, s \in BOOLEAN :
              lc = [mem |-> <<>>, call |-> [fn |-> "printint", x |-> x, base |-> b, sgn |-> s],
                    done |-> FALSE, res |-> 0, after |-> <<>>]
        \/ \E f \in Formats, fn \in {"printf", "cprintf"} :
              lc = [mem |-> <<>>, call |-> [fn |-> fn, fmt |-> f, args |-> [i \in 1..Len(f) |-> i]],
                    done |-> FALSE, res |-> 0, after |-> <<>>]
        \/ \E in \in Inputs, max \in 1..(MemSize + 1) :
              lc = [mem |-> <<>>, call |-> [fn |-> "gets", in |-> in, max |-> max],
                    done |-> FALSE, res |-> 0, after |-> <<>>]

\* One call: what it leaves in memory, what it returns or prints.
Memory(m, c) ==
    CASE c.fn = "memmove" -> memmove(m, c.dst, c.src, c.n)
      [] c.fn = "ulib_memmove" -> ulib_memmove(m, c.dst, c.src, c.n)
      [] c.fn = "memset" -> memset(m, c.dst, 1, c.n)
      [] c.fn = "strncpy" -> strncpy(m, c.dst, c.src, c.n)
      [] c.fn = "safestrcpy" -> safestrcpy(m, c.dst, c.src, c.n)
      [] c.fn = "strcpy" -> strcpy(m, c.dst, c.src)
      [] OTHER -> m

Result(m, c) ==
    CASE c.fn = "memcmp" -> memcmp(m, c.dst, c.src, c.n)
      [] c.fn = "strncmp" -> strncmp(m, c.dst, c.src, c.n)
      [] c.fn = "strcmp" -> strcmp(m, c.dst, c.src)
      [] c.fn = "strlen" -> strlen(m, c.dst)
      [] c.fn = "strchr" -> strchr(m, c.dst, 1)
      [] c.fn = "printint" -> printint(c.x, c.base, c.sgn)
      [] c.fn = "printf" -> printf(c.fmt, c.args)
      [] c.fn = "cprintf" -> cprintf(c.fmt, c.args)
      [] c.fn = "gets" -> gets(c.in, c.max)
      [] OTHER -> 0

Next == /\ ~lc.done
        /\ lc' = [lc EXCEPT !.done = TRUE, !.after = Memory(lc.mem, lc.call), !.res = Result(lc.mem, lc.call)]

-----------------------------------------------------------------------------
(* Reference.                                                              *)

Str(m, s) == SubSeq([i \in 1..(MemSize - s) |-> m[s + i - 1]], 1, strlen(m, s))
Sign(x) == IF x < 0 THEN -1 ELSE IF x > 0 THEN 1 ELSE 0

\* The number that digits spell, sign and all.
Spelled(d, base) ==
    LET value[k \in 0..Len(d)] ==
            IF k = 0 THEN 0 ELSE IF d[k] = "-" THEN value[k - 1] ELSE value[k - 1] * base + Value(d[k])
    IN  IF d[1] = "-" THEN -value[Len(d)] ELSE value[Len(d)]

\* Percent signs right before place i; an odd number makes i the letter of a directive.
Percents(f, i) == Max({k \in 0..(i - 1) : \A j \in (i - k)..(i - 1) : f[j] = "%"})
IsDirective(f, i) == f[i] # "%" /\ Percents(f, i) % 2 = 1

\* What place i of a format adds to the output.
Piece(f, args, known, i) ==
    LET rank == Cardinality({j \in 1..i : IsDirective(f, j) /\ f[j] \in known})
    IN  CASE f[i] = "%" -> IF Percents(f, i) % 2 = 1 THEN <<"%">> ELSE <<>>
          [] IsDirective(f, i) /\ f[i] \in known -> Directive(f[i], args[rank])
          [] IsDirective(f, i) /\ f[i] \notin known -> <<"%", f[i]>>
          [] OTHER -> <<f[i]>>

\* The copies: which bytes are written and with what, and none outside n bytes of the
\* destination.
CopiesExact(m, c, after) ==
    LET within(a) == a \in c.dst..(c.dst + c.n - 1)
        moved == \A i \in 0..(c.n - 1) : after[c.dst + i] = m[c.src + i]
        src == IF Terminated(m, c.src) THEN Str(m, c.src)
               ELSE [i \in 1..(MemSize - c.src) |-> m[c.src + i - 1]]
    IN  /\ c.fn # "strcpy" => \A a \in Addr : ~within(a) => after[a] = m[a]
        /\ c.fn = "memmove" => moved
        /\ c.fn = "ulib_memmove" /\ ~(c.src < c.dst /\ c.dst < c.src + c.n) => moved
        /\ c.fn = "strncpy" => \A i \in 1..c.n : after[c.dst + i - 1] = IF i <= Len(src) THEN src[i] ELSE 0
        \* safestrcpy: what fits, its terminator, one more zero if there is room; no more.
        /\ c.fn = "safestrcpy" /\ c.n > 0 =>
              LET len == IF Len(src) < c.n THEN Len(src) ELSE c.n - 1
              IN  \A i \in 1..c.n : after[c.dst + i - 1] = CASE i <= len -> src[i]
                                                            [] i \in {len + 1, len + 2} -> 0
                                                            [] OTHER -> m[c.dst + i - 1]
        /\ c.fn = "strcpy" => Str(after, c.dst) = src

\* The answers: equal strings and only they compare equal, and swapped arguments the other way.
AnswersExact(m, c, res) ==
    /\ c.fn = "strcmp" => /\ res = 0 <=> Str(m, c.dst) = Str(m, c.src)
                          /\ Sign(strcmp(m, c.src, c.dst)) = -Sign(res)
    /\ c.fn = "memcmp" => res = 0 <=> \A i \in 0..(c.n - 1) : m[c.dst + i] = m[c.src + i]
    /\ c.fn = "strchr" => IF res = -1 THEN \A i \in 1..Len(Str(m, c.dst)) : Str(m, c.dst)[i] # 1
                          ELSE m[res] = 1 /\ res - c.dst < Len(Str(m, c.dst))

\* Numbers read back as what was printed, the least int too; formats print literal text and
\* the arguments in their order; memory and strings are as above; a line read fits its buffer.
LibExact ==
    lc.done =>
       LET c == lc.call
       IN  /\ c.fn \in {x.fn : x \in MemCall \cup StrCall} =>
                CopiesExact(lc.mem, c, lc.after) /\ AnswersExact(lc.mem, c, lc.res)
           /\ c.fn = "printint" =>
                /\ Spelled(lc.res, c.base) = IF c.sgn THEN c.x ELSE c.x % 2 ^ Width
                /\ c.base = 10 /\ (c.x >= 0 \/ ~c.sgn) => atoi(lc.res) = c.x % 2 ^ Width
           /\ c.fn \in {"printf", "cprintf"} =>
                lc.res = FlattenSeq([i \in 1..Len(c.fmt) |->
                            Piece(c.fmt, c.args, {"d", "x", "p", "s"} \cup (IF c.fn = "printf" THEN {"c"} ELSE {}), i)])
           /\ c.fn = "gets" => /\ Len(lc.res) < c.max /\ IsPrefix(lc.res, c.in)
                               /\ \A i \in 1..(Len(lc.res) - 1) : lc.res[i] # "nl"
                               /\ Len(lc.res) < c.max - 1 /\ Len(lc.res) < Len(c.in) => Last(lc.res) = "nl"
=============================================================================
