-------------------------------- MODULE Grep --------------------------------
(***************************************************************************)
(* grep: the matcher match/matchhere/matchstar, and the loop that cuts     *)
(* what read() returns, a few bytes at a time, into lines.                 *)
(***************************************************************************)
EXTENDS Integers, Sequences, FiniteSets, FiniteSetsExt, SequencesExt

CONSTANTS BUFSIZE,      \* sizeof(buf)
          Patterns, Inputs     \* bound: patterns and files

VARIABLES gr     \* pattern, what is left to read, buf, lines printed, and (ghost) the
                 \* whole file and whether the loop threw bytes away

Init == \E re \in Patterns, text \in Inputs :
    gr = [re |-> re, todo |-> text, buf |-> <<>>, out |-> <<>>, file |-> text,
          dropped |-> FALSE, done |-> FALSE]

-----------------------------------------------------------------------------

\* Seeded fault: a starred character must occur once.
Instances_OneOrMore(c, text) ==
    {k \in 1..Len(text) : \A i \in 1..k : c = "." \/ text[i] = c}

\* How many leading characters c* can take.
Instances(c, text) == {k \in 0..Len(text) : \A i \in 1..k : c = "." \/ text[i] = c}

From(s, i) == SubSeq(s, i, Len(s))

RECURSIVE matchhere(_, _)
matchhere(re, text) ==
    CASE re = <<>> -> TRUE
      [] Len(re) > 1 /\ re[2] = "*" ->                                   \* matchstar
            \E k \in Instances(re[1], text) : matchhere(From(re, 3), From(text, k + 1))
      [] re = <<"$">> -> text = <<>>
      [] OTHER -> /\ text # <<>>
                  /\ re[1] \in {".", text[1]}
                  /\ matchhere(Tail(re), Tail(text))

match(re, text) ==
    IF re # <<>> /\ re[1] = "^" THEN matchhere(Tail(re), text)
    ELSE \E i \in 1..(Len(text) + 1) : matchhere(re, From(text, i))

-----------------------------------------------------------------------------

\* The complete lines of a buffer, and where the last of them ends.
Newlines(s) == {i \in DOMAIN s : s[i] = "\n"}
Lines(s) ==
    LET ends == SetToSortSeq(Newlines(s), LAMBDA a, b : a < b)
    IN  [k \in DOMAIN ends |-> SubSeq(s, IF k = 1 THEN 1 ELSE ends[k - 1] + 1, ends[k] - 1)]
Matching(re, lines) == SelectSeq(lines, LAMBDA l : match(re, l))

\* read() returned n bytes: print the lines, keep the rest; a buffer without a
\* newline is thrown away.
read_some(n) ==
    /\ ~gr.done
    /\ n \in 1..Len(gr.todo) /\ n <= BUFSIZE - Len(gr.buf) - 1
    /\ LET buf == gr.buf \o SubSeq(gr.todo, 1, n)
           end == Max(Newlines(buf) \cup {0})
       IN  gr' = [gr EXCEPT !.todo = From(@, n + 1),
                            !.out = @ \o Matching(gr.re, Lines(buf)),
                            !.buf = IF end = 0 THEN <<>> ELSE From(buf, end + 1),
                            !.dropped = @ \/ end = 0]

\* End of file, or no room in the buffer.
read_end ==
    /\ ~gr.done
    /\ gr.todo = <<>> \/ Len(gr.buf) + 1 >= BUFSIZE
    /\ gr' = [gr EXCEPT !.done = TRUE]

Next == read_end \/ \E n \in 1..BUFSIZE : read_some(n)

-----------------------------------------------------------------------------
(* Reference: atoms of the pattern and the set of places they lead to      *)

RECURSIVE Atoms(_)
Atoms(re) ==
    CASE re = <<>> -> <<>>
      [] Len(re) > 1 /\ re[2] = "*" -> <<[c |-> re[1], star |-> TRUE]>> \o Atoms(From(re, 3))
      [] OTHER -> <<[c |-> re[1], star |-> FALSE]>> \o Atoms(Tail(re))

After(text, places, atom, end) ==
    CASE atom.star -> {j \in 0..Len(text) : \E i \in places : i <= j /\ \A k \in (i + 1)..j : atom.c \in {".", text[k]}}
      [] ~atom.star /\ atom.c = "$" /\ end -> places \cap {Len(text)}
      [] OTHER -> {j \in 1..Len(text) : j - 1 \in places /\ atom.c \in {".", text[j]}}

Matches(re, text) ==
    LET anchored == re # <<>> /\ re[1] = "^"
        atoms == Atoms(IF anchored THEN Tail(re) ELSE re)
        places[k \in 0..Len(atoms)] ==
            IF k = 0 THEN IF anchored THEN {0} ELSE 0..Len(text)
            ELSE After(text, places[k - 1], atoms[k], k = Len(atoms))
    IN  places[Len(atoms)] # {}

\* grep prints the lines that match, each once and in order, however read() cuts the
\* file, unless a read ended before the first newline of the buffer: then the start of
\* that line is gone.  Matching is that of the reference.
GrepExact ==
    gr.done /\ ~gr.dropped /\ gr.todo = <<>> =>
        gr.out = SelectSeq(Lines(gr.file), LAMBDA l : Matches(gr.re, l))
=============================================================================
