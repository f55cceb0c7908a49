------------------------------- MODULE Shell --------------------------------
(***************************************************************************)
(* The command parser of sh: recursive descent over the tokens gettoken()  *)
(* cuts the line into, to the tree runcmd() walks.  Every parse function   *)
(* returns the tree and the tokens left, or an error (panic in the code).  *)
(***************************************************************************)
EXTENDS Integers, Sequences, FiniteSets, SequencesExt

CONSTANTS MAXARGS,
          MaxTokens       \* bound: tokens of a line

VARIABLES sh     \* the tokens of the line, and its tree once parsed

Token == {"a", "<", ">", "|", "&", ";", "(", ")"}       \* "a" is a word

Init == \E n \in 0..MaxTokens : \E toks \in [1..n -> Token] : sh = [toks |-> toks, tree |-> <<"none">>]

-----------------------------------------------------------------------------

Error == [ok |-> FALSE, cmd |-> <<"error">>, left |-> <<>>]
Ok(cmd, left) == [ok |-> TRUE, cmd |-> cmd, left |-> left]
peek(toks, set) == toks # <<>> /\ toks[1] \in set

\* Trees: <<"exec", words>>, <<"redir", tree, token>>, <<"pipe", l, r>>,
\* <<"list", l, r>>, <<"back", tree>>.
RECURSIVE parseredirs(_, _)
parseredirs(cmd, toks) ==
    IF ~peek(toks, {"<", ">"}) THEN Ok(cmd, toks)
    ELSE IF ~peek(Tail(toks), {"a"}) THEN Error
    ELSE parseredirs(<<"redir", cmd, toks[1]>>, SubSeq(toks, 3, Len(toks)))

\* The words of a command are added inside its redirections.
RECURSIVE AddWord(_)
AddWord(cmd) == IF cmd[1] = "redir" THEN <<"redir", AddWord(cmd[2]), cmd[3]>>
                ELSE <<"exec", cmd[2] + 1>>
RECURSIVE Words(_)
Words(cmd) == IF cmd[1] = "redir" THEN Words(cmd[2]) ELSE cmd[2]

RECURSIVE parseargs(_)
parseargs(r) ==
    IF ~r.ok \/ r.left = <<>> \/ peek(r.left, {"|", ")", "&", ";"}) THEN r
    ELSE IF r.left[1] # "a" \/ Words(r.cmd) + 1 >= MAXARGS THEN Error
    ELSE parseargs(parseredirs(AddWord(r.cmd), Tail(r.left)))

RECURSIVE parseline(_)
RECURSIVE parsepipe(_)

parseblock(toks) ==
    LET in == parseline(Tail(toks))
    IN  IF ~in.ok \/ ~peek(in.left, {")"}) THEN Error ELSE parseredirs(in.cmd, Tail(in.left))

parseexec(toks) == IF peek(toks, {"("}) THEN parseblock(toks)
                   ELSE parseargs(parseredirs(<<"exec", 0>>, toks))

\* Seeded fault: the right side of a pipe is one command only.
PipeRight_Single(toks) == parseexec(toks)

PipeRight(toks) == parsepipe(toks)

parsepipe(toks) ==
    LET l == parseexec(toks)
        r == PipeRight(Tail(l.left))
    IN  IF ~l.ok \/ ~peek(l.left, {"|"}) THEN l
        ELSE IF r.ok THEN Ok(<<"pipe", l.cmd, r.cmd>>, r.left) ELSE Error

RECURSIVE Backs(_)
Backs(r) == IF r.ok /\ peek(r.left, {"&"}) THEN Backs(Ok(<<"back", r.cmd>>, Tail(r.left))) ELSE r

parseline(toks) ==
    LET l == Backs(parsepipe(toks))
        r == parseline(Tail(l.left))
    IN  IF ~l.ok \/ ~peek(l.left, {";"}) THEN l
        ELSE IF r.ok THEN Ok(<<"list", l.cmd, r.cmd>>, r.left) ELSE Error

\* Leftovers are a syntax error.
parsecmd ==
    /\ sh.tree = <<"none">>
    /\ LET r == parseline(sh.toks)
       IN  sh' = [sh EXCEPT !.tree = IF r.ok /\ r.left = <<>> THEN r.cmd ELSE <<"error">>]

Next == parsecmd

-----------------------------------------------------------------------------
(* Reference: the grammar, by what may stand next to what, and the tokens  *)
(* of a tree.                                                              *)

RECURSIVE Unparse(_)
Unparse(t) ==
    CASE t[1] = "exec" -> [i \in 1..t[2] |-> "a"]
      [] t[1] = "redir" -> Unparse(t[2]) \o <<t[3], "a">>
      [] t[1] = "pipe" -> Unparse(t[2]) \o <<"|">> \o Unparse(t[3])
      [] t[1] = "list" -> Unparse(t[2]) \o <<";">> \o Unparse(t[3])
      [] t[1] = "back" -> Unparse(t[2]) \o <<"&">>

\* Words and redirections of a command in any order, words first; parentheses dropped.
RECURSIVE Sorted(_, _, _)
Sorted(toks, words, redirs) ==
    IF toks = <<>> THEN words \o redirs
    ELSE CASE toks[1] = "a" -> Sorted(Tail(toks), Append(words, "a"), redirs)
           [] toks[1] \in {"<", ">"} -> Sorted(SubSeq(toks, 3, Len(toks)), words, redirs \o SubSeq(toks, 1, 2))
           [] toks[1] \in {"(", ")"} -> words \o redirs \o Sorted(Tail(toks), <<>>, <<>>)
           [] OTHER -> words \o redirs \o <<toks[1]>> \o Sorted(Tail(toks), <<>>, <<>>)

Depth(toks) == [i \in 0..Len(toks) |-> Cardinality({j \in 1..i : toks[j] = "("})
                                       - Cardinality({j \in 1..i : toks[j] = ")"})]

\* A tree holds every token of its line, in order, and a line is refused exactly when a
\* redirection lacks its file, parentheses do not match or touch a word on the wrong side,
\* or something follows `&' that is not `;', `&' or the end.
ShellTree ==
    LET toks == sh.toks
        n == Len(toks)
        at(i) == IF i \in 1..n THEN toks[i] ELSE "end"
        wellFormed ==
            /\ \A i \in 0..n : Depth(toks)[i] >= 0
            /\ Depth(toks)[n] = 0
            /\ \A i \in 1..n : toks[i] \in {"<", ">"} => at(i + 1) = "a"
            /\ \A i \in 1..n : toks[i] = "&" => at(i + 1) \in {"&", ";", ")", "end"}
            /\ \A i \in 1..n : toks[i] = "(" => at(i - 1) \in {"end", "(", "|", ";"}
    IN  /\ sh.tree[1] \notin {"none", "error"} => wellFormed /\ Unparse(sh.tree) = Sorted(toks, <<>>, <<>>)
        /\ sh.tree[1] = "error" =>
              \/ ~wellFormed
              \/ \E i \in 1..n : toks[i] = ")" /\ at(i + 1) \notin {"|", "&", ";", ")", "<", ">", "end"}
              \/ \E i \in 1..n : toks[i] = ")" /\ \E j \in i..n : toks[j] = "a" /\ at(j - 1) \notin {"<", ">"}
                                    /\ \A k \in (i + 1)..(j - 1) : toks[k] \in {"<", ">", "a"}
              \/ Cardinality({i \in 1..n : toks[i] = "a"}) >= MAXARGS
=============================================================================
