-------------------------------- MODULE Run ---------------------------------
(***************************************************************************)
(* The shell running a parsed line: runcmd() walks the tree, each process  *)
(* doing one system call at a time, and rewires descriptors by closing one *)
(* and trusting the next open() or dup() to return the lowest free number. *)
(* The commands are external: each reads its standard input to the end and *)
(* fills its standard output, so it ends only when nobody can write to its *)
(* input and one of those who can read its output reads, if there are any. *)
(***************************************************************************)
EXTENDS Integers, Sequences, FiniteSets, FiniteSetsExt

CONSTANTS Scripts,      \* bound: the lines typed: trees as in Shell, their words numbered, or <<"cd">>
          NFD,          \* descriptors of a process
          MaxProcs,     \* bound: the process table
          MaxFaults     \* bound: system calls that fail

VARIABLES rn     \* processes, lines to read, lines read and calls failed

Pids == 1..MaxProcs
Shell == 1
Nothing == <<"nothing">>
Console == <<"console">>

\* Standard input is redirected by <, standard output by > and >>.
Fd(token) == IF token = "<" THEN 0 ELSE 1

\* Seeded fault: the parent keeps the write end while it waits.
parent_closes_Read == <<<<"closep", 0>>>>

parent_closes == <<<<"closep", 0>>, <<"closep", 1>>>>

\* What runcmd() does of a tree: system calls, <<"run", t>> for its tail call, and
\* <<"fork", t, calls, background>> for a child that makes these calls and runs t.
runcmd(t) ==
    CASE t[1] = "exec" -> IF t[2] = 0 THEN <<<<"exit">>>> ELSE <<<<"exec", t[2]>>, <<"exit">>>>
      [] t[1] = "redir" -> <<<<"close", Fd(t[3])>>, <<"open", t[3]>>, <<"run", t[2]>>>>
      [] t[1] = "list" -> <<<<"fork", t[2], <<>>, FALSE>>, <<"wait">>, <<"run", t[3]>>>>
      [] t[1] = "pipe" ->
            <<<<"pipe", t>>,
              <<"fork", t[2], <<<<"close", 1>>, <<"dup", 1>>, <<"closep", 0>>, <<"closep", 1>>>>, FALSE>>,
              <<"fork", t[3], <<<<"close", 0>>, <<"dup", 0>>, <<"closep", 0>>, <<"closep", 1>>>>, FALSE>>>>
            \o parent_closes \o <<<<"wait">>, <<"wait">>, <<"exit">>>>
      [] t[1] = "back" -> <<<<"fork", t[2], <<>>, TRUE>>, <<"exit">>>>

Unused == [st |-> "unused", code |-> <<>>, fd |-> [n \in 0..(NFD - 1) |-> Nothing],
           p |-> <<0, 0>>, parent |-> 0, leaf |-> 0, tree |-> <<"exec", 0>>, line |-> 0, back |-> FALSE]

Enter(code) == IF code # <<>> /\ code[1][1] = "run" THEN runcmd(code[1][2]) ELSE code

\* init gives the shell the console three times; another program may give it less.
Init == \E n \in 0..3, script \in Scripts :
    rn = [script |-> script, lines |-> 0, faults |-> 0,
          proc |-> [q \in Pids |->
                      IF q # Shell THEN Unused
                      ELSE [Unused EXCEPT !.st = "run", !.code = <<<<"console">>>>,
                               !.fd = [i \in 0..(NFD - 1) |-> IF i < n THEN Console ELSE Nothing]]]]

Live(q) == rn.proc[q].st \in {"run", "command"}
AtCall(q, name) == rn.proc[q].st = "run" /\ rn.proc[q].code[1][1] = name
Call(q) == rn.proc[q].code[1]

Free(fd) == {n \in DOMAIN fd : fd[n] = Nothing}
fdalloc(fd, f) == [fd EXCEPT ![Min(Free(fd))] = f]
Holds(q, f) == Live(q) /\ \E n \in 0..(NFD - 1) : rn.proc[q].fd[n] = f

\* Process q after its call, with these descriptors.
Done(q, fd) == [rn EXCEPT !.proc[q].fd = fd, !.proc[q].code = Enter(Tail(@))]

\* A failed call: the shell prints what failed and exits.
Fail(q) == /\ rn.faults < MaxFaults
           /\ rn' = [rn EXCEPT !.faults = @ + 1, !.proc[q].code = <<<<"exit">>>>]

-----------------------------------------------------------------------------

\* main: open the console until three descriptors are taken.
main_console(q) ==
    /\ AtCall(q, "console")
    /\ LET fd == rn.proc[q].fd
       IN  rn' = IF Min(Free(fd)) >= 3 THEN [rn EXCEPT !.proc[q].code = <<<<"line">>>>]
                 ELSE [rn EXCEPT !.proc[q].fd = fdalloc(fd, Console)]

\* main: the next line, or the end of the input.  cd is done by the shell itself.
main_line(q) ==
    /\ AtCall(q, "line")
    /\ \/ /\ rn.lines < Len(rn.script)
          /\ LET t == rn.script[rn.lines + 1]
             IN rn' = [rn EXCEPT !.lines = @ + 1,
                                 !.proc[q].code = IF t = <<"cd">> THEN @
                                                  ELSE <<<<"fork", t, <<>>, FALSE>>, <<"wait">>, <<"line">>>>,
                                 !.proc[q].tree = t, !.proc[q].line = rn.lines + 1]
       \/ rn' = [rn EXCEPT !.proc[q].code = <<<<"exit">>>>]

close(q) ==
    /\ AtCall(q, "close")
    /\ rn' = Done(q, [rn.proc[q].fd EXCEPT ![Call(q)[2]] = Nothing])

closep(q) ==
    /\ AtCall(q, "closep")
    /\ rn' = Done(q, [rn.proc[q].fd EXCEPT ![rn.proc[q].p[Call(q)[2] + 1]] = Nothing])

dup(q) ==
    /\ AtCall(q, "dup")
    /\ LET fd == rn.proc[q].fd
       IN  rn' = Done(q, fdalloc(fd, fd[rn.proc[q].p[Call(q)[2] + 1]]))

open(q) ==
    /\ AtCall(q, "open")
    /\ \/ rn' = Done(q, fdalloc(rn.proc[q].fd, <<"file", Call(q)[2]>>))
       \/ Fail(q)

pipe(q) ==
    /\ AtCall(q, "pipe")
    /\ \/ LET fd == rn.proc[q].fd
              r == Min(Free(fd))
              fdr == fdalloc(fd, <<"r", Call(q)[2], rn.proc[q].line>>)
              w == Min(Free(fdr))
          IN  rn' = [Done(q, fdalloc(fdr, <<"w", Call(q)[2], rn.proc[q].line>>)) EXCEPT !.proc[q].p = <<r, w>>]
       \/ Fail(q)

\* fork1: the child takes the lowest free entry of the table; a full table is a failure too.
fork1(q) ==
    /\ AtCall(q, "fork")
    /\ LET free == {c \in Pids : rn.proc[c].st = "unused"}
       IN  \/ /\ free # {}
              /\ rn' = [Done(q, rn.proc[q].fd) EXCEPT
                          !.proc[Min(free)] = [rn.proc[q] EXCEPT
                             !.code = Enter(Call(q)[3] \o <<<<"run", Call(q)[2]>>>>), !.parent = q,
                             !.back = @ \/ Call(q)[4]]]
           \/ free = {} /\ rn' = [rn EXCEPT !.proc[q].code = <<<<"exit">>>>, !.faults = MaxFaults]
           \/ Fail(q)

\* A zombie child is freed; without children wait() returns at once.
Children(q) == {c \in Pids : rn.proc[c].st # "unused" /\ rn.proc[c].parent = q}
wait(q) ==
    /\ AtCall(q, "wait")
    /\ \/ \E c \in Children(q) :
            /\ rn.proc[c].st = "zombie"
            /\ rn' = [Done(q, rn.proc[q].fd) EXCEPT !.proc[c] = Unused]
       \/ Children(q) = {} /\ rn' = Done(q, rn.proc[q].fd)

exec(q) ==
    /\ AtCall(q, "exec")
    /\ \/ rn' = [rn EXCEPT !.proc[q].st = "command", !.proc[q].leaf = Call(q)[2], !.proc[q].code = <<>>]
       \/ Fail(q)

\* exit: descriptors are closed, children go to init, which also frees them.
Exited(q) ==
    [rn EXCEPT !.proc = [c \in Pids |->
        IF c = q THEN IF rn.proc[q].parent = 0 THEN Unused
                      ELSE [Unused EXCEPT !.st = "zombie", !.parent = rn.proc[q].parent, !.back = rn.proc[q].back]
        ELSE IF rn.proc[c].parent = q /\ rn.proc[c].st = "zombie" THEN Unused
        ELSE IF rn.proc[c].parent = q THEN [rn.proc[c] EXCEPT !.parent = 0] ELSE rn.proc[c]]]

exit(q) == AtCall(q, "exit") /\ rn' = Exited(q)

\* EXTERNAL: a command ends.
MayEnd(q) ==
    LET in == rn.proc[q].fd[0]
        out == rn.proc[q].fd[1]
    IN  /\ in[1] = "r" => ~\E w \in Pids : Holds(w, <<"w", in[2], in[3]>>)
        /\ out[1] = "w" => LET readers == {r \in Pids : Holds(r, <<"r", out[2], out[3]>>)}
                           IN  readers # {} => \E r \in readers : rn.proc[r].st = "command"
command(q) == rn.proc[q].st = "command" /\ MayEnd(q) /\ rn' = Exited(q)

Next == \E q \in Pids : \/ main_console(q) \/ main_line(q) \/ close(q) \/ closep(q) \/ dup(q)
                        \/ open(q) \/ pipe(q) \/ fork1(q) \/ wait(q) \/ exec(q) \/ exit(q) \/ command(q)

-----------------------------------------------------------------------------
(* Reference: where the words of a tree read and write.                    *)

RECURSIVE Wiring(_, _, _, _)
Wiring(t, in, out, line) ==
    CASE t[1] = "exec" -> {<<t[2], in, out>>}
      [] t[1] = "redir" -> IF t[3] = "<" THEN Wiring(t[2], <<"file", "<">>, out, line)
                           ELSE Wiring(t[2], in, <<"file", t[3]>>, line)
      [] t[1] = "pipe" -> Wiring(t[2], in, <<"w", t, line>>, line) \cup Wiring(t[3], <<"r", t, line>>, out, line)
      [] t[1] = "list" -> Wiring(t[2], in, out, line) \cup Wiring(t[3], in, out, line)
      [] t[1] = "back" -> Wiring(t[2], in, out, line)

Blocked(q) == \/ rn.proc[q].st \in {"unused", "zombie"}
              \/ rn.proc[q].st = "command" /\ ~MayEnd(q)
              \/ AtCall(q, "wait") /\ Children(q) # {} /\ \A c \in Children(q) : rn.proc[c].st # "zombie"

\* Every command reads and writes what its place in the tree says and inherits nothing but 0,
\* 1 and 2; somebody can always run until the shell is gone; and, unless a call failed, the
\* next prompt comes when only background processes of earlier lines are left.
RunsAsWritten ==
    /\ \A q \in Pids : rn.proc[q].st = "command" =>
          LET fd == rn.proc[q].fd
          IN  /\ <<rn.proc[q].leaf, fd[0], fd[1]>> \in Wiring(rn.proc[q].tree, Console, Console, rn.proc[q].line)
              /\ fd[2] = Console
              /\ \A n \in 3..(NFD - 1) : fd[n] = Nothing
    /\ rn.proc[Shell].st # "unused" => \E q \in Pids : ~Blocked(q)
    /\ AtCall(Shell, "line") =>
          /\ rn.proc[Shell].fd = [n \in 0..(NFD - 1) |-> IF n < 3 THEN Console ELSE Nothing]
          /\ rn.faults = 0 => \A q \in Pids \ {Shell} : rn.proc[q].st # "unused" => rn.proc[q].back
=============================================================================
