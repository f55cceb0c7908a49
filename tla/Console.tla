------------------------------ MODULE Console -------------------------------
(***************************************************************************)
(* Console input: the line editor consoleintr(), run by keyboard and       *)
(* serial interrupts, and the reads that wait for a line.  The indices r,  *)
(* w and e only grow, modulo UINT; the buffer is a ring of INPUT_BUF.      *)
(***************************************************************************)
EXTENDS Proc

CONSTANTS INPUT_BUF

ASSUME ConsoleAssumption == INPUT_BUF \in Nat \ {0} /\ UINT % INPUT_BUF = 0 /\ 2 * INPUT_BUF <= UINT

VARIABLES input     \* struct input: buf, r, w, e

consVars == <<input>>

Key == {"x", "nl", "eof", "kill", "bs"}       \* a letter, newline, ^D, ^U, backspace

ConsoleInit == input = [buf |-> [i \in 0..(INPUT_BUF - 1) |-> "x"], r |-> 0, w |-> 0, e |-> 0]

ConsFree == \A q \in Slot : pc[q] # "consoleread_sleep"
At(i) == input.buf[i % INPUT_BUF]
Dist(i, j) == (j - i) % UINT

\* Seeded fault: the edit index does not wrap around below zero.
KillLine_NoWrap == input.e - Dist(input.w, input.e)

\* The edit index after ^U: back to the last newline, or to w.
KillLine ==
    LET line == {d \in 0..Dist(input.w, input.e) :
                    \A c \in 1..d : At((input.e - c) % UINT) # "nl"}
    IN  (input.e - Max(line)) % UINT

\* Seeded fault: a full buffer is not handed to the reader.
Commit_NotFull(c, e) == c \in {"nl", "eof"}

Commit(c, e) == c \in {"nl", "eof"} \/ Dist(input.r, e) = INPUT_BUF

\* One key.
consoleintr(c) ==
    /\ ~panicked
    /\ ConsFree
    /\ \/ /\ c = "kill"
          /\ input' = [input EXCEPT !.e = KillLine]
          /\ UNCHANGED state
       \/ /\ c = "bs"
          /\ input.e # input.w
          /\ input' = [input EXCEPT !.e = (@ - 1) % UINT]
          /\ UNCHANGED state
       \/ /\ c \in {"x", "nl", "eof"}
          /\ Dist(input.r, input.e) < INPUT_BUF
          /\ LET e == (input.e + 1) % UINT
             IN  /\ input' = [input EXCEPT !.buf[input.e % INPUT_BUF] = c, !.e = e,
                                           !.w = IF Commit(c, e) THEN e ELSE @]
                 /\ IF Commit(c, e) THEN wakeup(<<"input", 0>>) ELSE UNCHANGED state
    /\ UNCHANGED <<pid, parent, killed, chan, nextpid, ofile, pc, loc, panicked>>

\* consoleread(): loc.n is what is left of the target, loc.i what was read.
sys_read_console(p, n) ==
    /\ InUser(p)
    /\ loc' = [loc EXCEPT ![p] = [NoLoc EXCEPT !.n = n]]
    /\ Goto(p, "consoleread")
    /\ UNCHANGED <<ptable, ofile, panicked, consVars>>

\* Up to what is committed: a newline ends the read, and so does ^D, which stays
\* in the buffer unless it is the first character read.
consoleread(p) ==
    /\ Running(p)
    /\ pc[p] = "consoleread"
    /\ ConsFree
    /\ LET avail == Dist(input.r, input.w)
           n == loc[p].n
           first == loc[p].i = 0
       IN  \/ /\ avail = 0
              /\ IF killed[p] THEN Return(p) ELSE Goto(p, "consoleread_sleep") /\ UNCHANGED loc
              /\ UNCHANGED input
           \/ /\ avail > 0
              /\ LET stops == {k \in 1..avail : At((input.r + k - 1) % UINT) \in {"nl", "eof"}}
                     k == Min(stops \cup {avail, n})
                     eof == At((input.r + k - 1) % UINT) = "eof"
                     kept == eof /\ (k > 1 \/ ~first)
                 IN  /\ input' = [input EXCEPT !.r = (@ + IF kept THEN k - 1 ELSE k) % UINT]
                     /\ IF k \in stops \/ k = n \/ killed[p] THEN Return(p)
                        ELSE /\ loc' = [loc EXCEPT ![p] = [NoLoc EXCEPT !.i = 1, !.n = n - k]]
                             /\ Goto(p, "consoleread_sleep")
    /\ UNCHANGED <<ptable, ofile, panicked>>

consoleread_sleep(p) ==
    /\ Running(p)
    /\ pc[p] = "consoleread_sleep"
    /\ sleep(p, <<"input", 0>>)
    /\ Goto(p, "consoleread")
    /\ UNCHANGED <<pid, parent, killed, nextpid, ofile, loc, panicked, consVars>>
=============================================================================
