----------------------------- MODULE ByteStream -----------------------------
(***************************************************************************)
(* What a pipe promises: the bytes written come out once, in the order     *)
(* they went in; at most Capacity of them are under way; what is under way *)
(* is lost only when both ends are closed.                                 *)
(* Bytes are numbered modulo Stamps in the order they are written.         *)
(***************************************************************************)
EXTENDS Integers, Sequences

CONSTANTS Capacity, Stamps

VARIABLES open,    \* the ends that are open, of "r" and "w"
          queue,   \* bytes under way
          sent     \* number of the next byte to be written

streamVars == <<open, queue, sent>>

Numbers(from, k) == [i \in 1..k |-> (from + i - 1) % Stamps]

Create ==
    /\ open = {}
    /\ open' = {"r", "w"}
    /\ queue' = <<>> /\ sent' = 0

Put(k) ==
    /\ open # {}
    /\ k <= Capacity - Len(queue)
    /\ queue' = queue \o Numbers(sent, k)
    /\ sent' = (sent + k) % Stamps
    /\ UNCHANGED open

Take(k) ==
    /\ k <= Len(queue)
    /\ queue' = SubSeq(queue, k + 1, Len(queue))
    /\ UNCHANGED <<open, sent>>

\* The last descriptor of an end is gone; with the second end goes the pipe.
Close(e) ==
    /\ e \in open
    /\ open' = open \ {e}
    /\ IF open' = {} THEN queue' = <<>> /\ sent' = 0
       ELSE UNCHANGED <<queue, sent>>

\* No pipe yet, or a new one.
StreamInit == open \in {{}, {"r", "w"}} /\ queue = <<>> /\ sent = 0

StreamNext ==
    \/ Create
    \/ \E k \in 1..Capacity : Put(k) \/ Take(k)
    \/ \E e \in {"r", "w"} : Close(e)

StreamSpec == StreamInit /\ [][StreamNext]_streamVars
=============================================================================
