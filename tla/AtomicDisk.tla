----------------------------- MODULE AtomicDisk -----------------------------
(***************************************************************************)
(* What the logging layer promises to the file system above it: a disk on  *)
(* which the writes of every group of overlapping FS system calls become   *)
(* durable all together or not at all.  mem is what a reader of the buffer *)
(* cache sees, durable what a reboot would find.                           *)
(***************************************************************************)
CONSTANTS Block,    \* home blocks (inodes, bitmap, data)
          Value,    \* block contents
          Proc      \* processes that issue FS system calls

VARIABLES mem, durable, active

vars == <<mem, durable, active>>

Init ==
    /\ durable \in [Block -> Value]
    /\ mem = durable
    /\ active = {}

Begin(p) ==
    /\ p \notin active
    /\ active' = active \cup {p}
    /\ UNCHANGED <<mem, durable>>

Write(p, b, v) ==
    /\ p \in active
    /\ mem' = [mem EXCEPT ![b] = v]
    /\ UNCHANGED <<durable, active>>

End(p) ==
    /\ p \in active
    /\ active' = active \ {p}
    /\ UNCHANGED <<mem, durable>>

\* Everything becomes durable at once, and only between system calls.
Commit ==
    /\ active = {}
    /\ durable' = mem
    /\ UNCHANGED <<mem, active>>

Crash ==
    /\ mem' = durable
    /\ active' = {}
    /\ UNCHANGED durable

Next ==
    \/ \E p \in Proc : Begin(p) \/ End(p)
    \/ \E p \in Proc, b \in Block, v \in Value : Write(p, b, v)
    \/ Commit
    \/ Crash

Spec == Init /\ [][Next]_vars
=============================================================================
